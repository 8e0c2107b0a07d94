\* Up to two blocks, three replacements with a block each and one appended: one
\* that ousts another may be ousted.
SPECIFICATION EditSpec
CONSTANTS
    b1 = b1  b2 = b2  b3 = b3  old = old  new = new
    Block <- Blocks
    Contexts <- UpToTwo
    Inserts <- OneBlock
    Appends <- OneBlock
    MaxReplacements = 3
PROPERTIES EditIsWhatWasMeant IdentityKept
