\* One call, with answers of up to three blocks.
SPECIFICATION CallSpec
CONSTANT Answers <- UpToThree
INVARIANTS ClaimsWhatIsKnown ContentAccountedFor
CHECK_DEADLOCK FALSE
