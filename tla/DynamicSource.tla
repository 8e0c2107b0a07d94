---------------------------- MODULE DynamicSource ----------------------------
(****************************************************************************)
(* The listing cache of one registered tool source (causa-runtime,          *)
(* executor/source.rs), under concurrent describe() calls and a source that *)
(* changes meanwhile.                                                       *)
(*                                                                          *)
(* A listing is the number of changes the catalog had seen when it was      *)
(* taken.  The source bumps its version some time after a change, as an MCP *)
(* server's tools/list_changed notification does.  The lock of the cache    *)
(* makes each of its two critical sections one step; reading the version is *)
(* a step of its own, before the first and between the two.                 *)
(****************************************************************************)
EXTENDS Naturals

CONSTANTS
    Caller,      \* describe() calls, each by some bind
    None,        \* no listing, no refresh
    MaxChanges,  \* bound: changes of the catalog
    MaxBumps     \* bound: bumps of the version

ASSUME NoneAssumption == None \notin Caller \cup [version : Nat, listing : Nat, by : Caller]
ASSUME CacheBoundsAssumption == MaxChanges \in Nat /\ MaxBumps \in Nat

VARIABLES
    catalog,   \* changes the catalog has seen
    version,   \* DynamicToolSource::version
    announced, \* history: announced[v], what the catalog was when v was set
    cached,    \* Cache.listing: [version, listing, by], or None
    latest,    \* Cache.latest_refresh: the caller it is the token of, or None
    at,        \* where each describe() is
    observed,  \* the version each read first
    listed,    \* the listing each got or will return
    after,     \* the version each read last
    served     \* history: the last listing answered from the cache

cache == <<cached, latest>>
calls == <<at, observed, listed, after>>
cacheVars == <<catalog, version, announced, cache, calls, served>>

Listing == [version : Nat, listing : Nat, by : Caller]

CacheTypeOK ==
    /\ catalog \in Nat
    /\ version \in 0..MaxBumps
    /\ announced \in [0..MaxBumps -> Nat]
    /\ cached \in Listing \cup {None}
    /\ latest \in Caller \cup {None}
    /\ at \in [Caller -> {"idle", "observed", "listing", "answered",
                          "publishing", "ok", "failed"}]
    /\ observed \in [Caller -> 0..MaxBumps]
    /\ listed \in [Caller -> Nat]
    /\ after \in [Caller -> 0..MaxBumps]
    /\ served \in Nat

CacheInit ==
    /\ catalog = 0 /\ version = 0 /\ announced = [v \in 0..MaxBumps |-> 0]
    /\ cached = None /\ latest = None
    /\ at = [c \in Caller |-> "idle"]
    /\ observed = [c \in Caller |-> 0]
    /\ listed = [c \in Caller |-> 0]
    /\ after = [c \in Caller |-> 0]
    /\ served = 0

-----------------------------------------------------------------------------
(* The source.                                                               *)
Change ==
    /\ catalog < MaxChanges
    /\ catalog' = catalog + 1
    /\ UNCHANGED <<version, announced, cache, calls, served>>

Bump ==
    /\ version < MaxBumps
    /\ version' = version + 1
    /\ announced' = [announced EXCEPT ![version + 1] = catalog]
    /\ UNCHANGED <<catalog, cache, calls, served>>

-----------------------------------------------------------------------------
(* describe().                                                               *)
Goto(c, place) == at' = [at EXCEPT ![c] = place]

Observe(c) ==
    /\ at[c] = "idle"
    /\ observed' = [observed EXCEPT ![c] = version]
    /\ Goto(c, "observed")
    /\ UNCHANGED <<catalog, version, announced, cache, listed, after, served>>

(* The first critical section: a listing of the observed version is taken,   *)
Current(c) == cached # None /\ cached.version = observed[c]

Hit(c) ==
    /\ at[c] = "observed"
    /\ Current(c)
    /\ listed' = [listed EXCEPT ![c] = cached.listing]
    /\ served' = cached.listing
    /\ Goto(c, "ok")
    /\ UNCHANGED <<catalog, version, announced, cache, observed, after>>

(* Mutant: the old listing stays until a new one replaces it.                *)
RefreshKeepingListing(c) ==
    /\ at[c] = "observed"
    /\ ~Current(c)
    /\ latest' = c
    /\ Goto(c, "listing")
    /\ UNCHANGED <<catalog, version, announced, cached, observed, listed, after, served>>

(* any other one is forgotten, and this call becomes the latest refresh.     *)
Refresh(c) ==
    /\ at[c] = "observed"
    /\ ~Current(c)
    /\ cached' = None
    /\ latest' = c
    /\ Goto(c, "listing")
    /\ UNCHANGED <<catalog, version, announced, observed, listed, after, served>>

(* The source takes its listing at some moment while the call waits; the     *)
(* answer arrives later.                                                     *)
SourceLists(c) ==
    /\ at[c] = "listing"
    /\ listed' = [listed EXCEPT ![c] = catalog]
    /\ Goto(c, "answered")
    /\ UNCHANGED <<catalog, version, announced, cache, observed, after, served>>

(* The source fails, or the caller's control stops the call: in the race, in *)
(* the check after it, or by dropping it.                                    *)
FailDescribe(c) ==
    /\ at[c] \in {"listing", "answered"}
    /\ Goto(c, "failed")
    /\ UNCHANGED <<catalog, version, announced, cache, observed, listed, after, served>>

ReadVersionAgain(c) ==
    /\ at[c] = "answered"
    /\ after' = [after EXCEPT ![c] = version]
    /\ Goto(c, "publishing")
    /\ UNCHANGED <<catalog, version, announced, cache, observed, listed, served>>

(* Mutants: an older refresh may publish; the listing is filed under the     *)
(* version it was received at.                                               *)
AnyMayPublish(c) == observed[c] = after[c]

FiledAsReceived(c) ==
    IF latest = c THEN [version |-> after[c], listing |-> listed[c], by |-> c] ELSE cached

(* Only the latest refresh publishes, and only if the version stood still.   *)
MayPublish(c) == observed[c] = after[c] /\ latest = c

Filed(c) ==
    IF MayPublish(c)
    THEN [version |-> observed[c], listing |-> listed[c], by |-> c] ELSE cached

(* The second critical section.                                              *)
Publish(c) ==
    /\ at[c] = "publishing"
    /\ cached' = Filed(c)
    /\ Goto(c, "ok")
    /\ UNCHANGED <<catalog, version, announced, latest, observed, listed, after, served>>

CacheTerminated ==
    /\ \A c \in Caller : at[c] \in {"ok", "failed"}
    /\ UNCHANGED cacheVars

Describe(c) ==
    \/ Observe(c) \/ Hit(c) \/ Refresh(c) \/ SourceLists(c) \/ FailDescribe(c)
    \/ ReadVersionAgain(c) \/ Publish(c)

CacheNext == Change \/ Bump \/ (\E c \in Caller : Describe(c)) \/ CacheTerminated

CacheSpec == CacheInit /\ [][CacheNext]_cacheVars

-----------------------------------------------------------------------------
(* A describe that began after a change was announced returns a listing that *)
(* has it, whether it lists itself or is answered from the cache, and never  *)
(* one the catalog did not have.                                             *)
FreshListing ==
    \A c \in Caller :
        at[c] = "ok" => /\ announced[observed[c]] <= listed[c]
                        /\ listed[c] <= catalog

Unfinished == {c \in Caller : at[c] \in {"listing", "answered", "publishing", "failed"}}

(* "A refresh failure must never expose the previous good listing": what can *)
(* be answered from the cache comes from the refresh that began last, so not *)
(* from one that began before a refresh that failed or is still running.     *)
FailureHidesOlder ==
    cached # None =>
        at[cached.by] = "ok" /\ latest \notin Unfinished

(* Answers from the cache never go back in time, not even between changes    *)
(* that no version tells apart.                                              *)
HitsMoveForward == [][served' >= served]_cacheVars
=============================================================================
