------------------------------ MODULE Discovery ------------------------------
(***************************************************************************)
(* Which relays a sync asks (internal/relay/discovery.go).                 *)
(*                                                                         *)
(* Both lookups ask the storage relays one after the other, under one      *)
(* timeout, for an event that lists relays: the popular relays, or those   *)
(* of a user.  A storage relay is modelled by what it does to one lookup:  *)
(* whether it can be reached, the seconds until that is known, the list in *)
(* the event it sends, empty when it has none or none that can be parsed,  *)
(* and the seconds until it has answered, which the timeout does not bound.*)
(* The user is one whose key is hex: a key that is not panics before the   *)
(* loop (see Malformed of module Stream).                                  *)
(***************************************************************************)
EXTENDS Integers, Sequences, FiniteSetsExt

CONSTANTS
    LookupTimeout,  \* seconds for all storage relays together
    PopularLimit,   \* how many of the popular relays are used
    FallbackPopular, FallbackUser  \* the built-in lists

Url == STRING
StorageRelay == [up : BOOLEAN, connect : Nat, answer : Nat, list : Seq(Url)]

DiscoveryAssumption ==
    /\ LookupTimeout \in Nat \ {0} /\ PopularLimit \in Nat
    /\ FallbackPopular \in Seq(Url) /\ FallbackUser \in Seq(Url)

\* A lookup ends with the first list, or goes on with the seconds it has spent.
Untried == [list |-> <<>>, spent |-> 0]

\* Wrong variant of Try: an unreachable relay ends the lookup.
TryOrGiveUp(before, relay) ==
    IF before.list # <<>> THEN before
    ELSE IF before.spent + relay.connect >= LookupTimeout \/ ~relay.up
    THEN [list |-> <<>>, spent |-> LookupTimeout]
    ELSE [list |-> relay.list,
          spent |-> Min({LookupTimeout, before.spent + relay.connect + relay.answer})]

\* One round of the loop over storage relays.  A relay that has not been reached
\* when the timeout fires is given up, and so are all that follow.
Try(before, relay) ==
    IF before.list # <<>> THEN before
    ELSE IF before.spent + relay.connect >= LookupTimeout
    THEN [list |-> <<>>, spent |-> LookupTimeout]
    ELSE IF ~relay.up
    THEN [list |-> <<>>, spent |-> before.spent + relay.connect]
    ELSE [list |-> relay.list,
          spent |-> Min({LookupTimeout, before.spent + relay.connect + relay.answer})]

\* The first list that is found, or none.
Lookup(storage) ==
    LET tried[i \in 0 .. Len(storage)] ==
            IF i = 0 THEN Untried ELSE Try(tried[i - 1], storage[i])
    IN  tried[Len(storage)].list

GetPopularRelays(storage) ==
    LET found == Lookup(storage)
    IN  IF found = <<>> THEN FallbackPopular
        ELSE SubSeq(found, 1, Min({PopularLimit, Len(found)}))

GetUserNIP65Relays(storage) ==
    LET found == Lookup(storage)
    IN  IF found = <<>> THEN FallbackUser ELSE found

AddOnce(relays, relay) ==
    IF relay \in Range(relays) THEN relays ELSE Append(relays, relay)

\* Both lists, each relay once: the goroutines of a fetch share a cursor per relay.
MergeRelays(a, b) ==
    LET both == a \o b
        result[i \in 0 .. Len(both)] ==
            IF i = 0 THEN <<>> ELSE AddOnce(result[i - 1], both[i])
    IN  result[Len(both)]

-----------------------------------------------------------------------------
\* What the lookup promises: the list of the first storage relay that can be
\* reached while less than the timeout has passed and has one.
Spent(storage) ==
    LET spent[i \in 0 .. Len(storage)] ==
            IF i = 0 THEN 0
            ELSE spent[i - 1] + storage[i].connect
                 + (IF storage[i].up THEN storage[i].answer ELSE 0)
    IN  spent
IsReached(storage, i) ==
    storage[i].up /\ Spent(storage)[i - 1] + storage[i].connect < LookupTimeout
Lists(storage) == {i \in DOMAIN storage : IsReached(storage, i) /\ storage[i].list # <<>>}
FirstKnown(storage) ==
    IF Lists(storage) = {} THEN <<>> ELSE storage[Min(Lists(storage))].list
=============================================================================
