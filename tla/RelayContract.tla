----------------------------- MODULE RelayContract -----------------------------
(***************************************************************************)
(* What a Deep Research relay promises, whatever the providers, the keys   *)
(* and the clock do (.kiro/specs/intellectual-routing/requirements.md,     *)
(* requirements 3.7, 4.2 and 5.5): a relay is a bounded number of calls    *)
(* that moves forward along its list of models.  A model is called again   *)
(* only right after a segment of its own that produced text, it is         *)
(* credited only for such a segment, and a relay that has closed stays     *)
(* closed.  A call counts from the moment its model is chosen.             *)
(***************************************************************************)
EXTENDS Naturals, Sequences

CONSTANTS Relays, MaxCalls

VARIABLES
    state,      \* "new", "open" or "closed"
    place,      \* the place in the list of the model being called
    calls,      \* how many calls have been made
    credits     \* the places credited so far, in order

contractVars == <<state, place, calls, credits>>

ContractInit ==
    /\ state = [r \in Relays |-> "new"]
    /\ place = [r \in Relays |-> 0]
    /\ calls = [r \in Relays |-> 0]
    /\ credits = [r \in Relays |-> <<>>]

(* The list of credits once place p is credited.                           *)
Credited(list, p) ==
    IF list # <<>> /\ list[Len(list)] = p THEN list ELSE Append(list, p)

(* A call for some place of the list; the callers say which.               *)
Call(r) ==
    /\ calls[r] < MaxCalls
    /\ state' = [state EXCEPT ![r] = "open"]
    /\ place' = [place EXCEPT ![r] = place'[r]]
    /\ calls' = [calls EXCEPT ![r] = @ + 1]

Shut(r) ==
    /\ state' = [state EXCEPT ![r] = "closed"]
    /\ place' = [place EXCEPT ![r] = 0]
    /\ UNCHANGED calls

Open(r) ==
    /\ state[r] = "new"
    /\ Shut(r) \/ (Call(r) /\ place'[r] \in Nat \ {0})
    /\ UNCHANGED credits

(* The segment in progress produced text.                                  *)
Productive(r) ==
    /\ state[r] = "open"
    /\ credits' = [credits EXCEPT ![r] = Credited(@, place[r])]
    /\ Shut(r) \/ (Call(r) /\ place'[r] >= place[r])

(* The segment in progress failed or produced nothing.                     *)
Unproductive(r) ==
    /\ state[r] = "open"
    /\ UNCHANGED credits
    /\ Shut(r) \/ (Call(r) /\ place'[r] > place[r])

ContractNext == \E r \in Relays : Open(r) \/ Productive(r) \/ Unproductive(r)

ContractSpec == ContractInit /\ [][ContractNext]_contractVars

=============================================================================
