----------------------------- MODULE Dictionary -----------------------------
(***************************************************************************)
(* What a tree promises its callers.  A request is called, an              *)
(* insertion takes effect at one instant before it returns, and a search   *)
(* returns what the dictionary holds for the key at the instant it         *)
(* returns.  Requests of different slots overlap freely.                   *)
(***************************************************************************)
CONSTANTS Slot,     \* the request slots
          Key, Value,
          Absent    \* no value is stored

VARIABLES dict,     \* the value of every key, or Absent
          call,     \* the request that each slot serves
          answer    \* what the last search of each slot returned

vars == <<dict, call, answer>>

Idle == [op |-> "none"]
Inserting(k, v, applied) ==
    [op |-> "insert", key |-> k, val |-> v, applied |-> applied]
Searching(k) == [op |-> "search", key |-> k]

Init ==
    /\ dict \in [Key -> Value \cup {Absent}]
    /\ call = [s \in Slot |-> Idle]
    /\ answer = [s \in Slot |-> Absent]

CallInsert(s, k, v) ==
    /\ call[s] = Idle
    /\ call' = [call EXCEPT ![s] = Inserting(k, v, FALSE)]
    /\ UNCHANGED <<dict, answer>>

CallSearch(s, k) ==
    /\ call[s] = Idle
    /\ call' = [call EXCEPT ![s] = Searching(k)]
    /\ UNCHANGED <<dict, answer>>

Apply(s, k, v) ==
    /\ call[s] = Inserting(k, v, FALSE)
    /\ dict' = [dict EXCEPT ![k] = v]
    /\ call' = [call EXCEPT ![s] = Inserting(k, v, TRUE)]
    /\ UNCHANGED answer

ReturnInsert(s, k, v) ==
    /\ call[s] = Inserting(k, v, TRUE)
    /\ call' = [call EXCEPT ![s] = Idle]
    /\ UNCHANGED <<dict, answer>>

ReturnSearch(s, k) ==
    /\ call[s] = Searching(k)
    /\ answer' = [answer EXCEPT ![s] = dict[k]]
    /\ call' = [call EXCEPT ![s] = Idle]
    /\ UNCHANGED dict

Next ==
    \E s \in Slot, k \in Key :
        \/ CallSearch(s, k)
        \/ ReturnSearch(s, k)
        \/ \E v \in Value : \/ CallInsert(s, k, v)
                            \/ Apply(s, k, v)
                            \/ ReturnInsert(s, k, v)

Spec == Init /\ [][Next]_vars

=============================================================================
