------------------------------ MODULE PerfDatabase ------------------------------
(***************************************************************************)
(* How the performance validators of one commit and use case, one host per *)
(* data rate, record their results in one DynamoDB table                   *)
(* (SendPacketToDatabase, validator/validators/performance).  Each looks   *)
(* for the item of the commit through a secondary index, merges its result *)
(* into what it found and puts the item back; no step excludes another     *)
(* validator's.  An error is retried, a few times at once and then in the  *)
(* next round of the validator, which measures again under a new UniqueID. *)
(*                                                                         *)
(* The table and its index are external: the index follows the table in    *)
(* its own time, and a call that fails may have taken effect.              *)
(***************************************************************************)
EXTENDS Naturals

CONSTANTS
    Validators,   \* each with its data rate, which stands for its result
    Retries,      \* of backoff.Retry; its elapsed-time limit may allow fewer
    Rounds,       \* StandardRetries of validate
    NoItem

VARIABLES
    table,    \* UniqueID -> the data rates in Results
    index,    \* the same, as the index UseCaseHash shows it
    pc, key, results,   \* each validator: where it is and the item it holds
    retry, round

tableVars == <<table, index>>
vars == <<tableVars, pc, key, results, retry, round>>

UniqueIDs == Validators \X (1 .. Rounds)
OwnID(v) == <<v, round[v]>>

Init ==
    /\ table = [id \in UniqueIDs |-> NoItem]
    /\ index = table
    /\ pc = [v \in Validators |-> "query"]
    /\ key = [v \in Validators |-> <<v, 1>>]
    /\ results = [v \in Validators |-> {}]
    /\ retry = [v \in Validators |-> 0]
    /\ round = [v \in Validators |-> 1]

Goto(v, where) == pc' = [pc EXCEPT ![v] = where]

Hold(v, id, rates) ==
    /\ key' = [key EXCEPT ![v] = id]
    /\ results' = [results EXCEPT ![v] = rates]

Visible == {id \in UniqueIDs : index[id] # NoItem}

\* GetItemInDatabase: the first item the index returns.  All have the same
\* CommitHash, the index's sort key, so any may be the first.
Query(v) ==
    /\ pc[v] = "query"
    /\ \/ /\ Visible = {}
          /\ Hold(v, OwnID(v), {v})
          /\ Goto(v, "add")
       \/ \E id \in Visible : Hold(v, id, index[id]) /\ Goto(v, "replace")
       \/ Goto(v, "error") /\ UNCHANGED <<key, results>>
    /\ UNCHANGED <<tableVars, retry, round>>

\* AddItemIntoDatabaseIfNotExist: the condition looks at the item of the same
\* UniqueID only, so it refuses nothing but the validator's own retry.
Add(v) ==
    /\ pc[v] = "add"
    /\ \/ table[OwnID(v)] # NoItem /\ Goto(v, "error") /\ UNCHANGED table
       \/ /\ table[OwnID(v)] = NoItem
          /\ table' = [table EXCEPT ![OwnID(v)] = {v}]
          /\ \E end \in {"replace", "error"} : Goto(v, end)
       \/ Goto(v, "error") /\ UNCHANGED table
    /\ UNCHANGED <<index, key, results, retry, round>>

\* ReplaceItemInDatabase with the merged results.
Replace(v) ==
    /\ pc[v] = "replace"
    /\ \/ /\ table' = [table EXCEPT ![key[v]] = results[v] \cup {v}]
          /\ \E end \in {"done", "error"} : Goto(v, end)
       \/ Goto(v, "error") /\ UNCHANGED table
    /\ UNCHANGED <<index, key, results, retry, round>>

\* backoff.Retry, then the next round of validate.
Retry(v) ==
    /\ pc[v] = "error"
    /\ \/ retry[v] < Retries /\ retry' = [retry EXCEPT ![v] = @ + 1] /\ Goto(v, "query")
             /\ UNCHANGED round
       \/ /\ round[v] < Rounds
          /\ round' = [round EXCEPT ![v] = @ + 1]
          /\ retry' = [retry EXCEPT ![v] = 0]
          /\ Goto(v, "query")
       \/ round[v] = Rounds /\ Goto(v, "failed") /\ UNCHANGED <<retry, round>>
    /\ UNCHANGED <<tableVars, key, results>>

\* The index catches up with an item.
Index(id) ==
    /\ index[id] # table[id]
    /\ index' = [index EXCEPT ![id] = table[id]]
    /\ UNCHANGED <<table, pc, key, results, retry, round>>

Next ==
    \/ \E v \in Validators : Query(v) \/ Add(v) \/ Replace(v) \/ Retry(v)
    \/ \E id \in UniqueIDs : Index(id)

Spec == Init /\ [][Next]_vars

-------------------------------------------------------------------------------
(* Properties                                                              *)

\* performance_validator.go:85: "confirm if the current commit with the use
\* case has been exist or not? If yes, merge it."  What a validator has
\* recorded is still there after the others have merged theirs.
ResultsKept ==
    \A v \in Validators : pc[v] = "done" =>
        \E id \in UniqueIDs : table[id] # NoItem /\ v \in table[id]

===============================================================================
