--------------------------- MODULE ChunkLifecycle ---------------------------
(***************************************************************************)
(* What ChunkManager promises of the chunks it is given, seen from outside *)
(* and without a word of tasks, files, limits or dictionaries: how the     *)
(* status of a chunk may move, and that a caller who finds an active chunk *)
(* in the stats may wait for it.  ChunkProperties shows that the manager   *)
(* implements it.                                                          *)
(***************************************************************************)
CONSTANTS Chunks

VARIABLES
    status,  \* the status of every chunk
    made,    \* the chunks that were ever asked for
    live,    \* those somebody still works on
    known    \* those a caller finds in the stats

promiseVars == <<status, made, live, known>>

Active == {"PENDING", "DOWNLOADING", "AWAITING_SUCCESSION"}
Ended  == {"COMPLETED", "DEPRECATED", "CANCELLED", "ERROR"}

\* How work on a chunk may end, by the status it has until then.  A chunk
\* marked CANCELLED stays so, whatever its task still does.
Endings == [PENDING             |-> {},
            DOWNLOADING         |-> Ended,
            AWAITING_SUCCESSION |-> {"ERROR", "CANCELLED"},
            CANCELLED           |-> {"CANCELLED"}]

\* The chunks recovered from an earlier process are complete.
Promised ==
    /\ status \in [Chunks -> Active \union Ended]
    /\ live = {} /\ known = made /\ made \subseteq Chunks
    /\ \A j \in made : status[j] = "COMPLETED"

\* A new chunk, alone under its range in the stats.
Launch(j) ==
    /\ j \notin made
    /\ made' = made \union {j} /\ live' = live \union {j}
    /\ \E s \in {"PENDING", "AWAITING_SUCCESSION"} : status' = [status EXCEPT ![j] = s]
    /\ \E old \in {{}} \union {{k} : k \in known} : known' = (known \ old) \union {j}

Begin(j) ==
    /\ j \in live /\ status[j] = "PENDING"
    /\ status' = [status EXCEPT ![j] = "DOWNLOADING"]
    /\ UNCHANGED <<made, live, known>>

\* Chunks that have not begun, or wait for another chunk, are called off.
CallOff(S) ==
    /\ S \subseteq live /\ \A j \in S : status[j] \in {"PENDING", "AWAITING_SUCCESSION"}
    /\ status' = [j \in Chunks |-> IF j \in S THEN "CANCELLED" ELSE status[j]]
    /\ UNCHANGED <<made, live, known>>

End(j) ==
    /\ j \in live
    /\ \E s \in Endings[status[j]] : status' = [status EXCEPT ![j] = s]
    /\ live' = live \ {j}
    /\ UNCHANGED <<made, known>>

\* A successor completes with the bytes of a chunk that has ended without an
\* error, and in the same step that one stops counting.
HandOver(j, p) ==
    /\ j \in live /\ status[j] = "AWAITING_SUCCESSION"
    /\ p \in made \ live /\ status[p] \in Ended \ {"ERROR"}
    /\ status' = [status EXCEPT ![j] = "COMPLETED", ![p] = "DEPRECATED"]
    /\ live' = live \ {j}
    /\ UNCHANGED <<made, known>>

\* Chunks leave the stats, which stops no work.
Forget(S) ==
    /\ S \subseteq known /\ known' = known \ S
    /\ UNCHANGED <<status, made, live>>

Fulfil ==
    \/ \E j \in Chunks : Launch(j) \/ Begin(j) \/ End(j) \/ \E p \in Chunks : HandOver(j, p)
    \/ \E S \in SUBSET live : CallOff(S)
    \/ \E S \in SUBSET known : Forget(S)

Promise == Promised /\ [][Fulfil]_promiseVars
=============================================================================
