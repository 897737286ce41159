---------------------------- MODULE AtomicCalls ----------------------------
(***************************************************************************)
(* What a call of a contract does, as a whole.  The function works on a    *)
(* copy of the store of the contracts: the copy is what the function sees. *)
(* When a transaction succeeds the copy replaces the store in one step,    *)
(* with two exceptions that are spelled out here because they are what the *)
(* code does and not what its callers would expect:                        *)
(*   - an entry of a map that was erased, in this call or in an earlier    *)
(*     one, is missing afterwards even if it was written again;            *)
(*   - native tokens stay where they were when the function is not payable. *)
(* A call that fails, and a simulation (eth_estimateGas), change nothing.  *)
(***************************************************************************)
CONSTANT Null       \* an entry that a map does not hold

VARIABLES store,    \* what the next call and every view starts from
          working,  \* the copy of the running call
          busy,     \* a call is running
          mode,     \* "payable" or "unpaid" for a transaction, or "simulation"
          erased    \* the entries <<contract, key>> that a commit leaves out

vars == <<store, working, busy, mode, erased>>

Init == busy = FALSE /\ working = store /\ erased = {}

\* A simulation moves its value before the function runs.
Begin ==
  /\ ~busy /\ busy' = TRUE
  /\ mode' \in {"payable", "unpaid", "simulation"}
  /\ working'.contracts = store.contracts /\ working'.events = store.events
  /\ working'.value = store.value /\ working'.map = store.map
  /\ mode' # "simulation" => working'.native = store.native
  /\ UNCHANGED <<store, erased>>

\* The function does anything to its copy.  It erases entries, which it then no
\* longer sees; it may write them again.
Work ==
  /\ busy /\ UNCHANGED <<store, busy, mode>>
  /\ erased \subseteq erased'
  /\ \A e \in erased' \ erased : working'.map[e[1]][e[2]] = Null

\* The maps m without the erased entries.
Remaining(m) ==
  [a \in DOMAIN m |-> [k \in DOMAIN m[a] |-> IF <<a, k>> \in erased THEN Null ELSE m[a][k]]]

Commit ==
  /\ busy /\ busy' = FALSE /\ mode # "simulation"
  /\ store' = [contracts |-> working.contracts, events |-> working.events,
               native |-> IF mode = "payable" THEN working.native ELSE store.native,
               value |-> working.value, map |-> Remaining(working.map)]
  /\ working' = store'
  /\ UNCHANGED <<mode, erased>>

\* Reverting a map also forgets which of its entries were erased.
Abort ==
  /\ busy /\ busy' = FALSE
  /\ working' = store /\ erased' \subseteq erased
  /\ UNCHANGED <<store, mode>>

Next == Begin \/ Work \/ Commit \/ Abort

Spec == Init /\ [][Next]_vars
=============================================================================
