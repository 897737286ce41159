------------------------ MODULE ContractCallsProofs ------------------------
(***************************************************************************)
(* Proofs about ContractCalls: its inductive invariant, that native tokens *)
(* are conserved, and that it implements AtomicCalls.                      *)
(***************************************************************************)
EXTENDS ContractCalls, SequenceTheorems, Sums

-----------------------------------------------------------------------------
(* usedVars_ and the registered variables.                                 *)

\* A variable is one of the two of a contract.
LEMMA VariablesLemma ==
  ASSUME NEW v \in Variables
  PROVE  \E a \in Addresses, kind \in {"plain", "map"} : v = <<a, kind>>
<1>1. v = <<v[1], v[2]>> /\ v[1] \in Addresses /\ v[2] \in {"plain", "map"}
  BY DEF Variables
<1> QED BY <1>1

\* markAsUsed keeps the list free of duplicates and equal to the registered ones.
LEMMA MarkLemma ==
  ASSUME TypeOK, UsedOnce, UsedVarsOwned, NEW a \in contracts,
         NEW kind \in {"plain", "map"}, MarkAsUsed(<<a, kind>>), contracts' = contracts
  PROVE  /\ used' \in Seq(Variables) /\ registered' \subseteq Variables
         /\ UsedOnce' /\ UsedVarsOwned'
<1> DEFINE v == <<a, kind>>
<1>1. v \in Variables /\ v[1] = a
  BY DEF TypeOK, Variables
<1>2. CASE v \in registered
  <2>1. used' = used /\ registered' = registered
    BY <1>2 DEF MarkAsUsed
  <2>2. UsedOnce' /\ UsedVarsOwned'
    BY <2>1 DEF UsedOnce, UsedVarsOwned
  <2> QED BY <2>1, <2>2 DEF TypeOK
<1>3. CASE v \notin registered
  <2>1. used' = Append(used, v) /\ registered' = registered \cup {v}
    BY <1>3 DEF MarkAsUsed
  <2>2. /\ used' \in Seq(Variables) /\ Len(used) \in Nat /\ Len(used') = Len(used) + 1
        /\ \A i \in 1..Len(used) : used'[i] = used[i]
        /\ used'[Len(used) + 1] = v
    BY <1>1, <2>1 DEF TypeOK
  <2>3. \A i \in 1..Len(used) : used[i] # v
    BY <1>3 DEF UsedOnce
  <2>4. UsedOnce'
    <3>1. registered' = {used'[i] : i \in 1..Len(used')}
      BY <2>1, <2>2 DEF UsedOnce
    <3>2. \A i, j \in 1..Len(used') : used'[i] = used'[j] => i = j
      BY <2>2, <2>3 DEF UsedOnce
    <3> QED BY <3>1, <3>2 DEF UsedOnce
  <2>5. UsedVarsOwned'
    BY <1>1, <2>2 DEF UsedVarsOwned
  <2> QED BY <1>1, <2>1, <2>2, <2>4, <2>5 DEF TypeOK
<1> QED BY <1>2, <1>3

\* Popping the last variable unregisters exactly that one.
LEMMA PopLemma ==
  ASSUME TypeOK, UsedOnce, used # <<>>,
         used' = SubSeq(used, 1, Len(used) - 1),
         registered' = registered \ {used[Len(used)]}
  PROVE  /\ used' \in Seq(Variables) /\ registered' \subseteq Variables
         /\ used[Len(used)] \in registered /\ used[Len(used)] \in Variables
         /\ UsedOnce'
         /\ UsedVarsOwned /\ contracts' = contracts => UsedVarsOwned'
<1> DEFINE n == Len(used)
<1>1. n \in Nat /\ n > 0 /\ used \in Seq(Variables)
  BY EmptySeq DEF TypeOK
<1>2. /\ used' \in Seq(Variables) /\ Len(used') = n - 1
      /\ \A i \in 1..(n - 1) : used'[i] = used[i]
  <2>1. 1 \in Int /\ n - 1 \in Int /\ \A i \in 1..(n - 1) : used[i] \in Variables
    BY <1>1
  <2>2. /\ SubSeq(used, 1, n - 1) \in Seq(Variables)
        /\ Len(SubSeq(used, 1, n - 1)) = IF 1 <= n - 1 THEN (n - 1) - 1 + 1 ELSE 0
        /\ \A i \in 1..((n - 1) - 1 + 1) : SubSeq(used, 1, n - 1)[i] = used[1 + i - 1]
    BY ONLY <2>1, SubSeqProperties
  <2>3. used' = SubSeq(used, 1, n - 1)
    OBVIOUS
  <2> HIDE DEF n
  <2>4. Len(used') = n - 1
    BY <1>1, <2>2, <2>3
  <2>5. \A i \in 1..(n - 1) : used'[i] = used[i]
    BY <1>1, <2>2, <2>3
  <2> QED BY <2>2, <2>3, <2>4, <2>5
<1>3. used[n] \in registered /\ used[n] \in Variables
  BY <1>1 DEF UsedOnce
<1>4. \A i \in 1..(n - 1) : used[i] # used[n]
  BY <1>1 DEF UsedOnce
<1>5. UsedOnce'
  <2>1. registered' = {used'[i] : i \in 1..Len(used')}
    BY <1>1, <1>2, <1>4 DEF UsedOnce
  <2>2. \A i, j \in 1..Len(used') : used'[i] = used'[j] => i = j
    BY <1>1, <1>2 DEF UsedOnce
  <2> QED BY <2>1, <2>2 DEF UsedOnce
<1>6. UsedVarsOwned /\ contracts' = contracts => UsedVarsOwned'
  BY <1>1, <1>2 DEF UsedVarsOwned
<1> QED BY <1>2, <1>3, <1>5, <1>6 DEF TypeOK

-----------------------------------------------------------------------------
(* The operations of a running function.                                   *)

LEMMA WriteInv ==
  ASSUME IInv, pc = "run", Operation, NEW a \in contracts, NEW x \in Values, Write(a, x),
         UNCHANGED <<contracts, recent, balances, native, tempEvents, events>>
  PROVE  IInv'
<1> USE ConstantsAssumption
<1>1. /\ used' \in Seq(Variables) /\ registered' \subseteq Variables
      /\ UsedOnce' /\ UsedVarsOwned'
  BY MarkLemma DEF IInv, Write
<1>2. registered' = registered \cup {<<a, "plain">>} /\ a \in Addresses
  BY DEF Write, MarkAsUsed, IInv, TypeOK
<1>3. /\ valuePtr' \in [Addresses -> Values \cup {Null}]
      /\ \A b \in Addresses : b # a => valuePtr'[b] = valuePtr[b]
  BY <1>2 DEF Write, IInv, TypeOK
<1>4. TypeOK'
  BY <1>1, <1>3 DEF IInv, TypeOK, Write, Operation, callVars
<1>5. CopiesFaithful'
  <2> SUFFICES ASSUME NEW b \in Addresses
               PROVE  /\ <<b, "plain">> \notin registered' => valuePtr'[b] \in {Null, value'[b]}
                      /\ <<b, "map">> \notin registered' =>
                           \A k \in Keys : /\ mapPtr'[b][k] \in {Null, map'[b][k]}
                                           /\ k \in erasedKeys'[b] => map'[b][k] = Null
    BY DEF CopiesFaithful
  <2>1. <<b, "plain">> \notin registered' => b # a /\ <<b, "plain">> \notin registered
    BY <1>2
  <2>2. <<b, "map">> \notin registered' => <<b, "map">> \notin registered
    BY <1>2
  <2> QED BY <1>3, <2>1, <2>2 DEF IInv, CopiesFaithful, Write
<1>6. NothingLeft'
  BY <1>3 DEF IInv, NothingLeft, Write, Operation, callVars
<1> QED BY <1>1, <1>4, <1>5, <1>6 DEF IInv, CallState, Operation, callVars

\* WriteKey and EraseKey change the same fields: one proof for both.
LEMMA MapInv ==
  ASSUME IInv, pc = "run", Operation, NEW a \in contracts, MarkAsUsed(<<a, "map">>),
         UNCHANGED <<value, valuePtr, map>>,
         mapPtr' \in [Addresses -> [Keys -> Values \cup {Null}]],
         erasedKeys' \in [Addresses -> SUBSET Keys],
         \A b \in Addresses \ {a} : mapPtr'[b] = mapPtr[b] /\ erasedKeys'[b] = erasedKeys[b],
         UNCHANGED <<contracts, recent, balances, native, tempEvents, events>>
  PROVE  IInv'
<1>1. /\ used' \in Seq(Variables) /\ registered' \subseteq Variables
      /\ UsedOnce' /\ UsedVarsOwned'
  BY MarkLemma DEF IInv
<1>2. registered' = registered \cup {<<a, "map">>} /\ a \in Addresses
  BY DEF MarkAsUsed, IInv, TypeOK
<1>3. TypeOK'
  BY <1>1, ConstantsAssumption DEF IInv, TypeOK, Operation, callVars
<1>4. CopiesFaithful'
  <2> SUFFICES ASSUME NEW b \in Addresses
               PROVE  /\ <<b, "plain">> \notin registered' => valuePtr'[b] \in {Null, value'[b]}
                      /\ <<b, "map">> \notin registered' =>
                           \A k \in Keys : /\ mapPtr'[b][k] \in {Null, map'[b][k]}
                                           /\ k \in erasedKeys'[b] => map'[b][k] = Null
    BY DEF CopiesFaithful
  <2>1. <<b, "plain">> \notin registered' => <<b, "plain">> \notin registered
    BY <1>2
  <2>2. <<b, "map">> \notin registered' => b # a /\ <<b, "map">> \notin registered
    BY <1>2
  <2> QED BY <2>1, <2>2 DEF IInv, CopiesFaithful
<1>5. NothingLeft'
  BY DEF IInv, NothingLeft, Operation, callVars
<1> QED BY <1>1, <1>3, <1>4, <1>5 DEF IInv, CallState, Operation, callVars

LEMMA UseVariablesInv == IInv /\ UseVariables => IInv'
<1> SUFFICES ASSUME IInv, UseVariables PROVE IInv'
  OBVIOUS
<1> USE ConstantsAssumption
<1>0. PICK a \in contracts :
        \/ \E x \in Values : Write(a, x)
        \/ \E k \in Keys, x \in Values : WriteKey(a, k, x)
        \/ \E k \in Keys : EraseKey(a, k)
  BY DEF UseVariables
<1>1. /\ a \in Addresses /\ pc = "run" /\ Operation
      /\ UNCHANGED <<contracts, recent, balances, native, tempEvents, events>>
  BY DEF UseVariables, Operation, IInv, TypeOK
<1>2. CASE \E x \in Values : Write(a, x)
  BY <1>1, <1>2, WriteInv
<1>3. CASE \E k \in Keys, x \in Values : WriteKey(a, k, x)
  <2>1. PICK k \in Keys, x \in Values : WriteKey(a, k, x)
    BY <1>3
  <2>2. mapPtr' \in [Addresses -> [Keys -> Values \cup {Null}]]
    BY <1>1, <2>1 DEF WriteKey, IInv, TypeOK
  <2>3. \A b \in Addresses \ {a} : mapPtr'[b] = mapPtr[b]
    BY <1>1, <2>1 DEF WriteKey, IInv, TypeOK
  <2>4. /\ MarkAsUsed(<<a, "map">>) /\ UNCHANGED <<value, valuePtr, map, erasedKeys>>
        /\ erasedKeys \in [Addresses -> SUBSET Keys]
    BY <2>1 DEF WriteKey, IInv, TypeOK
  <2> QED BY <1>1, <2>2, <2>3, <2>4, MapInv
<1>4. CASE \E k \in Keys : EraseKey(a, k)
  <2>1. PICK k \in Keys : EraseKey(a, k)
    BY <1>4
  <2>2. mapPtr' \in [Addresses -> [Keys -> Values \cup {Null}]]
    BY <1>1, <2>1 DEF EraseKey, IInv, TypeOK
  <2>3. erasedKeys' \in [Addresses -> SUBSET Keys]
    BY <1>1, <2>1 DEF EraseKey, IInv, TypeOK
  <2>4. \A b \in Addresses \ {a} : mapPtr'[b] = mapPtr[b] /\ erasedKeys'[b] = erasedKeys[b]
    BY <1>1, <2>1 DEF EraseKey, IInv, TypeOK
  <2>5. MarkAsUsed(<<a, "map">>) /\ UNCHANGED <<value, valuePtr, map>>
    BY <2>1 DEF EraseKey
  <2> QED BY <1>1, <2>2, <2>3, <2>4, <2>5, MapInv
<1> QED BY <1>0, <1>2, <1>3, <1>4

-----------------------------------------------------------------------------
(* The destructor of the logger.                                           *)

LEMMA CommitStepInv == IInv /\ CommitStep => IInv'
<1> SUFFICES ASSUME IInv, CommitStep PROVE IInv'
  OBVIOUS
<1> USE ConstantsAssumption
<1> DEFINE v == used[Len(used)]
<1>1. /\ pc = "commit" /\ used # <<>> /\ CommitVar(v)
      /\ used' = SubSeq(used, 1, Len(used) - 1)
      /\ UNCHANGED <<contracts, recent, balances, native, tempEvents, events, call, pc, calls, ops>>
  BY DEF CommitStep, Finish, callVars
<1>2. registered' = registered \ {v}
  BY <1>1 DEF CommitVar
<1>3. /\ used' \in Seq(Variables) /\ registered' \subseteq Variables
      /\ v \in registered /\ v \in Variables /\ UsedOnce' /\ UsedVarsOwned'
  BY <1>1, <1>2, PopLemma DEF IInv
<1>4. v[1] \in contracts
  <2>1. Len(used) \in 1..Len(used)
    BY <1>1, EmptySeq DEF IInv, TypeOK
  <2> QED BY <2>1 DEF IInv, UsedVarsOwned
<1>5. PICK a \in Addresses, kind \in {"plain", "map"} : v = <<a, kind>>
  BY <1>3, VariablesLemma
<1>6. v[1] = a /\ v[2] = kind /\ a \in contracts
  <2>1. <<a, kind>>[1] = a /\ <<a, kind>>[2] = kind
    OBVIOUS
  <2> HIDE DEF v
  <2> QED BY <1>4, <1>5, <2>1
<1>7. CASE kind = "plain"
  <2>1. /\ value' = [value EXCEPT ![a] = Read(a)]
        /\ valuePtr' = [valuePtr EXCEPT ![a] = Null]
        /\ UNCHANGED <<map, mapPtr, erasedKeys>>
    BY <1>1, <1>6, <1>7 DEF CommitVar
  <2>2. Read(a) \in Values
    BY DEF Read, IInv, TypeOK
  <2>3. value' \in [Addresses -> Values] /\ valuePtr' \in [Addresses -> Values \cup {Null}]
    BY <2>1, <2>2 DEF IInv, TypeOK
  <2>4. TypeOK'
    BY <1>1, <1>3, <2>1, <2>3 DEF IInv, TypeOK
  <2>5. CopiesFaithful'
    <3> SUFFICES ASSUME NEW b \in Addresses
                 PROVE  /\ <<b, "plain">> \notin registered' => valuePtr'[b] \in {Null, value'[b]}
                        /\ <<b, "map">> \notin registered' =>
                             \A k \in Keys : /\ mapPtr'[b][k] \in {Null, map'[b][k]}
                                             /\ k \in erasedKeys'[b] => map'[b][k] = Null
      BY DEF CopiesFaithful
    <3>1. <<b, "map">> \notin registered' => <<b, "map">> \notin registered
      BY <1>2, <1>5, <1>7
    <3>2. CASE b = a
      BY <3>1, <3>2, <2>1 DEF IInv, TypeOK, CopiesFaithful
    <3>3. CASE b # a
      <4>1. valuePtr'[b] = valuePtr[b] /\ value'[b] = value[b]
        BY <3>3, <2>1 DEF IInv, TypeOK
      <4>2. <<b, "plain">> \notin registered' => <<b, "plain">> \notin registered
        BY <1>2, <1>5, <3>3
      <4> QED BY <3>1, <4>1, <4>2, <2>1 DEF IInv, CopiesFaithful
    <3> QED BY <3>2, <3>3
  <2>6. NothingLeft'
    BY <1>1, <1>6, <2>1 DEF IInv, TypeOK, NothingLeft
  <2> QED BY <1>1, <1>3, <2>4, <2>5, <2>6 DEF IInv, CallState
<1>8. CASE kind = "map"
  <2>1. /\ map' = [map EXCEPT ![a] = Merged(a)]
        /\ mapPtr' = [mapPtr EXCEPT ![a] = NoMap]
        /\ UNCHANGED <<value, valuePtr, erasedKeys>>
    BY <1>1, <1>6, <1>8 DEF CommitVar
  <2>2. Merged(a) \in [Keys -> Values \cup {Null}] /\ NoMap \in [Keys -> Values \cup {Null}]
    BY DEF Merged, NoMap, IInv, TypeOK
  <2>3. map' \in [Addresses -> [Keys -> Values \cup {Null}]] /\ mapPtr' \in [Addresses -> [Keys -> Values \cup {Null}]]
    BY <2>1, <2>2 DEF IInv, TypeOK
  <2>4. TypeOK'
    BY <1>1, <1>3, <2>1, <2>3 DEF IInv, TypeOK
  <2>5. CopiesFaithful'
    <3> SUFFICES ASSUME NEW b \in Addresses
                 PROVE  /\ <<b, "plain">> \notin registered' => valuePtr'[b] \in {Null, value'[b]}
                        /\ <<b, "map">> \notin registered' =>
                             \A k \in Keys : /\ mapPtr'[b][k] \in {Null, map'[b][k]}
                                             /\ k \in erasedKeys'[b] => map'[b][k] = Null
      BY DEF CopiesFaithful
    <3>1. <<b, "plain">> \notin registered' => <<b, "plain">> \notin registered
      BY <1>2, <1>5, <1>8
    <3>2. CASE b = a
      <4>1. map'[b] = Merged(a) /\ mapPtr'[b] = NoMap
        BY <3>2, <2>1 DEF IInv, TypeOK
      <4>2. \A k \in Keys : mapPtr'[b][k] = Null /\ (k \in erasedKeys'[b] => map'[b][k] = Null)
        BY <4>1, <2>1, <3>2 DEF Merged, NoMap
      <4> QED BY <3>1, <4>2, <2>1 DEF IInv, CopiesFaithful
    <3>3. CASE b # a
      <4>1. mapPtr'[b] = mapPtr[b] /\ map'[b] = map[b]
        BY <3>3, <2>1 DEF IInv, TypeOK
      <4>2. <<b, "map">> \notin registered' => <<b, "map">> \notin registered
        BY <1>2, <1>5, <3>3
      <4> QED BY <3>1, <4>1, <4>2, <2>1 DEF IInv, CopiesFaithful
    <3> QED BY <3>2, <3>3
  <2>6. NothingLeft'
    BY <1>1, <1>6, <2>1 DEF IInv, TypeOK, NothingLeft
  <2> QED BY <1>1, <1>3, <2>4, <2>5, <2>6 DEF IInv, CallState
<1> QED BY <1>7, <1>8

LEMMA RevertStepInv == IInv /\ RevertStep => IInv'
<1> SUFFICES ASSUME IInv, RevertStep PROVE IInv'
  OBVIOUS
<1> USE ConstantsAssumption
<1> DEFINE v == used[Len(used)]
<1>1. /\ pc = "revert" /\ used # <<>> /\ RevertVar(v)
      /\ used' = SubSeq(used, 1, Len(used) - 1)
      /\ UNCHANGED <<contracts, recent, balances, native, tempEvents, events, call, pc, calls, ops>>
  BY DEF RevertStep, Finish, callVars
<1>2. registered' = registered \ {v}
  BY <1>1 DEF RevertVar
<1>3. /\ used' \in Seq(Variables) /\ registered' \subseteq Variables
      /\ v \in registered /\ v \in Variables /\ UsedOnce' /\ UsedVarsOwned'
  BY <1>1, <1>2, PopLemma DEF IInv
<1>4. v[1] \in contracts
  <2>1. Len(used) \in 1..Len(used)
    BY <1>1, EmptySeq DEF IInv, TypeOK
  <2> QED BY <2>1 DEF IInv, UsedVarsOwned
<1>5. PICK a \in Addresses, kind \in {"plain", "map"} : v = <<a, kind>>
  BY <1>3, VariablesLemma
<1>6. v[1] = a /\ v[2] = kind /\ a \in contracts
  <2>1. <<a, kind>>[1] = a /\ <<a, kind>>[2] = kind
    OBVIOUS
  <2> HIDE DEF v
  <2> QED BY <1>4, <1>5, <2>1
<1>7. CASE kind = "plain"
  <2>1. /\ valuePtr' = [valuePtr EXCEPT ![a] = Null]
        /\ UNCHANGED <<value, map, mapPtr, erasedKeys>>
    BY <1>1, <1>6, <1>7 DEF RevertVar
  <2>2. valuePtr' \in [Addresses -> Values \cup {Null}]
    BY <2>1 DEF IInv, TypeOK
  <2>3. TypeOK'
    BY <1>1, <1>3, <2>1, <2>2 DEF IInv, TypeOK
  <2>4. CopiesFaithful'
    <3> SUFFICES ASSUME NEW b \in Addresses
                 PROVE  /\ <<b, "plain">> \notin registered' => valuePtr'[b] \in {Null, value'[b]}
                        /\ <<b, "map">> \notin registered' =>
                             \A k \in Keys : /\ mapPtr'[b][k] \in {Null, map'[b][k]}
                                             /\ k \in erasedKeys'[b] => map'[b][k] = Null
      BY DEF CopiesFaithful
    <3>1. <<b, "map">> \notin registered' => <<b, "map">> \notin registered
      BY <1>2, <1>5, <1>7
    <3>2. CASE b = a
      BY <3>1, <3>2, <2>1 DEF IInv, TypeOK, CopiesFaithful
    <3>3. CASE b # a
      <4>1. valuePtr'[b] = valuePtr[b]
        BY <3>3, <2>1 DEF IInv, TypeOK
      <4>2. <<b, "plain">> \notin registered' => <<b, "plain">> \notin registered
        BY <1>2, <1>5, <3>3
      <4> QED BY <3>1, <4>1, <4>2, <2>1 DEF IInv, CopiesFaithful
    <3> QED BY <3>2, <3>3
  <2>5. NothingLeft'
    BY <1>1, <1>6, <2>1 DEF IInv, TypeOK, NothingLeft
  <2> QED BY <1>1, <1>3, <2>3, <2>4, <2>5 DEF IInv, CallState
<1>8. CASE kind = "map"
  <2>1. /\ mapPtr' = [mapPtr EXCEPT ![a] = NoMap]
        /\ erasedKeys' = [erasedKeys EXCEPT ![a] = {}]
        /\ UNCHANGED <<value, valuePtr, map>>
    BY <1>1, <1>6, <1>8 DEF RevertVar
  <2>2. NoMap \in [Keys -> Values \cup {Null}]
    BY DEF NoMap
  <2>3. /\ mapPtr' \in [Addresses -> [Keys -> Values \cup {Null}]]
        /\ erasedKeys' \in [Addresses -> SUBSET Keys]
    BY <2>1, <2>2 DEF IInv, TypeOK
  <2>4. TypeOK'
    BY <1>1, <1>3, <2>1, <2>3 DEF IInv, TypeOK
  <2>5. CopiesFaithful'
    <3> SUFFICES ASSUME NEW b \in Addresses
                 PROVE  /\ <<b, "plain">> \notin registered' => valuePtr'[b] \in {Null, value'[b]}
                        /\ <<b, "map">> \notin registered' =>
                             \A k \in Keys : /\ mapPtr'[b][k] \in {Null, map'[b][k]}
                                             /\ k \in erasedKeys'[b] => map'[b][k] = Null
      BY DEF CopiesFaithful
    <3>1. <<b, "plain">> \notin registered' => <<b, "plain">> \notin registered
      BY <1>2, <1>5, <1>8
    <3>2. CASE b = a
      <4>1. erasedKeys'[b] = {} /\ mapPtr'[b] = NoMap
        BY <3>2, <2>1 DEF IInv, TypeOK
      <4>2. \A k \in Keys : mapPtr'[b][k] = Null /\ k \notin erasedKeys'[b]
        BY <4>1 DEF NoMap
      <4> QED BY <3>1, <4>2, <2>1 DEF IInv, CopiesFaithful
    <3>3. CASE b # a
      <4>1. mapPtr'[b] = mapPtr[b] /\ erasedKeys'[b] = erasedKeys[b]
        BY <3>3, <2>1 DEF IInv, TypeOK
      <4>2. <<b, "map">> \notin registered' => <<b, "map">> \notin registered
        BY <1>2, <1>5, <3>3
      <4> QED BY <3>1, <4>1, <4>2, <2>1 DEF IInv, CopiesFaithful
    <3> QED BY <3>2, <3>3
  <2>6. NothingLeft'
    BY <1>1, <1>6, <2>1 DEF IInv, TypeOK, NothingLeft
  <2> QED BY <1>1, <1>3, <2>4, <2>5, <2>6 DEF IInv, CallState
<1> QED BY <1>7, <1>8

LEMMA CommitEndInv == IInv /\ CommitEnd => IInv'
<1> SUFFICES ASSUME IInv, CommitEnd PROVE IInv'
  OBVIOUS
<1> USE ConstantsAssumption
<1> DEFINE E == [tx : 1..MaxCalls, log : Nat, by : Addresses]
           stamped == [i \in 1..Len(tempEvents) |->
                         [tx |-> calls, log |-> i - 1, by |-> tempEvents[i]]]
<1>1. calls \in 1..MaxCalls
  BY DEF IInv, TypeOK, CallState, CommitEnd
<1>2. events' \in Seq(E)
  <2>1. \A i \in 1..Len(tempEvents) : stamped[i] \in E
    BY <1>1 DEF IInv, TypeOK
  <2>2. stamped \in Seq(E)
    <3>1. Len(tempEvents) \in Nat
      BY DEF IInv, TypeOK
    <3> HIDE DEF E
    <3> QED BY <2>1, <3>1, IsASeq
  <2>3. events \in Seq(E) /\ events' = events \o stamped
    BY DEF IInv, TypeOK, CommitEnd
  <2> HIDE DEF E, stamped
  <2> QED BY <2>2, <2>3, ConcatProperties
<1>3. NoBalances \in [Accounts -> Nat \cup {Null}] /\ <<>> \in Seq(Addresses)
  BY DEF NoBalances
<1>4. TypeOK'
  BY <1>2, <1>3 DEF IInv, TypeOK, CommitEnd, stores
<1>5. UsedOnce' /\ UsedVarsOwned'
  BY DEF IInv, UsedOnce, UsedVarsOwned, CommitEnd, stores
<1>6. CopiesFaithful' /\ NothingLeft' /\ CallState'
  BY DEF IInv, CopiesFaithful, NothingLeft, CallState, CommitEnd, stores
<1> QED BY <1>4, <1>5, <1>6 DEF IInv

LEMMA RevertEndInv == IInv /\ RevertEnd => IInv'
<1> SUFFICES ASSUME IInv, RevertEnd PROVE IInv'
  OBVIOUS
<1> USE ConstantsAssumption
<1>1. NoBalances \in [Accounts -> Nat \cup {Null}] /\ NoMap \in [Keys -> Values \cup {Null}]
  BY DEF NoBalances, NoMap
<1>2. /\ value' \in [Addresses -> Values] /\ valuePtr' \in [Addresses -> Values \cup {Null}]
      /\ map' \in [Addresses -> [Keys -> Values \cup {Null}]]
      /\ mapPtr' \in [Addresses -> [Keys -> Values \cup {Null}]]
      /\ erasedKeys' \in [Addresses -> SUBSET Keys]
  BY <1>1 DEF RevertEnd, Destroyed, IInv, TypeOK
<1>3. /\ contracts' \subseteq Addresses /\ recent' = {} /\ tempEvents' = <<>>
      /\ balances' = NoBalances /\ pc' = "idle"
      /\ UNCHANGED <<registered, used, native, events, call, calls, ops>>
  BY DEF RevertEnd, IInv, TypeOK
<1>4. TypeOK'
  BY <1>1, <1>2, <1>3 DEF IInv, TypeOK
<1>5. used = <<>> /\ registered = {}
  BY DEF RevertEnd, IInv, UsedOnce
<1>6. UsedOnce' /\ UsedVarsOwned'
  BY <1>3, <1>5 DEF IInv, UsedOnce, UsedVarsOwned
<1>7. \A a \in Addresses :
        IF a \in recent
          THEN /\ value'[a] = Zero /\ valuePtr'[a] = Null
               /\ map'[a] = NoMap /\ mapPtr'[a] = NoMap /\ erasedKeys'[a] = {}
          ELSE /\ value'[a] = value[a] /\ valuePtr'[a] = valuePtr[a]
               /\ map'[a] = map[a] /\ mapPtr'[a] = mapPtr[a]
               /\ erasedKeys'[a] = erasedKeys[a]
  BY DEF RevertEnd, Destroyed
<1>8. CopiesFaithful'
  <2> SUFFICES ASSUME NEW a \in Addresses
               PROVE  /\ valuePtr'[a] \in {Null, value'[a]}
                      /\ \A k \in Keys : /\ mapPtr'[a][k] \in {Null, map'[a][k]}
                                         /\ k \in erasedKeys'[a] => map'[a][k] = Null
    BY DEF CopiesFaithful
  <2>1. CASE a \in recent
    BY <1>7, <2>1 DEF NoMap
  <2>2. CASE a \notin recent
    BY <1>5, <1>7, <2>2 DEF IInv, CopiesFaithful
  <2> QED BY <2>1, <2>2
<1>9. NothingLeft'
  <2>1. \A a \in Addresses \ contracts' : a \in recent \/ a \in Addresses \ contracts
    BY DEF RevertEnd
  <2>2. \A a \in Addresses \ contracts' :
          /\ value'[a] = Zero /\ valuePtr'[a] = Null
          /\ map'[a] = NoMap /\ mapPtr'[a] = NoMap /\ erasedKeys'[a] = {}
    BY <1>7, <2>1 DEF IInv, NothingLeft
  <2> QED BY <1>3, <1>5, <2>2 DEF NothingLeft
<1>10. CallState'
  BY <1>3 DEF CallState
<1> QED BY <1>4, <1>6, <1>8, <1>9, <1>10 DEF IInv

-----------------------------------------------------------------------------
(* The other actions.                                                      *)

\* What an action that leaves contracts and variables alone preserves.
LEMMA StoresKept ==
  ASSUME IInv, UNCHANGED <<contracts, stores, used>>
  PROVE  UsedOnce' /\ UsedVarsOwned' /\ CopiesFaithful'
BY DEF IInv, UsedOnce, UsedVarsOwned, CopiesFaithful, stores

LEMMA BeginCallInv == IInv /\ BeginCall => IInv'
<1> SUFFICES ASSUME IInv, BeginCall PROVE IInv'
  OBVIOUS
<1> USE ConstantsAssumption
<1>1. NoBalances \in [Accounts -> Nat \cup {Null}]
  BY DEF NoBalances
<1>2. TypeOK'
  BY <1>1 DEF IInv, TypeOK, BeginCall, stores
<1>3. NothingLeft' /\ CallState'
  BY DEF IInv, TypeOK, NothingLeft, CallState, BeginCall, stores
<1> QED BY <1>2, <1>3, StoresKept DEF IInv, BeginCall

LEMMA BeginSimulationInv == IInv /\ BeginSimulation => IInv'
<1> SUFFICES ASSUME IInv, BeginSimulation PROVE IInv'
  OBVIOUS
<1> USE ConstantsAssumption
<1>1. NoBalances \in [Accounts -> Nat \cup {Null}]
  BY DEF NoBalances
<1>2. balances' \in [Accounts -> Nat \cup {Null}]
  <2>1. CASE balances' = NoBalances
    BY <1>1, <2>1
  <2>2. CASE \E from \in Users, to \in contracts :
               /\ native[from] > 0
               /\ balances' = [NoBalances EXCEPT ![from] = native[from] - 1,
                                                 ![to] = native[to] + 1]
    <3>1. PICK from \in Users, to \in contracts :
               /\ native[from] > 0
               /\ balances' = [NoBalances EXCEPT ![from] = native[from] - 1,
                                                 ![to] = native[to] + 1]
      BY <2>2
    <3>2. from \in Accounts /\ to \in Accounts
      BY DEF Accounts, IInv, TypeOK
    <3>3. native[from] - 1 \in Nat /\ native[to] + 1 \in Nat
      BY <3>1, <3>2 DEF IInv, TypeOK
    <3> QED BY <1>1, <3>1, <3>3
  <2> QED BY <2>1, <2>2 DEF BeginSimulation
<1>3. TypeOK'
  BY <1>2 DEF IInv, TypeOK, BeginSimulation, stores
<1>4. NothingLeft' /\ CallState'
  BY DEF IInv, TypeOK, NothingLeft, CallState, BeginSimulation, stores
<1> QED BY <1>3, <1>4, StoresKept DEF IInv, BeginSimulation

LEMMA SendNativeInv == IInv /\ SendNative => IInv'
<1> SUFFICES ASSUME IInv, SendNative PROVE IInv'
  OBVIOUS
<1> USE ConstantsAssumption
<1>1. PICK from \in contracts, to \in Accounts : SendTokens(from, to, 1)
  BY DEF SendNative
<1> DEFINE b == Populate({from, to})
<1>2. from \in Accounts
  BY DEF Accounts, IInv, TypeOK
<1>3. b \in [Accounts -> Nat \cup {Null}]
  BY DEF Populate, IInv, TypeOK
<1>4. b[from] \in Nat /\ b[to] \in Nat
  <2>1. \A a \in {from, to} : native[a] \in Nat /\ balances[a] \in Nat \cup {Null}
    BY <1>2 DEF IInv, TypeOK
  <2> QED BY <1>2, <2>1 DEF Populate
<1>5. balances' \in [Accounts -> Nat \cup {Null}]
  <2>1. /\ b[from] >= 1
        /\ balances' = IF from = to THEN b ELSE [b EXCEPT ![from] = @ - 1, ![to] = @ + 1]
    BY <1>1 DEF SendTokens
  <2> HIDE DEF b
  <2>2. b[from] - 1 \in Nat /\ b[to] + 1 \in Nat
    BY <1>4, <2>1
  <2> QED BY <1>2, <1>3, <2>1, <2>2
<1>6. TypeOK'
  BY <1>5 DEF IInv, TypeOK, SendNative, Operation, callVars, stores
<1>7. NothingLeft' /\ CallState'
  BY DEF IInv, NothingLeft, CallState, SendNative, Operation, callVars, stores
<1> QED BY <1>6, <1>7, StoresKept DEF IInv, SendNative

LEMMA CreateContractInv == IInv /\ CreateContract => IInv'
<1> SUFFICES ASSUME IInv, CreateContract PROVE IInv'
  OBVIOUS
<1> USE ConstantsAssumption
<1>1. PICK a \in Addresses \ contracts, x \in Values :
        /\ contracts' = contracts \cup {a}
        /\ recent' = recent \cup {a}
        /\ value' = [value EXCEPT ![a] = x]
  BY DEF CreateContract
<1>2. /\ value' \in [Addresses -> Values]
      /\ \A b \in Addresses : b # a => value'[b] = value[b]
  BY <1>1 DEF IInv, TypeOK
<1>3. UNCHANGED <<valuePtr, map, mapPtr, erasedKeys, registered, used, pc, calls, tempEvents>>
  BY DEF CreateContract, Operation, callVars
<1>4. TypeOK'
  BY <1>1, <1>2 DEF IInv, TypeOK, CreateContract, Operation, callVars
<1>5. UsedOnce' /\ UsedVarsOwned'
  BY <1>1, <1>3 DEF IInv, UsedOnce, UsedVarsOwned
<1>6. CopiesFaithful'
  <2>1. valuePtr[a] = Null
    BY <1>1 DEF IInv, NothingLeft
  <2> QED BY <1>2, <1>3, <2>1 DEF IInv, CopiesFaithful
<1>7. NothingLeft' /\ CallState'
  BY <1>1, <1>2, <1>3 DEF IInv, NothingLeft, CallState, CreateContract, Operation
<1> QED BY <1>4, <1>5, <1>6, <1>7 DEF IInv

LEMMA EmitEventInv == IInv /\ EmitEvent => IInv'
<1> SUFFICES ASSUME IInv, EmitEvent PROVE IInv'
  OBVIOUS
<1> USE ConstantsAssumption
<1>1. tempEvents' \in Seq(Addresses)
  BY DEF IInv, TypeOK, EmitEvent
<1>2. TypeOK'
  BY <1>1 DEF IInv, TypeOK, EmitEvent, Operation, callVars, stores
<1>3. NothingLeft' /\ CallState'
  BY DEF IInv, NothingLeft, CallState, EmitEvent, Operation, callVars, stores
<1> QED BY <1>2, <1>3, StoresKept DEF IInv, EmitEvent

LEMMA ViewInv == IInv /\ View => IInv'
<1> SUFFICES ASSUME IInv, View PROVE IInv'
  OBVIOUS
<1> USE ConstantsAssumption
<1>1. PICK a \in contracts, k \in Keys : Copy(a, k)
  BY DEF View
<1>2. a \in Addresses
  BY DEF IInv, TypeOK
<1>3. Read(a) \in Values /\ Find(a, k) \in Values \cup {Null}
  BY <1>2 DEF Read, Find, IInv, TypeOK
<1>4. /\ valuePtr' \in [Addresses -> Values \cup {Null}]
      /\ valuePtr'[a] = Read(a)
      /\ \A b \in Addresses : b # a => valuePtr'[b] = valuePtr[b]
  BY <1>1, <1>2, <1>3 DEF Copy, IInv, TypeOK
<1>5. /\ mapPtr' \in [Addresses -> [Keys -> Values \cup {Null}]]
      /\ mapPtr'[a][k] = Find(a, k)
      /\ \A b \in Addresses, j \in Keys : <<b, j>> # <<a, k>> => mapPtr'[b][j] = mapPtr[b][j]
      /\ \A b \in Addresses : b # a => mapPtr'[b] = mapPtr[b]
  BY <1>1, <1>2, <1>3 DEF Copy, IInv, TypeOK
<1>6. /\ UNCHANGED <<value, map, erasedKeys, registered, used, contracts, recent>>
      /\ UNCHANGED <<balances, native, tempEvents, events, call, pc, calls, ops>>
  BY <1>1 DEF Copy, View, callVars
<1>7. TypeOK'
  BY <1>4, <1>5, <1>6 DEF IInv, TypeOK
<1>8. UsedOnce' /\ UsedVarsOwned'
  BY <1>6 DEF IInv, UsedOnce, UsedVarsOwned
<1>9. CopiesFaithful'
  <2> SUFFICES ASSUME NEW b \in Addresses
               PROVE  /\ <<b, "plain">> \notin registered => valuePtr'[b] \in {Null, value[b]}
                      /\ <<b, "map">> \notin registered =>
                           \A j \in Keys : /\ mapPtr'[b][j] \in {Null, map[b][j]}
                                           /\ j \in erasedKeys[b] => map[b][j] = Null
    BY <1>6 DEF CopiesFaithful
  <2>1. <<b, "plain">> \notin registered => valuePtr'[b] \in {Null, value[b]}
    BY <1>4 DEF IInv, CopiesFaithful, Read
  <2>2. ASSUME <<b, "map">> \notin registered, NEW j \in Keys
        PROVE  mapPtr'[b][j] \in {Null, map[b][j]}
    <3>1. mapPtr[b][j] \in {Null, map[b][j]} /\ (j \in erasedKeys[b] => map[b][j] = Null)
      BY <2>2 DEF IInv, CopiesFaithful
    <3>2. CASE <<b, j>> = <<a, k>>
      BY <1>5, <3>1, <3>2 DEF Find
    <3>3. CASE <<b, j>> # <<a, k>>
      BY <1>5, <3>1, <3>3
    <3> QED BY <3>2, <3>3
  <2> QED BY <2>1, <2>2 DEF IInv, CopiesFaithful
<1>10. NothingLeft' /\ CallState'
  <2>1. \A b \in Addresses \ contracts : valuePtr'[b] = valuePtr[b] /\ mapPtr'[b] = mapPtr[b]
    BY <1>4, <1>5
  <2> QED BY <1>6, <2>1 DEF IInv, NothingLeft, CallState
<1> QED BY <1>7, <1>8, <1>9, <1>10 DEF IInv

LEMMA SucceedInv == IInv /\ Succeed => IInv'
<1> SUFFICES ASSUME IInv, Succeed PROVE IInv'
  OBVIOUS
<1>1. Paid \in [Accounts -> Nat]
  BY DEF Paid, IInv, TypeOK
<1>2. TypeOK'
  BY <1>1 DEF IInv, TypeOK, Succeed, stores
<1>3. NothingLeft'
  BY DEF IInv, NothingLeft, Succeed, stores
<1>4. CallState'
  <2>1. call.payable => \A a \in Accounts : balances[a] \in {Null, Paid[a]}
    BY DEF Paid
  <2> QED BY <2>1 DEF IInv, CallState, Succeed
<1> QED BY <1>2, <1>3, <1>4, StoresKept DEF IInv, Succeed

LEMMA FailInv == IInv /\ Fail => IInv'
<1> SUFFICES ASSUME IInv, Fail PROVE IInv'
  OBVIOUS
<1>1. TypeOK' /\ NothingLeft' /\ CallState'
  BY DEF IInv, TypeOK, NothingLeft, CallState, Fail, stores
<1> QED BY <1>1, StoresKept DEF IInv, Fail

LEMMA InitInv == Init => IInv
<1> SUFFICES ASSUME Init PROVE IInv
  OBVIOUS
<1> USE ConstantsAssumption
<1>1. TypeOK
  BY DEF Init, TypeOK, NoMap, NoBalances
<1>2. UsedOnce /\ UsedVarsOwned /\ CopiesFaithful /\ NothingLeft /\ CallState
  BY DEF Init, UsedOnce, UsedVarsOwned, CopiesFaithful, NothingLeft, CallState, NoMap
<1> QED BY <1>1, <1>2 DEF IInv

LEMMA NextInv == IInv /\ [Next]_vars => IInv'
<1>1. IInv /\ UNCHANGED vars => IInv'
  BY DEF vars, IInv, TypeOK, UsedOnce, UsedVarsOwned, CopiesFaithful, NothingLeft, CallState
<1> QED BY <1>1, BeginCallInv, BeginSimulationInv, UseVariablesInv, SendNativeInv,
           CreateContractInv, EmitEventInv, ViewInv, SucceedInv, FailInv, CommitStepInv,
           RevertStepInv, CommitEndInv, RevertEndInv DEF Next

\* Whatever contracts, keys, values and bounds: the invariant of a call holds.  A
\* variable that differs from what was committed is on the logger's list, once, and
\* its contract exists when the logger's destructor calls it.
THEOREM CallsInvariant == Spec => []IInv
BY InitInv, NextInv, PTL DEF Spec

-----------------------------------------------------------------------------
(* Native tokens are neither created nor destroyed.                        *)

\* What processContractPayable would write now adds up to what there was.
PaidConserved == pc = "run" /\ call.kind = "tx" => SumFunction(Paid) = SumFunction(Genesis)

NativeInv == NativeConserved /\ PaidConserved

LEMMA FiniteAccounts == IsFiniteSet(Accounts)
BY ConstantsAssumption, FS_Union DEF Accounts

\* sendTokens moves an amount from one of the balances that would be written to another.
LEMMA SendConserves ==
  ASSUME IInv, SendNative
  PROVE  SumFunction(Paid') = SumFunction(Paid)
<1>1. PICK from \in contracts, to \in Accounts : SendTokens(from, to, 1)
  BY DEF SendNative
<1>2. from \in Accounts
  BY DEF Accounts, IInv, TypeOK
<1>3. /\ native \in [Accounts -> Nat] /\ balances \in [Accounts -> Nat \cup {Null}]
      /\ native' = native /\ Null \notin Nat
  BY ConstantsAssumption DEF IInv, TypeOK, SendNative
<1>4. PICK b : b = Populate({from, to})
  OBVIOUS
<1>5. /\ b \in [Accounts -> Nat \cup {Null}]
      /\ \A a \in Accounts : b[a] = IF a \in {from, to} /\ balances[a] = Null
                                  THEN native[a] ELSE balances[a]
  BY <1>3, <1>4 DEF Populate
<1>6. PICK f \in [Accounts -> Nat] :
        f = Paid /\ \A a \in Accounts : f[a] = IF balances[a] = Null THEN native[a] ELSE balances[a]
  <2>1. Paid = [a \in Accounts |-> IF balances[a] = Null THEN native[a] ELSE balances[a]]
    BY DEF Paid
  <2>. QED BY <1>3, <2>1
<1>7. \A a \in Accounts : /\ a \in {from, to} => b[a] = f[a]
                          /\ a \notin {from, to} => b[a] = balances[a]
  BY <1>5, <1>6
<1>8. /\ b[from] >= 1
      /\ balances' = IF from = to THEN b ELSE [b EXCEPT ![from] = @ - 1, ![to] = @ + 1]
  BY <1>1, <1>4 DEF SendTokens
<1>9. f[from] \in Nat /\ f[to] \in Nat /\ b[from] = f[from] /\ b[to] = f[to]
  BY <1>2, <1>7
<1>10. /\ balances' \in [Accounts -> Nat \cup {Null}]
       /\ \A a \in Accounts \ {from, to} : balances'[a] = balances[a]
       /\ from = to => balances'[from] = f[from]
       /\ from # to => balances'[from] = f[from] - 1 /\ balances'[to] = f[to] + 1
  <2>1. CASE from = to
    BY <1>2, <1>5, <1>7, <1>8, <1>9, <2>1
  <2>2. CASE from # to
    <3>1. f[from] - 1 \in Nat /\ f[to] + 1 \in Nat
      BY <1>8, <1>9
    <3>2. balances' = [b EXCEPT ![from] = f[from] - 1, ![to] = f[to] + 1]
      BY <1>8, <1>9, <2>2
    <3>3. /\ balances'[from] = f[from] - 1 /\ balances'[to] = f[to] + 1
          /\ \A a \in Accounts \ {from, to} : balances'[a] = b[a]
          /\ balances' \in [Accounts -> Nat \cup {Null}]
      BY <1>2, <1>5, <2>2, <3>1, <3>2
    <3>. QED BY <1>7, <2>2, <3>3
  <2>. QED BY <2>1, <2>2
<1>11. PICK g \in [Accounts -> Nat] :
         g = Paid' /\ \A a \in Accounts : g[a] = IF balances'[a] = Null THEN native[a] ELSE balances'[a]
  <2>1. Paid' = [a \in Accounts |-> IF balances'[a] = Null THEN native[a] ELSE balances'[a]]
    BY <1>3 DEF Paid
  <2>. QED BY <1>3, <1>10, <2>1
<1>12. \A a \in Accounts \ {from, to} : g[a] = f[a]
  BY <1>6, <1>10, <1>11
<1>13. CASE from = to
  <2>1. g[from] = f[from]
    BY <1>2, <1>3, <1>9, <1>10, <1>11, <1>13
  <2>2. g = f
    BY <1>12, <1>13, <2>1
  <2>. QED BY <1>6, <1>11, <2>2
<1>14. CASE from # to
  <2>1. f[from] >= 1
    BY <1>8, <1>9
  <2>2. f[from] - 1 \in Nat /\ f[to] + 1 \in Nat
    BY <1>9, <2>1
  <2>3. g[from] = f[from] - 1 /\ g[to] = f[to] + 1
    BY <1>2, <1>3, <1>10, <1>11, <1>14, <2>2
  <2>4. g[from] + g[to] = f[from] + f[to]
    BY <1>9, <2>3
  <2>5. SumFunction(g) = SumFunction(f)
    BY <1>2, <1>12, <1>14, <2>4, FiniteAccounts, SumMoved
  <2>. QED BY <1>6, <1>11, <2>5
<1>. QED BY <1>13, <1>14

LEMMA NativeNext == IInv /\ NativeInv /\ [Next]_vars => NativeInv'
<1> SUFFICES ASSUME IInv, NativeInv, [Next]_vars PROVE NativeInv'
  OBVIOUS
<1>1. CASE BeginCall
  <2>1. native' = native /\ balances' = NoBalances
    BY <1>1 DEF BeginCall
  <2>2. native \in [Accounts -> Nat]
    BY DEF IInv, TypeOK
  <2>3. Paid' = native
    BY <2>1, <2>2 DEF Paid, NoBalances
  <2> QED BY <2>1, <2>3 DEF NativeInv, NativeConserved, PaidConserved
<1>2. CASE BeginSimulation
  BY <1>2 DEF NativeInv, NativeConserved, PaidConserved, BeginSimulation
<1>3. CASE SendNative
  <2>1. SumFunction(Paid') = SumFunction(Paid)
    BY <1>3, SendConserves
  <2>2. native' = native /\ pc' = pc /\ call' = call
    BY <1>3 DEF SendNative, Operation, callVars
  <2> QED BY <2>1, <2>2 DEF NativeInv, NativeConserved, PaidConserved
<1>4. CASE Succeed
  <2>1. /\ pc = "run" /\ call.kind = "tx" /\ pc' = "commit"
        /\ native' = IF call.payable THEN Paid ELSE native
    BY <1>4 DEF Succeed
  <2> QED BY <2>1 DEF NativeInv, NativeConserved, PaidConserved
<1>5. CASE UseVariables \/ CreateContract \/ EmitEvent \/ View \/ UNCHANGED vars
  <2>1. UNCHANGED <<native, balances, pc, call>>
    BY <1>5 DEF UseVariables, CreateContract, EmitEvent, View, Operation, callVars, vars
  <2>2. Paid' = Paid
    BY <2>1 DEF Paid
  <2> QED BY <2>1, <2>2 DEF NativeInv, NativeConserved, PaidConserved
<1>6. CASE Fail \/ CommitStep \/ RevertStep \/ CommitEnd \/ RevertEnd
  <2>1. native' = native /\ pc' # "run"
    BY <1>6 DEF Fail, CommitStep, RevertStep, Finish, CommitEnd, RevertEnd, callVars
  <2> QED BY <2>1 DEF NativeInv, NativeConserved, PaidConserved
<1> QED BY <1>1, <1>2, <1>3, <1>4, <1>5, <1>6 DEF Next

\* Whatever contracts send one another in calls, nested or failing, the native tokens of
\* all accounts add up to those of the genesis.
THEOREM NativeIsConserved == Spec => []NativeConserved
<1>1. Init => NativeInv
  BY DEF Init, NativeInv, NativeConserved, PaidConserved
<1>2. NativeInv => NativeConserved
  BY DEF NativeInv
<1> QED BY <1>1, <1>2, NativeNext, CallsInvariant, PTL DEF Spec

-----------------------------------------------------------------------------
(* ContractCalls implements AtomicCalls.                                   *)

\* The events of a call that has emitted none.
LEMMA NoEvents ==
  ASSUME TypeOK, tempEvents = <<>>
  PROVE  AllEvents = events
<1> DEFINE E == [tx : 1..MaxCalls, log : Nat, by : Addresses]
           stamped == [i \in 1..Len(tempEvents) |->
                         [tx |-> calls, log |-> i - 1, by |-> tempEvents[i]]]
<1>1. Len(tempEvents) = 0
  OBVIOUS
<1>2. \A i \in 1..0 : stamped[i] \in E
  OBVIOUS
<1>3. stamped \in Seq(E) /\ Len(stamped) = 0
  <2>1. stamped = [i \in 1..0 |-> stamped[i]]
    BY <1>1
  <2> HIDE DEF E, stamped
  <2>2. [i \in 1..0 |-> stamped[i]] \in Seq(E)
    BY <1>2, IsASeq
  <2>3. Len([i \in 1..0 |-> stamped[i]]) = 0
    OBVIOUS
  <2> QED BY <2>1, <2>2, <2>3
<1>4. stamped = <<>>
  <2> HIDE DEF E, stamped
  <2> QED BY <1>3, EmptySeq
<1>5. events \in Seq(E)
  BY DEF TypeOK
<1> HIDE DEF E
<1>6. AllEvents = events \o stamped
  BY DEF AllEvents
<1> HIDE DEF stamped
<1> QED BY <1>4, <1>5, <1>6, ConcatEmptySeq

\* Without a used variable the temporaries are copies: all three ways of looking at
\* a contract agree.
LEMMA NothingPending ==
  ASSUME IInv, used = <<>>, NEW a \in Addresses
  PROVE  /\ Read(a) = value[a]
         /\ Merged(a) = map[a]
         /\ [k \in Keys |-> Find(a, k)] = map[a]
<1>1. registered = {}
  BY DEF IInv, UsedOnce
<1>2. Read(a) = value[a]
  BY <1>1 DEF IInv, CopiesFaithful, Read
<1>3. map[a] = [k \in Keys |-> map[a][k]]
  BY DEF IInv, TypeOK
<1>4. \A k \in Keys : /\ mapPtr[a][k] \in {Null, map[a][k]}
                      /\ k \in erasedKeys[a] => map[a][k] = Null
  BY <1>1 DEF IInv, CopiesFaithful
<1>5. \A k \in Keys : Find(a, k) = map[a][k]
  BY <1>4 DEF Find
<1>6. Merged(a) = [k \in Keys |-> map[a][k]]
  BY <1>4 DEF Merged
<1> QED BY <1>2, <1>3, <1>5, <1>6

\* Between calls the views see what was committed.
LEMMA VisibleCommitted == IInv /\ used = <<>> /\ recent = {} => Visible = Committed
<1> SUFFICES ASSUME IInv, used = <<>>, recent = {} PROVE Visible = Committed
  OBVIOUS
<1>1. \A a \in Addresses : /\ Read(a) = value[a]
                           /\ FoundMaps[a] = map[a]
  BY NothingPending DEF FoundMaps
<1>2. contracts \ recent = contracts
  OBVIOUS
<1> QED BY <1>1, <1>2 DEF Visible, Committed, StoreOf

\* A call that has done nothing yet sees what was committed, up to the value that a
\* simulation moves.
LEMMA SeenCommitted ==
  ASSUME IInv, used = <<>>, recent = {}, tempEvents = <<>>
  PROVE  /\ Seen.contracts = Committed.contracts /\ Seen.events = Committed.events
         /\ Seen.value = Committed.value /\ Seen.map = Committed.map
         /\ balances = NoBalances => Seen.native = Committed.native
<1>1. \A a \in Addresses : Read(a) = value[a] /\ FoundMaps[a] = map[a]
  BY NothingPending DEF FoundMaps
<1>2. balances = NoBalances => Paid = native
  <2>1. native = [a \in Accounts |-> native[a]]
    BY DEF IInv, TypeOK
  <2>2. balances = NoBalances => Paid = [a \in Accounts |-> native[a]]
    BY DEF Paid, NoBalances
  <2> QED BY <2>1, <2>2
<1>3. contracts \ recent = contracts
  OBVIOUS
<1>4. AllEvents = events
  BY NoEvents DEF IInv
<1> QED BY <1>1, <1>2, <1>3, <1>4 DEF Seen, Committed, StoreOf

LEMMA BeginRefines ==
  ASSUME IInv, IInv', BeginCall \/ BeginSimulation
  PROVE  Atomic!Begin
<1>1. /\ pc = "idle" /\ pc' = "run"
      /\ used = <<>> /\ recent = {} /\ tempEvents = <<>>
      /\ used' = <<>> /\ recent' = {} /\ tempEvents' = <<>>
      /\ UNCHANGED <<contracts, recent, value, map, erasedKeys, native, events>>
  BY DEF BeginCall, BeginSimulation, IInv, NothingLeft, stores
<1>2. /\ mode' \in {"payable", "unpaid", "simulation"}
      /\ mode' # "simulation" => balances' = NoBalances
  BY DEF BeginCall, BeginSimulation, NoBalances, mode
<1>3. Committed' = Committed
  BY <1>1 DEF Committed, StoreOf
<1>4. /\ Seen'.contracts = Committed'.contracts /\ Seen'.events = Committed'.events
      /\ Seen'.value = Committed'.value /\ Seen'.map = Committed'.map
      /\ balances' = NoBalances => Seen'.native = Committed'.native
  <2>1. (IInv /\ used = <<>> /\ recent = {} /\ tempEvents = <<>>
         => /\ Seen.contracts = Committed.contracts /\ Seen.events = Committed.events
            /\ Seen.value = Committed.value /\ Seen.map = Committed.map
            /\ balances = NoBalances => Seen.native = Committed.native)'
    BY SeenCommitted, PTL
  <2> QED BY <1>1, <2>1
<1>5. Visible = Committed
  BY <1>1, VisibleCommitted
<1>6. erased' = erased
  BY <1>1 DEF erased
<1>7. /\ ~busy /\ busy' /\ store = Committed /\ store' = Committed /\ working' = Seen'
  BY <1>1, <1>3, <1>5 DEF store, working, busy
<1> HIDE DEF Seen, Committed
<1> QED BY <1>2, <1>3, <1>4, <1>6, <1>7 DEF Atomic!Begin, busy

\* What a running function does stays in the temporaries, and what it erases it no
\* longer sees.
LEMMA OperationRefines ==
  ASSUME IInv, IInv', UseVariables \/ SendNative \/ CreateContract \/ EmitEvent
  PROVE  Atomic!Work
<1>1. pc = "run" /\ pc' = "run" /\ UNCHANGED <<native, events, call>>
  BY DEF UseVariables, SendNative, CreateContract, EmitEvent, Operation, callVars
<1>2. Committed' = Committed
  <2>1. CASE UseVariables
    <3>1. UNCHANGED <<contracts, recent, value, map>>
      BY <2>1 DEF UseVariables, Write, WriteKey, EraseKey
    <3> QED BY <1>1, <3>1 DEF Committed, StoreOf
  <2>2. CASE SendNative \/ EmitEvent
    BY <1>1, <2>2 DEF SendNative, EmitEvent, stores, Committed, StoreOf
  <2>3. CASE CreateContract
    <3>1. PICK a \in Addresses \ contracts, x \in Values :
            /\ contracts' = contracts \cup {a}
            /\ recent' = recent \cup {a}
            /\ value' = [value EXCEPT ![a] = x]
      BY <2>3 DEF CreateContract
    <3>2. contracts' \ recent' = contracts \ recent /\ map' = map
      BY <2>3, <3>1 DEF CreateContract
    <3>3. \A b \in Addresses : b \in contracts \ recent => value'[b] = value[b]
      BY <3>1 DEF IInv, TypeOK
    <3> QED BY <1>1, <3>2, <3>3 DEF Committed, StoreOf
  <2> QED BY <2>1, <2>2, <2>3
<1>3. /\ \A a \in Addresses : erasedKeys[a] \subseteq erasedKeys'[a]
      /\ \A a \in Addresses : \A k \in erasedKeys'[a] \ erasedKeys[a] : mapPtr'[a][k] = Null
  <2>1. CASE UNCHANGED erasedKeys
    BY <2>1
  <2>2. CASE \E a \in contracts, k \in Keys : EraseKey(a, k)
    <3>1. PICK a \in contracts, k \in Keys : EraseKey(a, k)
      BY <2>2
    <3>2. a \in Addresses
      BY DEF IInv, TypeOK
    <3>3. /\ erasedKeys' = [erasedKeys EXCEPT ![a] = @ \cup {k}]
          /\ mapPtr' = [mapPtr EXCEPT ![a][k] = Null]
      BY <3>1 DEF EraseKey
    <3>4. \A b \in Addresses : erasedKeys'[b] = IF b = a THEN erasedKeys[a] \cup {k}
                                                ELSE erasedKeys[b]
      BY <3>2, <3>3 DEF IInv, TypeOK
    <3>5. mapPtr'[a][k] = Null
      BY <3>2, <3>3 DEF IInv, TypeOK
    <3> QED BY <3>4, <3>5
  <2> QED
    BY <2>1, <2>2 DEF UseVariables, Write, WriteKey, SendNative, CreateContract, EmitEvent, stores
<1>4. erased \subseteq erased'
  BY <1>1, <1>3 DEF erased
<1>5. \A e \in erased' \ erased : Seen'.map[e[1]][e[2]] = Null
  <2> SUFFICES ASSUME NEW e \in erased' \ erased PROVE Seen'.map[e[1]][e[2]] = Null
    OBVIOUS
  <2>1. /\ e[1] \in Addresses /\ e[2] \in Keys
        /\ e[2] \in erasedKeys'[e[1]] \ erasedKeys[e[1]]
    BY <1>1 DEF erased
  <2>2. Find(e[1], e[2])' = Null
    BY <1>3, <2>1 DEF Find
  <2>3. FoundMaps'[e[1]][e[2]] = Null
    BY <2>1, <2>2 DEF FoundMaps
  <2>4. Seen'.map[e[1]] = IF e[1] \in contracts' THEN FoundMaps'[e[1]] ELSE NoMap
    BY <2>1 DEF Seen, StoreOf
  <2> QED BY <2>1, <2>3, <2>4 DEF NoMap
<1>6. store' = store /\ mode' = mode /\ working' = Seen'
  BY <1>1, <1>2 DEF store, mode, working
<1> HIDE DEF Seen
<1> QED BY <1>1, <1>4, <1>5, <1>6 DEF Atomic!Work, busy

\* A view changes nothing that anybody sees.
LEMMA ViewRefines ==
  ASSUME IInv, IInv', View
  PROVE  UNCHANGED Atomic!vars
<1>1. PICK a \in contracts, k \in Keys : Copy(a, k)
  BY DEF View
<1>2. /\ pc' = pc /\ call' = call /\ (pc = "idle" \/ call.kind = "simulation")
      /\ UNCHANGED <<contracts, recent, value, map, erasedKeys, registered, balances, native,
                     events, tempEvents, calls>>
  BY <1>1 DEF View, Copy, callVars
<1>3. Committed' = Committed
  BY <1>2 DEF Committed, StoreOf
<1>4. a \in Addresses
  BY DEF IInv, TypeOK
<1>5. /\ valuePtr' = [valuePtr EXCEPT ![a] = Read(a)]
      /\ mapPtr' = [mapPtr EXCEPT ![a][k] = Find(a, k)]
  BY <1>1 DEF Copy
<1>6. \A b \in Addresses : Read(b)' = Read(b)
  BY <1>2, <1>4, <1>5, ConstantsAssumption DEF Read, IInv, TypeOK
<1>7. \A b \in Addresses, j \in Keys : Find(b, j)' = Find(b, j)
  <2> SUFFICES ASSUME NEW b \in Addresses, NEW j \in Keys PROVE Find(b, j)' = Find(b, j)
    OBVIOUS
  <2>1. CASE b = a /\ j = k
    <3>1. mapPtr'[b][j] = Find(b, j)
      BY <1>4, <1>5, <2>1 DEF IInv, TypeOK
    <3> QED BY <1>2, <3>1 DEF Find
  <2>2. CASE ~(b = a /\ j = k)
    <3>1. mapPtr'[b][j] = mapPtr[b][j]
      BY <1>4, <1>5, <2>2 DEF IInv, TypeOK
    <3> QED BY <1>2, <3>1 DEF Find
  <2> QED BY <2>1, <2>2
<1>8. FoundMaps' = FoundMaps /\ AllEvents' = AllEvents /\ Paid' = Paid
  BY <1>2, <1>7 DEF FoundMaps, AllEvents, Paid
<1>9. Visible' = Visible /\ Seen' = Seen
  BY <1>2, <1>6, <1>8 DEF Visible, Seen, StoreOf
<1>10. pc # "commit"
  BY <1>2 DEF IInv, CallState
<1>11. erased' = erased /\ mode' = mode
  BY <1>2 DEF erased, mode
<1> QED BY <1>2, <1>3, <1>9, <1>10, <1>11 DEF Atomic!vars, store, working, busy

\* What the logger is about to commit is what the function saw, without the erased keys.
LEMMA SucceedRefines ==
  ASSUME IInv, IInv', Succeed
  PROVE  Atomic!Commit
<1>1. /\ pc = "run" /\ pc' = "commit" /\ call.kind = "tx"
      /\ native' = IF call.payable THEN Paid ELSE native
      /\ UNCHANGED <<contracts, recent, stores, used, balances, tempEvents, events, call, calls>>
  BY DEF Succeed
<1>2. \A a \in Addresses : Read(a)' = Read(a) /\ Merged(a)' = Merged(a)
  BY <1>1 DEF Read, Merged, stores
<1>3. AllEvents' = AllEvents
  BY <1>1 DEF AllEvents
<1>4. erased' = erased /\ mode' = mode
  BY <1>1 DEF erased, mode, stores
<1>5. mode # "simulation" /\ (mode = "payable" <=> call.payable)
  BY <1>1 DEF mode
<1> DEFINE kept == [a \in Addresses |-> IF a \in contracts THEN Merged(a) ELSE NoMap]
<1>6. Atomic!Remaining(Seen.map) = kept
  <2>1. Seen.map = [a \in Addresses |-> IF a \in contracts THEN FoundMaps[a] ELSE NoMap]
    BY DEF Seen, StoreOf
  <2>2. \A a \in Addresses : DOMAIN Seen.map[a] = Keys
    BY <2>1 DEF FoundMaps, NoMap
  <2>3. \A a \in Addresses, k \in Keys : <<a, k>> \in erased <=> k \in erasedKeys[a]
    BY <1>1 DEF erased
  <2>4. \A a \in Addresses, k \in Keys :
          kept[a][k] = IF <<a, k>> \in erased THEN Null ELSE Seen.map[a][k]
    <3> SUFFICES ASSUME NEW a \in Addresses, NEW k \in Keys
                 PROVE  kept[a][k] = IF <<a, k>> \in erased THEN Null ELSE Seen.map[a][k]
      OBVIOUS
    <3>1. CASE a \in contracts
      BY <2>1, <2>3, <3>1 DEF Merged, FoundMaps, Find
    <3>2. CASE a \notin contracts
      BY <2>1, <3>2 DEF NoMap
    <3> QED BY <3>1, <3>2
  <2>5. \A a \in Addresses : kept[a] = [k \in Keys |-> kept[a][k]]
    BY DEF Merged, NoMap
  <2>6. DOMAIN Seen.map = Addresses
    BY <2>1
  <2>7. kept = [a \in Addresses |-> kept[a]]
    OBVIOUS
  <2> HIDE DEF kept, Seen
  <2> QED BY <2>2, <2>4, <2>5, <2>6, <2>7 DEF Atomic!Remaining
<1>7. /\ Committing' = [contracts |-> Seen.contracts, events |-> Seen.events,
                        native |-> native', value |-> Seen.value, map |-> kept]
      /\ Seen.native = Paid /\ Committed.native = native
  BY <1>1, <1>2, <1>3 DEF Seen, Committed, Committing, StoreOf
<1>8. native' = IF mode = "payable" THEN Seen.native ELSE Committed.native
  BY <1>1, <1>5, <1>7
<1>9. /\ busy /\ ~busy' /\ store = Committed /\ working = Seen
      /\ store' = Committing' /\ working' = Committing'
  BY <1>1 DEF store, working, busy
<1> HIDE DEF Seen, Committed, Committing, kept
<1> QED BY <1>4, <1>5, <1>6, <1>7, <1>8, <1>9 DEF Atomic!Commit, busy

LEMMA FailRefines ==
  ASSUME IInv, IInv', Fail
  PROVE  Atomic!Abort
<1>1. pc = "run" /\ pc' = "revert" /\ Committed' = Committed
  BY DEF Fail, Committed, StoreOf, stores
<1>2. erased' \subseteq erased /\ mode' = mode
  BY <1>1 DEF Fail, erased, mode, stores
<1> QED BY <1>1, <1>2 DEF Atomic!Abort, store, working, busy

LEMMA CommitStepRefines ==
  ASSUME IInv, IInv', CommitStep
  PROVE  UNCHANGED Atomic!vars
<1> DEFINE v == used[Len(used)]
<1>1. /\ pc = "commit" /\ pc' = "commit" /\ CommitVar(v)
      /\ UNCHANGED <<contracts, balances, native, tempEvents, events, call, calls>>
  BY DEF CommitStep, Finish, callVars
<1>2. UNCHANGED erasedKeys
  BY <1>1 DEF CommitVar
<1>3. \A b \in Addresses : Read(b)' = Read(b) /\ Merged(b)' = Merged(b)
  <2> SUFFICES ASSUME NEW b \in Addresses PROVE Read(b)' = Read(b) /\ Merged(b)' = Merged(b)
    OBVIOUS
  <2>1. CASE v[2] = "plain"
    <3>1. /\ value' = [value EXCEPT ![v[1]] = Read(v[1])]
          /\ valuePtr' = [valuePtr EXCEPT ![v[1]] = Null]
          /\ UNCHANGED <<map, mapPtr>>
      BY <1>1, <2>1 DEF CommitVar
    <3>2. Read(b)' = Read(b)
      BY <3>1 DEF Read, IInv, TypeOK
    <3> QED BY <1>2, <3>1, <3>2 DEF Merged
  <2>2. CASE v[2] # "plain"
    <3>1. /\ map' = [map EXCEPT ![v[1]] = Merged(v[1])]
          /\ mapPtr' = [mapPtr EXCEPT ![v[1]] = NoMap]
          /\ UNCHANGED <<value, valuePtr>>
      BY <1>1, <2>2 DEF CommitVar
    <3>2. CASE b = v[1]
      <4>1. map'[b] = Merged(b) /\ mapPtr'[b] = NoMap
        BY <3>1, <3>2 DEF IInv, TypeOK
      <4>2. Merged(b)' = Merged(b)
        BY <1>2, <4>1 DEF Merged, NoMap
      <4> QED BY <3>1, <4>2 DEF Read
    <3>3. CASE b # v[1]
      <4>1. map'[b] = map[b] /\ mapPtr'[b] = mapPtr[b]
        BY <3>1, <3>3 DEF IInv, TypeOK
      <4> QED BY <1>2, <3>1, <4>1 DEF Read, Merged
    <3> QED BY <3>2, <3>3
  <2> QED BY <2>1, <2>2
<1>4. AllEvents' = AllEvents
  BY <1>1 DEF AllEvents
<1>5. Committing' = Committing
  BY <1>1, <1>3, <1>4 DEF Committing, StoreOf
<1>6. erased' = erased /\ mode' = mode
  BY <1>1, <1>2 DEF erased, mode
<1> QED BY <1>1, <1>5, <1>6 DEF Atomic!vars, store, working, busy

LEMMA RevertStepRefines ==
  ASSUME IInv, IInv', RevertStep
  PROVE  UNCHANGED Atomic!vars
<1> DEFINE v == used[Len(used)]
<1>1. /\ pc = "revert" /\ pc' = "revert" /\ used # <<>> /\ RevertVar(v)
      /\ UNCHANGED <<contracts, recent, value, map, native, events, call>>
  BY DEF RevertStep, Finish, RevertVar, callVars
<1>2. Committed' = Committed
  BY <1>1 DEF Committed, StoreOf
<1>3. v \in registered /\ v \in Variables
  <2>1. Len(used) \in 1..Len(used)
    BY <1>1, EmptySeq, LenProperties DEF IInv, TypeOK
  <2> QED BY <2>1 DEF IInv, UsedOnce, TypeOK
<1>4. \A a \in Addresses : \/ <<a, "map">> \in registered /\ erasedKeys'[a] = {}
                           \/ /\ erasedKeys'[a] = erasedKeys[a]
                              /\ <<a, "map">> \in registered' <=> <<a, "map">> \in registered
  <2>1. v = <<v[1], v[2]>> /\ v[1] \in Addresses /\ v[2] \in {"plain", "map"}
    BY <1>3, VariablesLemma
  <2>2. registered' = registered \ {v}
    BY <1>1 DEF RevertVar
  <2>3. CASE v[2] = "plain"
    <3>1. UNCHANGED erasedKeys
      BY <1>1, <2>3 DEF RevertVar
    <3>2. \A a \in Addresses : <<a, "map">> # v
      BY <2>1, <2>3
    <3> QED BY <2>2, <3>1, <3>2
  <2>4. CASE v[2] = "map"
    <3>1. erasedKeys' = [erasedKeys EXCEPT ![v[1]] = {}]
      BY <1>1, <2>4 DEF RevertVar
    <3> SUFFICES ASSUME NEW a \in Addresses
                 PROVE  \/ <<a, "map">> \in registered /\ erasedKeys'[a] = {}
                        \/ /\ erasedKeys'[a] = erasedKeys[a]
                           /\ <<a, "map">> \in registered' <=> <<a, "map">> \in registered
      OBVIOUS
    <3>2. CASE a = v[1]
      <4>1. <<a, "map">> = v
        BY <2>1, <2>4, <3>2
      <4>2. erasedKeys'[a] = {}
        BY <3>1, <3>2 DEF IInv, TypeOK
      <4> QED BY <1>3, <4>1, <4>2
    <3>3. CASE a # v[1]
      <4>1. <<a, "map">> # v
        BY <2>1, <3>3
      <4>2. erasedKeys'[a] = erasedKeys[a]
        BY <3>1, <3>3 DEF IInv, TypeOK
      <4> QED BY <2>2, <4>1, <4>2
    <3> QED BY <3>2, <3>3
  <2> QED BY <2>1, <2>3, <2>4
<1>5. erased' = erased /\ mode' = mode
  BY <1>1, <1>4 DEF erased, mode
<1> QED BY <1>1, <1>2, <1>5 DEF Atomic!vars, store, working, busy

LEMMA CommitEndRefines ==
  ASSUME IInv, IInv', CommitEnd
  PROVE  UNCHANGED Atomic!vars
<1>1. /\ pc = "commit" /\ pc' = "idle" /\ used = <<>> /\ used' = <<>> /\ recent' = {}
      /\ events' = AllEvents
      /\ UNCHANGED <<contracts, value, map, erasedKeys, native, call>>
  BY DEF CommitEnd, stores, AllEvents
<1>2. (Visible = Committed)'
  <2>1. (IInv /\ used = <<>> /\ recent = {} => Visible = Committed)'
    BY VisibleCommitted, PTL
  <2> QED BY <1>1, <2>1
<1>3. \A a \in Addresses : Read(a) = value[a] /\ Merged(a) = map[a]
  BY <1>1, NothingPending
<1>4. Committed' = Committing
  <2>1. contracts' \ recent' = contracts
    BY <1>1
  <2> QED BY <1>1, <1>3, <2>1 DEF Committing, Committed, StoreOf
<1>5. erased' = erased /\ mode' = mode
  BY <1>1 DEF erased, mode
<1> QED BY <1>1, <1>2, <1>4, <1>5 DEF Atomic!vars, store, working, busy

LEMMA RevertEndRefines ==
  ASSUME IInv, IInv', RevertEnd
  PROVE  UNCHANGED Atomic!vars
<1>1. /\ pc = "revert" /\ pc' = "idle" /\ used = <<>> /\ used' = <<>> /\ recent' = {}
      /\ contracts' = contracts \ recent
      /\ value' = Destroyed(value, Zero) /\ map' = Destroyed(map, NoMap)
      /\ erasedKeys' = Destroyed(erasedKeys, {})
      /\ UNCHANGED <<native, events, call>>
  BY DEF RevertEnd
<1>2. (Visible = Committed)'
  <2>1. (IInv /\ used = <<>> /\ recent = {} => Visible = Committed)'
    BY VisibleCommitted, PTL
  <2> QED BY <1>1, <2>1
<1>3. \A a \in Addresses : a \in contracts \ recent => value'[a] = value[a] /\ map'[a] = map[a]
  BY <1>1 DEF Destroyed
<1>4. contracts' \ recent' = contracts \ recent
  BY <1>1
<1>5. Committed' = Committed
  BY <1>1, <1>3, <1>4 DEF Committed, StoreOf
<1>6. erased' = erased /\ mode' = mode
  <2>1. registered = {}
    BY <1>1 DEF IInv, UsedOnce
  <2>2. \A a \in Addresses : erasedKeys'[a] = IF a \in recent THEN {} ELSE erasedKeys[a]
    BY <1>1 DEF Destroyed
  <2> QED BY <1>1, <2>1, <2>2 DEF erased, mode
<1> QED BY <1>1, <1>2, <1>5, <1>6 DEF Atomic!vars, store, working, busy

\* Calls of contracts are atomic, for any contracts, keys and values and any number
\* of calls, simulations and views: a transaction that succeeds leaves what its
\* function saw, but for the entries in erasedKeys_ and for balances that a function
\* that is not payable changed; anything else leaves no trace (ImplementsAtomicCalls).
THEOREM CallsAreAtomic == Spec => ImplementsAtomicCalls
<1>1. Init => Atomic!Init
  BY DEF Init, Atomic!Init, working, busy, erased
<1>2. IInv /\ IInv' /\ [Next]_vars => [Atomic!Next]_(Atomic!vars)
  <2> SUFFICES ASSUME IInv, IInv', [Next]_vars PROVE [Atomic!Next]_(Atomic!vars)
    OBVIOUS
  <2>1. CASE UNCHANGED vars
    <3>1. /\ Committed' = Committed /\ Visible' = Visible /\ Committing' = Committing
          /\ Seen' = Seen
      BY <2>1 DEF vars, Committed, Visible, Committing, Seen, StoreOf, Read, Find, FoundMaps,
                  Merged, Paid, AllEvents
    <3>2. erased' = erased /\ mode' = mode
      BY <2>1 DEF vars, erased, mode
    <3> QED BY <2>1, <3>1, <3>2 DEF vars, Atomic!vars, store, working, busy
  <2> QED BY <2>1, BeginRefines, OperationRefines, ViewRefines, SucceedRefines, FailRefines,
             CommitStepRefines, RevertStepRefines, CommitEndRefines, RevertEndRefines
          DEF Next, Atomic!Next
<1> QED BY <1>1, <1>2, CallsInvariant, PTL DEF Spec, ImplementsAtomicCalls, Atomic!Spec
=============================================================================
