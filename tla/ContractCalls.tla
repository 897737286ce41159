--------------------------- MODULE ContractCalls ---------------------------
(***************************************************************************)
(* A call of a C++ contract: ContractManager, its ContractCallLogger and    *)
(* ContractFactory, the event manager, and the variables of the contracts  *)
(* that keep a value and a temporary (SafeUint, SafeInt, SafeBool,         *)
(* SafeString, and SafeUnorderedMap with its erased keys).                 *)
(*                                                                         *)
(* Each contract has one plain variable and one map; a running function    *)
(* reads and writes them in any order, of any contract (nested calls share *)
(* the logger and every exception ends the whole call).  Transactions hold *)
(* stateMutex_ exclusively, eth_estimateGas (the simulation) and eth_call  *)
(* (the views) share it, so views interleave with a simulation.            *)
(***************************************************************************)
EXTENDS Integers, Sequences, FiniteSets, Functions

CONSTANTS
  Addresses,   \* addresses at which contracts can live
  Deployed,    \* the contracts that exist at the start
  Users,       \* accounts that are not contracts
  Keys,        \* keys of the maps
  Values,      \* values of variables and of the entries of the maps
  Zero,        \* the value of a fresh variable
  Null,        \* a null pointer, and an entry that a map does not hold
  Genesis,     \* native balances at the start: a function on Accounts
  MaxCalls,    \* bound: calls in a behaviour
  MaxOps       \* bound: operations of a function

Accounts == Addresses \cup Users

ASSUME ConstantsAssumption ==
  /\ Deployed \subseteq Addresses /\ Addresses \cap Users = {}
  /\ IsFiniteSet(Addresses) /\ IsFiniteSet(Users)
  /\ Zero \in Values /\ Null \notin Values
  /\ Genesis \in [Accounts -> Nat] /\ Null \notin Nat
  /\ MaxCalls \in Nat /\ MaxOps \in Nat

VARIABLES
  contracts,   \* ContractManager::contracts_
  recent,      \* ContractFactory::recentContracts_
  value,       \* value_ of the plain variable of a contract
  valuePtr,    \* its temporary, or Null
  map,         \* map_ of a contract: Null for a missing key
  mapPtr,      \* the temporary entries, Null where there is none
  erasedKeys,  \* erasedKeys_ (a null pointer is an empty set)
  registered,  \* the variables whose registered_ flag is set
  used,        \* ContractCallLogger::usedVars_
  balances,    \* ContractCallLogger::balances_, Null where there is no entry
  native,      \* current balances of the accounts in State
  tempEvents,  \* EventManager::tempEvents_
  events,      \* EventManager::events_
  call,        \* the running call: its kind, and whether its function is payable
  pc,          \* where the call is
  calls,       \* number of calls so far
  ops          \* number of operations of the running function

vars == <<contracts, recent, value, valuePtr, map, mapPtr, erasedKeys, registered,
          used, balances, native, tempEvents, events, call, pc, calls, ops>>

stores == <<value, valuePtr, map, mapPtr, erasedKeys, registered>>

NoMap == [k \in Keys |-> Null]

NoBalances == [a \in Accounts |-> Null]

Variables == Addresses \X {"plain", "map"}

TypeOK ==
  /\ contracts \subseteq Addresses /\ recent \subseteq contracts
  /\ value \in [Addresses -> Values]
  /\ valuePtr \in [Addresses -> Values \cup {Null}]
  /\ map \in [Addresses -> [Keys -> Values \cup {Null}]]
  /\ mapPtr \in [Addresses -> [Keys -> Values \cup {Null}]]
  /\ erasedKeys \in [Addresses -> SUBSET Keys]
  /\ registered \subseteq Variables
  /\ used \in Seq(Variables)
  /\ balances \in [Accounts -> Nat \cup {Null}]
  /\ native \in [Accounts -> Nat]
  /\ tempEvents \in Seq(Addresses)
  /\ events \in Seq([tx : 1..MaxCalls, log : Nat, by : Addresses])
  /\ call \in [kind : {"tx", "simulation"}, payable : BOOLEAN]
  /\ pc \in {"idle", "run", "commit", "revert"}
  /\ calls \in 0..MaxCalls /\ ops \in 0..MaxOps

-----------------------------------------------------------------------------
(* The Safe* variables.                                                    *)

\* What a read returns: the temporary, and the value when there is none.
Read(a) == IF valuePtr[a] # Null THEN valuePtr[a] ELSE value[a]

\* What contains, at and find see of a key (checkKeyAndCopy, checkKeyAndThrow).
Find(a, k) ==
  IF mapPtr[a][k] # Null THEN mapPtr[a][k]
  ELSE IF k \in erasedKeys[a] THEN Null ELSE map[a][k]

\* SafeBase::markAsUsed: the first use in a call registers the variable.
MarkAsUsed(v) ==
  /\ used' = IF v \in registered THEN used ELSE Append(used, v)
  /\ registered' = registered \cup {v}

\* Mutant: the assignment forgets markAsUsed.
WriteUnmarked(a, x) ==
  /\ valuePtr' = [valuePtr EXCEPT ![a] = x]
  /\ UNCHANGED <<used, registered, value, map, mapPtr, erasedKeys>>

\* operator= and its relatives of a plain variable.
Write(a, x) ==
  /\ valuePtr' = [valuePtr EXCEPT ![a] = x]
  /\ MarkAsUsed(<<a, "plain">>)
  /\ UNCHANGED <<value, map, mapPtr, erasedKeys>>

\* operator[], at, insert_or_assign and the like, followed by an assignment.
WriteKey(a, k, x) ==
  /\ mapPtr' = [mapPtr EXCEPT ![a][k] = x]
  /\ MarkAsUsed(<<a, "map">>)
  /\ UNCHANGED <<value, valuePtr, map, erasedKeys>>

\* SafeUnorderedMap::erase.
EraseKey(a, k) ==
  /\ erasedKeys' = [erasedKeys EXCEPT ![a] = @ \cup {k}]
  /\ mapPtr' = [mapPtr EXCEPT ![a][k] = Null]
  /\ MarkAsUsed(<<a, "map">>)
  /\ UNCHANGED <<value, valuePtr, map>>

\* The const reads of a view: check() and checkKeyAndCopy make copies and register
\* nothing.
Copy(a, k) ==
  /\ valuePtr' = [valuePtr EXCEPT ![a] = Read(a)]
  /\ mapPtr' = [mapPtr EXCEPT ![a][k] = Find(a, k)]
  /\ UNCHANGED <<value, map, erasedKeys, registered, used>>

\* What commit() leaves in map_: the temporary entries, without the erased keys.
Merged(a) ==
  [k \in Keys |-> IF k \in erasedKeys[a] THEN Null
                  ELSE IF mapPtr[a][k] # Null THEN mapPtr[a][k] ELSE map[a][k]]

\* commit() of a variable.  The map keeps its erasedKeys_.
CommitVar(v) ==
  LET a == v[1]
  IN  /\ IF v[2] = "plain"
           THEN /\ value' = [value EXCEPT ![a] = Read(a)]
                /\ valuePtr' = [valuePtr EXCEPT ![a] = Null]
                /\ UNCHANGED <<map, mapPtr>>
           ELSE /\ map' = [map EXCEPT ![a] = Merged(a)]
                /\ mapPtr' = [mapPtr EXCEPT ![a] = NoMap]
                /\ UNCHANGED <<value, valuePtr>>
      /\ registered' = registered \ {v}
      /\ UNCHANGED erasedKeys

\* Mutant: the revert of a map forgets its temporary entries.
RevertKeepsMap(v) ==
  /\ valuePtr' = IF v[2] = "plain" THEN [valuePtr EXCEPT ![v[1]] = Null] ELSE valuePtr
  /\ erasedKeys' = IF v[2] = "map" THEN [erasedKeys EXCEPT ![v[1]] = {}] ELSE erasedKeys
  /\ registered' = registered \ {v}
  /\ UNCHANGED <<value, map, mapPtr>>

\* revert() of a variable.
RevertVar(v) ==
  LET a == v[1]
  IN  /\ IF v[2] = "plain"
           THEN /\ valuePtr' = [valuePtr EXCEPT ![a] = Null]
                /\ UNCHANGED <<mapPtr, erasedKeys>>
           ELSE /\ mapPtr' = [mapPtr EXCEPT ![a] = NoMap]
                /\ erasedKeys' = [erasedKeys EXCEPT ![a] = {}]
                /\ UNCHANGED valuePtr
      /\ registered' = registered \ {v}
      /\ UNCHANGED <<value, map>>

-----------------------------------------------------------------------------
(* A call.                                                                 *)

callVars == <<call, pc, calls>>

\* A function that is running does one thing more.
Operation ==
  /\ pc = "run" /\ ops < MaxOps
  /\ ops' = ops + 1
  /\ UNCHANGED callVars

\* callContract (transactions): a new logger, then the function runs.  State has
\* already moved the value of the transaction.
BeginCall ==
  /\ pc = "idle" /\ calls < MaxCalls
  /\ \E payable \in BOOLEAN : call' = [kind |-> "tx", payable |-> payable]
  /\ pc' = "run" /\ calls' = calls + 1 /\ ops' = 0
  /\ balances' = NoBalances
  /\ UNCHANGED <<contracts, recent, stores, used, native, tempEvents, events>>

\* ContractManagerInterface::populateBalance.
Populate(A) ==
  [a \in Accounts |-> IF a \in A /\ balances[a] = Null THEN native[a] ELSE balances[a]]

\* validateCallContractWithTx: the value is moved inside the logger only.
BeginSimulation ==
  /\ pc = "idle" /\ calls < MaxCalls
  /\ call' = [kind |-> "simulation", payable |-> TRUE]
  /\ pc' = "run" /\ calls' = calls + 1 /\ ops' = 0
  /\ \/ balances' = NoBalances
     \/ \E from \in Users, to \in contracts :
          /\ native[from] > 0
          /\ balances' = [NoBalances EXCEPT ![from] = native[from] - 1,
                                            ![to] = native[to] + 1]
  /\ UNCHANGED <<contracts, recent, stores, used, native, tempEvents, events>>

\* A function assigns variables of contracts.
UseVariables ==
  /\ Operation
  /\ \E a \in contracts :
       \/ \E x \in Values : Write(a, x)
       \/ \E k \in Keys, x \in Values : WriteKey(a, k, x)
       \/ \E k \in Keys : EraseKey(a, k)
  /\ UNCHANGED <<contracts, recent, balances, native, tempEvents, events>>

\* Mutant: the recipient's balance is not populated before it is credited.
SendUnpopulated(from, to, amount) ==
  LET b == Populate({from})
      got == IF b[to] = Null THEN 0 ELSE b[to]
  IN  /\ b[from] >= amount
      /\ balances' = IF from = to THEN b
                     ELSE [b EXCEPT ![from] = @ - amount, ![to] = got + amount]

\* sendTokens; it throws when the balance is too small.
SendTokens(from, to, amount) ==
  LET b == Populate({from, to})
  IN  /\ b[from] >= amount
      /\ balances' = IF from = to THEN b
                     ELSE [b EXCEPT ![from] = @ - amount, ![to] = @ + amount]

SendNative ==
  /\ Operation
  /\ \E from \in contracts, to \in Accounts : SendTokens(from, to, 1)
  /\ UNCHANGED <<contracts, recent, stores, used, native, tempEvents, events>>

\* ContractFactory::createNewContract.  The constructor assigns and commits the
\* variables before they may register.
CreateContract ==
  /\ Operation
  /\ \E a \in Addresses \ contracts, x \in Values :
       /\ contracts' = contracts \cup {a}
       /\ recent' = recent \cup {a}
       /\ value' = [value EXCEPT ![a] = x]
  /\ UNCHANGED <<valuePtr, map, mapPtr, erasedKeys, registered, used, balances, native,
                 tempEvents, events>>

\* emitContractEvent.
EmitEvent ==
  /\ Operation
  /\ \E a \in contracts : tempEvents' = Append(tempEvents, a)
  /\ UNCHANGED <<contracts, recent, stores, used, balances, native, events>>

\* eth_call of a view function, between calls or next to a simulation.
View ==
  /\ pc = "idle" \/ call.kind = "simulation"
  /\ \E a \in contracts, k \in Keys : Copy(a, k)
  /\ UNCHANGED <<contracts, recent, balances, native, tempEvents, events, callVars, ops>>

\* What processContractPayable writes.
Paid == [a \in Accounts |-> IF balances[a] = Null THEN native[a] ELSE balances[a]]

\* The function of a transaction returns: balances of a payable one are applied,
\* and the logger is told to commit.
Succeed ==
  /\ pc = "run" /\ call.kind = "tx"
  /\ native' = IF call.payable THEN Paid ELSE native
  /\ pc' = "commit"
  /\ UNCHANGED <<contracts, recent, stores, used, balances, tempEvents, events, call, calls, ops>>

\* An exception, or the end of a simulation.
Fail ==
  /\ pc = "run"
  /\ pc' = "revert"
  /\ UNCHANGED <<contracts, recent, stores, used, balances, native, tempEvents, events,
                 call, calls, ops>>

\* ~ContractCallLogger walks usedVars_ from the back.
Finish(Op(_)) ==
  /\ used # <<>>
  /\ Op(used[Len(used)])
  /\ used' = SubSeq(used, 1, Len(used) - 1)
  /\ UNCHANGED <<contracts, recent, balances, native, tempEvents, events, callVars, ops>>

CommitStep == pc = "commit" /\ Finish(CommitVar)

RevertStep == pc = "revert" /\ Finish(RevertVar)

\* The end of the destructor of a logger that commits, then commitEvents.
CommitEnd ==
  /\ pc = "commit" /\ used = <<>>
  /\ recent' = {} /\ balances' = NoBalances
  /\ events' = events \o [i \in 1..Len(tempEvents) |->
                            [tx |-> calls, log |-> i - 1, by |-> tempEvents[i]]]
  /\ tempEvents' = <<>>
  /\ pc' = "idle"
  /\ UNCHANGED <<contracts, stores, used, native, call, calls, ops>>

\* An object that is gone, as its successor at the same address will find it.
Destroyed(f, fresh) == [a \in Addresses |-> IF a \in recent THEN fresh ELSE f[a]]

\* The end of revert(): the contracts of the call are destroyed; then revertEvents.
RevertEnd ==
  /\ pc = "revert" /\ used = <<>>
  /\ contracts' = contracts \ recent
  /\ value' = Destroyed(value, Zero) /\ valuePtr' = Destroyed(valuePtr, Null)
  /\ map' = Destroyed(map, NoMap) /\ mapPtr' = Destroyed(mapPtr, NoMap)
  /\ erasedKeys' = Destroyed(erasedKeys, {})
  /\ recent' = {} /\ balances' = NoBalances /\ tempEvents' = <<>>
  /\ pc' = "idle"
  /\ UNCHANGED <<registered, used, native, events, call, calls, ops>>

Init ==
  /\ contracts = Deployed /\ recent = {}
  /\ value = [a \in Addresses |-> Zero] /\ valuePtr = [a \in Addresses |-> Null]
  /\ map = [a \in Addresses |-> NoMap] /\ mapPtr = [a \in Addresses |-> NoMap]
  /\ erasedKeys = [a \in Addresses |-> {}]
  /\ registered = {} /\ used = <<>>
  /\ balances = NoBalances /\ native = Genesis
  /\ tempEvents = <<>> /\ events = <<>>
  /\ call = [kind |-> "tx", payable |-> FALSE]
  /\ pc = "idle" /\ calls = 0 /\ ops = 0

Next ==
  \/ BeginCall \/ BeginSimulation
  \/ UseVariables \/ SendNative \/ CreateContract \/ EmitEvent \/ View
  \/ Succeed \/ Fail
  \/ CommitStep \/ RevertStep \/ CommitEnd \/ RevertEnd

Spec == Init /\ [][Next]_vars

-----------------------------------------------------------------------------
(* Properties.                                                             *)

\* usedVars_ holds each registered variable once (markAsUsed).
UsedOnce ==
  /\ registered = {used[i] : i \in 1..Len(used)}
  /\ \A i, j \in 1..Len(used) : used[i] = used[j] => i = j

\* The destructor of the logger calls commit() or revert() only on variables of
\* contracts that still exist (contractcalllogger.cpp: the variables first, the
\* contracts of a failed call after them).
UsedVarsOwned == \A i \in 1..Len(used) : used[i][1] \in contracts

\* What a view leaves behind in a variable that no call uses is a true copy, and a
\* key that is still in erasedKeys_ has left the map.
CopiesFaithful ==
  \A a \in Addresses :
    /\ <<a, "plain">> \notin registered => valuePtr[a] \in {Null, value[a]}
    /\ <<a, "map">> \notin registered =>
         \A k \in Keys : /\ mapPtr[a][k] \in {Null, map[a][k]}
                         /\ k \in erasedKeys[a] => map[a][k] = Null

\* Nothing is left of a contract that does not exist, or of a call that is over.
NothingLeft ==
  /\ \A a \in Addresses \ contracts :
       /\ value[a] = Zero /\ valuePtr[a] = Null
       /\ map[a] = NoMap /\ mapPtr[a] = NoMap /\ erasedKeys[a] = {}
  /\ pc = "idle" => used = <<>> /\ recent = {} /\ tempEvents = <<>> /\ balances = NoBalances

\* A call that runs has a number; the balances of a payable transaction have been
\* applied when the logger commits.
CallState ==
  /\ pc # "idle" => calls > 0
  /\ pc = "commit" => /\ call.kind = "tx"
                      /\ call.payable => \A a \in Accounts : balances[a] \in {Null, native[a]}

\* The inductive invariant of a call: whatever callContract, a simulation and the
\* views next to it have done, every temporary that differs from its value belongs
\* to a variable on the logger's list, so commit and revert miss none.
IInv ==
  TypeOK /\ UsedOnce /\ UsedVarsOwned /\ CopiesFaithful /\ NothingLeft /\ CallState

\* sendTokens, the logger's balances and processContractPayable neither create nor
\* destroy native tokens.
NativeConserved == SumFunction(native) = SumFunction(Genesis)

\* A store of the abstract specification: C are its contracts.
StoreOf(C, v, m, n, e) ==
  [contracts |-> C, native |-> n, events |-> e,
   value |-> [a \in Addresses |-> IF a \in C THEN v[a] ELSE Zero],
   map |-> [a \in Addresses |-> IF a \in C THEN m[a] ELSE NoMap]]

\* The events, those of the running call among them.
AllEvents ==
  events \o [i \in 1..Len(tempEvents) |->
               [tx |-> calls, log |-> i - 1, by |-> tempEvents[i]]]

\* What every read returns: all maps as find, at and contains show them.
FoundMaps == [a \in Addresses |-> [k \in Keys |-> Find(a, k)]]

\* What the running function sees.
Seen ==
  StoreOf(contracts, [a \in Addresses |-> Read(a)], FoundMaps, Paid, AllEvents)

\* What the logger is committing.
Committing ==
  StoreOf(contracts, [a \in Addresses |-> Read(a)], [a \in Addresses |-> Merged(a)],
          native, AllEvents)

\* What was committed before the running call.
Committed == StoreOf(contracts \ recent, value, map, native, events)

\* What the views see.
Visible == StoreOf(contracts, [a \in Addresses |-> Read(a)], FoundMaps, native, events)

store == IF pc = "commit" THEN Committing ELSE IF pc = "idle" THEN Visible ELSE Committed

working == IF pc = "run" THEN Seen ELSE store

busy == pc = "run"

mode == IF call.kind = "simulation" THEN "simulation"
        ELSE IF call.payable THEN "payable" ELSE "unpaid"

\* The entries in erasedKeys_, without those that the revert under way forgets.
erased ==
  {e \in Addresses \X Keys :
     /\ e[2] \in erasedKeys[e[1]]
     /\ pc = "revert" => e[1] \notin recent /\ <<e[1], "map">> \notin registered}

Atomic == INSTANCE AtomicCalls

\* A call is atomic (callContract, ~ContractCallLogger, commit and revert of the
\* variables): what the function of a transaction saw when it returned, variables,
\* maps, new contracts, events and balances, takes effect at once, save that an entry
\* whose key is in erasedKeys_ (erased in this call, or in an earlier one that was
\* committed, since commit() keeps erasedKeys_) is missing even if it was written
\* after that, and that balances change only when the function is payable.  A failed
\* call and a simulation change nothing that a later call or view sees.
ImplementsAtomicCalls == Atomic!Spec
=============================================================================
