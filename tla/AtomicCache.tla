---------------------------- MODULE AtomicCache ----------------------------
(***************************************************************************)
(* What an output cache promises to calls that overlap: each takes effect  *)
(* at one instant between its begin and its end, and is answered by what   *)
(* the cache held at that instant.  A call that fails takes effect then,   *)
(* or never; its caller cannot tell.  Entries may vanish at any time.      *)
(***************************************************************************)
CONSTANTS Calls, DocumentKeys, NoEntry

VARIABLES
  cached,   \* the entry under each key, or NoEntry; an entry is its call
  state,    \* "idle", "called", "returned" or "thrown"
  op, key,  \* what a call was given
  returned  \* its answer, or NoEntry

vars == <<cached, state, op, key, returned>>

Init ==
  /\ cached = [k \in DocumentKeys |-> NoEntry]
  /\ state = [c \in Calls |-> "idle"]
  /\ op \in [Calls -> {"Get", "Add", "Set", "Remove"}]
  /\ key \in [Calls -> DocumentKeys]
  /\ returned = [c \in Calls |-> NoEntry]

\* An argument that is refused makes the call throw before it does anything.
Begin(c) ==
  /\ state[c] = "idle"
  /\ \E s \in {"called", "thrown"} : state' = [state EXCEPT ![c] = s]
  /\ \E o \in {"Get", "Add", "Set", "Remove"} : op' = [op EXCEPT ![c] = o]
  /\ \E k \in DocumentKeys : key' = [key EXCEPT ![c] = k]
  /\ UNCHANGED <<cached, returned>>

Effect(c) ==
  CASE op[c] = "Add" /\ cached[key[c]] = NoEntry -> [cached EXCEPT ![key[c]] = c]
    [] op[c] = "Set" -> [cached EXCEPT ![key[c]] = c]
    [] op[c] = "Remove" -> [cached EXCEPT ![key[c]] = NoEntry]
    [] OTHER -> cached

\* Set and Remove answer nothing.
Answer(c) ==
  CASE op[c] = "Get" -> cached[key[c]]
    [] op[c] = "Add" -> IF cached[key[c]] = NoEntry THEN c ELSE cached[key[c]]
    [] OTHER -> NoEntry

Succeed(c) ==
  /\ state[c] = "called"
  /\ cached' = Effect(c)
  /\ returned' = [returned EXCEPT ![c] = Answer(c)]
  /\ state' = [state EXCEPT ![c] = "returned"]
  /\ UNCHANGED <<op, key>>

Fail(c) ==
  /\ state[c] = "called"
  /\ cached' \in {cached, Effect(c)}
  /\ \E s \in {"returned", "thrown"} : state' = [state EXCEPT ![c] = s]
  /\ UNCHANGED <<op, key, returned>>

Vanish ==
  /\ UNCHANGED <<state, op, key, returned>>
  /\ cached' \in [DocumentKeys -> Calls \cup {NoEntry}]
  /\ \A k \in DocumentKeys : cached'[k] \in {cached[k], NoEntry}

Next == Vanish \/ \E c \in Calls : Begin(c) \/ Succeed(c) \/ Fail(c)

Spec == Init /\ [][Next]_vars
=============================================================================
