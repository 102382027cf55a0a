------------------------------- MODULE TifsLock -------------------------------
(***************************************************************************)
(* The whole-file advisory lock of one regular file (tikv_fs.rs setlk,     *)
(* setlkw and release), used by several lock owners at once.              *)
(*                                                                         *)
(* The lock state is the lock_state field of the inode record:             *)
(* [type |-> F_UNLCK | F_RDLCK | F_WRLCK, owners |-> owner_set].          *)
(* A setlk request runs one transaction (SetlkTxn).  When that returns     *)
(* Ok(false), setlk calls setlkw, which loops over a second transaction    *)
(* (SetlkwTxn) until it returns Ok(true) or an error.                      *)
(*                                                                         *)
(* Backend "tikv": a transaction reads and writes the inode key; two that  *)
(* write it conflict and one is retried, so each transaction is one step.  *)
(* Backend "mem": read_inode and save_inode each take the entry_map mutex  *)
(* on their own, so another owner's steps can come between the read       *)
(* (into snap) and the save.                                               *)
(*                                                                         *)
(* What the owners (the open files of processes) do is bounded by Env:     *)
(* "convert"       a holder may ask for another lock type (upgrade,        *)
(*                 downgrade, re-lock) and a non-holder may unlock;        *)
(* "exit_holding"  a process may close its file while holding the lock.   *)
(***************************************************************************)
EXTENDS Naturals, FiniteSets

CONSTANTS
  Owners,     \* lock owners (model values)
  Backend,    \* "tikv" or "mem"
  Env         \* subset of {"convert", "exit_holding"}

ASSUME Backend \in {"tikv", "mem"}
ASSUME Env \subseteq {"convert", "exit_holding"}

VARIABLES
  lock,   \* lock_state of the inode
  pc,     \* per owner: "idle", "setlk", "setlk_save", "setlkw",
          \* "setlkw_save" or "exited"
  req,    \* per owner: the request in progress [typ, sleep]
  snap,   \* per owner: the lock state its transaction read (mem)
  held,   \* per owner: the lock it was told it holds: "none", "rd", "wr"
  ret     \* per owner: how its last request returned: "none", "ok", "err"

vars == <<lock, pc, req, snap, held, ret>>

F_RDLCK == "F_RDLCK"
F_WRLCK == "F_WRLCK"
F_UNLCK == "F_UNLCK"
LockTypes == {F_RDLCK, F_WRLCK, F_UNLCK}

\* LockState::default(): unlocked, no owners.
UnlockedState == [type |-> F_UNLCK, owners |-> {}]

\* The request of an idle owner (none).
NoRequest == [typ |-> F_UNLCK, sleep |-> FALSE]

-----------------------------------------------------------------------------
(* The transaction bodies, as functions of the lock state they read. Each  *)
(* returns [res, lock]: res is "ok" (Ok(true)), "again" (Ok(false)) or     *)
(* "err" (InvalidLock); lock is the state saved when res is "ok".          *)

Result(res, l) == [res |-> res, lock |-> l]

\* Conflict: Ok(false) when the caller sleeps, InvalidLock otherwise.
Conflict(l, sleep) == Result(IF sleep THEN "again" ELSE "err", l)

\* setlk F_RDLCK: conflict on a write lock (whoever holds it), otherwise
\* join the owners as a reader.
SetlkRd(l, o, sleep) ==
  IF l.type = F_WRLCK THEN Conflict(l, sleep)
  ELSE Result("ok", [type |-> F_RDLCK, owners |-> l.owners \cup {o}])

\* Mutant: setlk that upgrades a read lock whoever else holds it.
SetlkWrAnyReader(l, o, sleep) ==
  CASE l.type = F_RDLCK -> Result("ok", [l EXCEPT !.type = F_WRLCK])
    [] l.type = F_UNLCK -> Result("ok", [type |-> F_WRLCK, owners |-> {o}])
    [] l.type = F_WRLCK -> Conflict(l, sleep)

\* setlk F_WRLCK: upgrade when o is the only reader, take an unlocked
\* lock (clearing the owners), conflict on any other state.
SetlkWr(l, o, sleep) ==
  CASE l.type = F_RDLCK ->
         IF l.owners = {o} THEN Result("ok", [l EXCEPT !.type = F_WRLCK])
         ELSE Conflict(l, sleep)
    [] l.type = F_UNLCK -> Result("ok", [type |-> F_WRLCK, owners |-> {o}])
    [] l.type = F_WRLCK -> Conflict(l, sleep)

\* Mutant: unlock that clears every owner instead of removing o.
UnlockClearAll(l, o) ==
  Result("ok", [type |-> F_UNLCK, owners |-> {}])

\* Mutant: unlock that leaves the type as it was when the last owner goes.
UnlockNoReset(l, o) ==
  Result("ok", [l EXCEPT !.owners = @ \ {o}])

\* setlk F_UNLCK: leave the owners; the last one out unlocks.
Unlock(l, o) ==
  LET rest == l.owners \ {o}
  IN  Result("ok", [type |-> IF rest = {} THEN F_UNLCK ELSE l.type,
                    owners |-> rest])

\* Mutant: setlk F_RDLCK that sets the type and forgets to add the owner.
SetlkNoInsert(l, o, r) ==
  CASE r.typ = F_RDLCK ->
         IF l.type = F_WRLCK THEN Conflict(l, r.sleep)
         ELSE Result("ok", [l EXCEPT !.type = F_RDLCK])
    [] r.typ = F_WRLCK -> SetlkWr(l, o, r.sleep)
    [] r.typ = F_UNLCK -> Unlock(l, o)

\* The transaction of setlk (the directory check is left out: only a
\* regular file is locked here).
Setlk(l, o, r) ==
  CASE r.typ = F_RDLCK -> SetlkRd(l, o, r.sleep)
    [] r.typ = F_WRLCK -> SetlkWr(l, o, r.sleep)
    [] r.typ = F_UNLCK -> Unlock(l, o)

\* One transaction of the setlkw loop.  F_WRLCK: wait while more than one
\* owner, take it when there is none or o is the one, InvalidLock when the
\* one owner is another.  F_RDLCK: wait while write-locked, else join.
Setlkw(l, o, typ) ==
  CASE typ = F_WRLCK ->
         (CASE Cardinality(l.owners) > 1 -> Result("again", l)
            [] l.owners = {} -> Result("ok", [type |-> F_WRLCK, owners |-> {o}])
            [] l.owners = {o} -> Result("ok", [l EXCEPT !.type = F_WRLCK])
            [] OTHER -> Result("err", l))
    [] typ = F_RDLCK ->
         IF l.type = F_WRLCK THEN Result("again", l)
         ELSE Result("ok", [type |-> F_RDLCK, owners |-> l.owners \cup {o}])

\* What the owner is told it holds after a request returned Ok.
Granted(typ) ==
  CASE typ = F_RDLCK -> "rd" [] typ = F_WRLCK -> "wr" [] typ = F_UNLCK -> "none"

-----------------------------------------------------------------------------
(* Requests and the steps that serve them.                                 *)

\* A request returned: Ok saves the new lock state and tells the owner
\* what it holds; an error leaves both alone.  The request and the state
\* it read were locals of the request and go out of scope.
Return(o, out) ==
  /\ pc' = [pc EXCEPT ![o] = "idle"]
  /\ ret' = [ret EXCEPT ![o] = out.res]
  /\ req' = [req EXCEPT ![o] = NoRequest]
  /\ snap' = [snap EXCEPT ![o] = UnlockedState]
  /\ IF out.res = "ok"
     THEN /\ lock' = out.lock
          /\ held' = [held EXCEPT ![o] = Granted(req[o].typ)]
     ELSE UNCHANGED <<lock, held>>

\* setlk after its transaction (lines 825-832): Ok(false) goes on to the
\* setlkw loop with the lock state untouched.
SetlkDone(o, out) ==
  IF out.res = "again"
  THEN /\ pc' = [pc EXCEPT ![o] = "setlkw"]
       /\ snap' = [snap EXCEPT ![o] = UnlockedState]
       /\ UNCHANGED <<lock, held, ret, req>>
  ELSE Return(o, out)

\* setlkw after one transaction: Ok(false) loops, Ok(true) and an error
\* end setlk (an error is returned by setlk's `?`).
SetlkwDone(o, out) ==
  IF out.res = "again"
  THEN /\ pc' = [pc EXCEPT ![o] = "setlkw"]
       /\ snap' = [snap EXCEPT ![o] = UnlockedState]
       /\ UNCHANGED <<lock, held, ret, req>>
  ELSE Return(o, out)

\* The kernel delivers setlk(typ, sleep) for an idle owner.  Unless Env
\* has "convert", owners lock only what they do not hold and unlock only
\* what they hold.
Request(o, typ, sleep) ==
  /\ pc[o] = "idle"
  /\ "convert" \notin Env =>
       IF typ = F_UNLCK THEN held[o] # "none" ELSE held[o] = "none"
  /\ ~(typ = F_UNLCK /\ sleep)
  /\ pc' = [pc EXCEPT ![o] = "setlk"]
  /\ req' = [req EXCEPT ![o] = [typ |-> typ, sleep |-> sleep]]
  /\ UNCHANGED <<lock, snap, held, ret>>

\* tikv: the setlk transaction as one step.
SetlkTxn(o) ==
  /\ Backend = "tikv" /\ pc[o] = "setlk"
  /\ SetlkDone(o, Setlk(lock, o, req[o]))

\* mem: read_inode of setlk, under its own lock of entry_map.
SetlkRead(o) ==
  /\ Backend = "mem" /\ pc[o] = "setlk"
  /\ snap' = [snap EXCEPT ![o] = lock]
  /\ pc' = [pc EXCEPT ![o] = "setlk_save"]
  /\ UNCHANGED <<lock, req, held, ret>>

\* mem: the rest of setlk, computed from the state read, and its save.
SetlkSave(o) ==
  /\ pc[o] = "setlk_save"
  /\ SetlkDone(o, Setlk(snap[o], o, req[o]))

\* tikv: one iteration of the setlkw loop.  An iteration that returns
\* Ok(false) writes nothing and is a stuttering step.
SetlkwTxn(o) ==
  /\ Backend = "tikv" /\ pc[o] = "setlkw"
  /\ SetlkwDone(o, Setlkw(lock, o, req[o].typ))

SetlkwRead(o) ==
  /\ Backend = "mem" /\ pc[o] = "setlkw"
  /\ snap' = [snap EXCEPT ![o] = lock]
  /\ pc' = [pc EXCEPT ![o] = "setlkw_save"]
  /\ UNCHANGED <<lock, req, held, ret>>

SetlkwSave(o) ==
  /\ pc[o] = "setlkw_save"
  /\ SetlkwDone(o, Setlkw(snap[o], o, req[o].typ))

\* release: closes the handle (Txn::close) and ignores lock_owner and the
\* flags, so the lock state is left as it is.  The owner is gone.
Release(o) ==
  /\ pc[o] = "idle"
  /\ "exit_holding" \notin Env => held[o] = "none"
  /\ pc' = [pc EXCEPT ![o] = "exited"]
  /\ held' = [held EXCEPT ![o] = "none"]
  /\ UNCHANGED <<lock, req, snap, ret>>

\* The steps of setlk and setlkw in each build (the backend is chosen
\* when the filesystem is built, so a run has the steps of one of them).
TikvSteps(o) == SetlkTxn(o) \/ SetlkwTxn(o)

MemSteps(o) ==
  \/ SetlkRead(o)
  \/ SetlkSave(o)
  \/ SetlkwRead(o)
  \/ SetlkwSave(o)

Next ==
  \E o \in Owners :
    \/ \E typ \in LockTypes, sleep \in BOOLEAN : Request(o, typ, sleep)
    \/ IF Backend = "tikv" THEN TikvSteps(o) ELSE MemSteps(o)
    \/ Release(o)

Init ==
  /\ lock = UnlockedState
  /\ pc = [o \in Owners |-> "idle"]
  /\ req = [o \in Owners |-> NoRequest]
  /\ snap = [o \in Owners |-> UnlockedState]
  /\ held = [o \in Owners |-> "none"]
  /\ ret = [o \in Owners |-> "none"]

Spec == Init /\ [][Next]_vars

(***************************************************************************)
(* Fairness.  A started transaction finishes (WF).  The setlkw loop polls  *)
(* without delay or backoff, so it runs whenever the lock lets it through  *)
(* infinitely often (SF on the iterations that change state).  And, as an  *)
(* assumption on the programs using the file, an owner that holds a lock   *)
(* and is idle eventually unlocks it (or closes the file).                 *)
(***************************************************************************)
Fairness ==
  \A o \in Owners :
    /\ WF_vars(SetlkTxn(o))
    /\ SF_vars(SetlkwTxn(o))
    /\ WF_vars(held[o] # "none" /\ \E s \in BOOLEAN : Request(o, F_UNLCK, s))

LiveSpec == Spec /\ Fairness

-----------------------------------------------------------------------------
(* Properties.                                                             *)

\* Exclusive locking as setlk/setlkw grant it: while an owner has been
\* told it holds the write lock, no other owner has been told it holds
\* any lock.
MutualExclusion ==
  \A o1, o2 \in Owners :
    o1 # o2 /\ held[o1] = "wr" => held[o2] = "none"

\* Spec invariant 7, and a write lock has one owner: the unlock branch
\* must reset the type when the last owner leaves, and every grant must
\* add its owner.
LockStateConsistent ==
  /\ (lock.owners = {}) = (lock.type = F_UNLCK)
  /\ lock.type = F_WRLCK => Cardinality(lock.owners) = 1

\* The owner_set saved in the inode is exactly the set of owners that were
\* told they hold the lock (while their file is open): no grant and no
\* unlock is lost or applied to the wrong owner.
HoldersAreOwners ==
  \A o \in Owners :
    pc[o] # "exited" => ((o \in lock.owners) = (held[o] # "none"))

\* A blocking setlk (F_SETLKW) that started to wait eventually returns:
\* the setlkw loop does not spin forever.
WaitEventuallyReturns ==
  \A o \in Owners : pc[o] = "setlkw" ~> pc[o] = "idle"

\* A blocking request that waits ends only by being granted: the spec's
\* "conflict: sleep => retry loop", never InvalidLock.
BlockingNeverFails ==
  [][\A o \in Owners :
       pc[o] = "setlkw" /\ pc'[o] = "idle" => ret'[o] = "ok"]_vars

==============================================================================
