--------------------------- MODULE KeystoreCracker ---------------------------
(***************************************************************************)
(* The presale-wallet password cracker (bins/mazze_store/src/crack.rs).   *)
(*                                                                         *)
(* run() wraps the candidate passwords in a shared Mutex<VecDeque>, opens *)
(* the wallet and spawns one look_for_password thread per CPU, then joins *)
(* them.  Each thread loops: if the queue is not empty, it takes a        *)
(* package with split_off(min(len, 32)) under the lock, and tries every   *)
(* password of the package; the one that decrypts the wallet clears the   *)
(* queue and ends its thread.                                             *)
(*                                                                         *)
(* Every lock() is one atomic step.  Passwords are the numbers            *)
(* 1..NumPasswords in the order of the input; the wallet's password is    *)
(* chosen in Init (or none of them is).  Decryption and printing are left *)
(* out: only whether the candidate is the wallet's password matters.      *)
(***************************************************************************)
EXTENDS Naturals, Sequences, SequencesExt, Functions

CONSTANTS
  Threads,       \* one thread per CPU (num_cpus::get())
  NumPasswords,  \* the number of candidate passwords read from the file
  PackageSize,   \* the 32 of split_off(cmp::min(len, 32))
  NoPassword     \* the wallet's password is none of the candidates

ASSUME PackageSize \in Nat \ {0} /\ NumPasswords \in Nat

Passwords == 1 .. NumPasswords

VARIABLES
  passwords, \* the shared VecDeque<Password>
  secret,    \* the password that decrypts the wallet, or NoPassword
  pc,        \* per thread: "idle" (not spawned), "check", "take", "try", "done"
  package,   \* per thread: the package it is working through
  tried,     \* the passwords some thread has tried without success
  found,     \* the password a thread printed as found, or NoPassword
  main       \* run(): "spawn", "join", "ok" (returned Ok) or "err"

vars == <<passwords, secret, pc, package, tried, found, main>>

Init ==
  /\ passwords = [i \in Passwords |-> i]
  /\ secret \in Passwords \cup {NoPassword}
  /\ pc = [t \in Threads |-> "idle"]
  /\ package = [t \in Threads |-> <<>>]
  /\ tried = {}
  /\ found = NoPassword
  /\ main = "spawn"

-----------------------------------------------------------------------------
(* run()                                                                  *)

\* One iteration of the spawning loop: PresaleWallet::open succeeds and the
\* thread starts, or it fails and `?` returns Err without joining the threads
\* already spawned.
Spawn(t) ==
  /\ main = "spawn"
  /\ pc[t] = "idle"
  /\ \/ /\ pc' = [pc EXCEPT ![t] = "check"]
        /\ main' = IF \A u \in Threads \ {t} : pc[u] # "idle" THEN "join" ELSE "spawn"
     \/ /\ main' = "err"
        /\ UNCHANGED pc
  /\ UNCHANGED <<passwords, secret, package, tried, found>>

\* The join loop: returns Ok once every thread has finished.
Join ==
  /\ main = "join"
  /\ \A t \in Threads : pc[t] = "done"
  /\ main' = "ok"
  /\ UNCHANGED <<passwords, secret, pc, package, tried, found>>

-----------------------------------------------------------------------------
(* look_for_password(passwords, wallet)                                    *)

\* while !passwords.lock().is_empty()
Check(t) ==
  /\ pc[t] = "check"
  /\ pc' = [pc EXCEPT ![t] = IF passwords = <<>> THEN "done" ELSE "take"]
  /\ UNCHANGED <<passwords, secret, package, tried, found, main>>

\* The position split_off is called with: cmp::min(len, 32).
SplitAt(len) == IF len < PackageSize THEN len ELSE PackageSize

\* Fault: the package is copied out of the queue instead of split off.
Take_copies(t) ==
  /\ pc[t] = "take"
  /\ LET at == SplitAt(Len(passwords)) IN
       package' = [package EXCEPT ![t] = SubSeq(passwords, at + 1, Len(passwords))]
  /\ pc' = [pc EXCEPT ![t] = "try"]
  /\ UNCHANGED <<passwords, secret, tried, found, main>>

\* let package = { lock; passwords.split_off(min(len, 32)) }: split_off(at)
\* returns the elements from `at` on and keeps the first `at` in the queue.
Take(t) ==
  /\ pc[t] = "take"
  /\ LET at == SplitAt(Len(passwords)) IN
       /\ package' = [package EXCEPT ![t] = SubSeq(passwords, at + 1, Len(passwords))]
       /\ passwords' = SubSeq(passwords, 1, at)
  /\ pc' = [pc EXCEPT ![t] = "try"]
  /\ UNCHANGED <<secret, tried, found, main>>

\* Fault: the finder returns without passwords.lock().clear().
Try_no_clear(t) ==
  /\ pc[t] = "try"
  /\ IF package[t] = <<>>
     THEN /\ pc' = [pc EXCEPT ![t] = "check"]
          /\ UNCHANGED <<passwords, package, tried, found>>
     ELSE LET pass == Head(package[t]) IN
          IF pass = secret
          THEN /\ found' = pass
               /\ package' = [package EXCEPT ![t] = <<>>]
               /\ pc' = [pc EXCEPT ![t] = "done"]
               /\ UNCHANGED <<passwords, tried>>
          ELSE /\ package' = [package EXCEPT ![t] = Tail(package[t])]
               /\ tried' = tried \cup {pass}
               /\ UNCHANGED <<passwords, pc, found>>
  /\ UNCHANGED <<secret, main>>

\* One turn of `for pass in package`: the wallet's password clears the
\* queue and returns; any other is counted and the loop goes on; an empty
\* package goes back to the while condition.
Try(t) ==
  /\ pc[t] = "try"
  /\ IF package[t] = <<>>
     THEN /\ pc' = [pc EXCEPT ![t] = "check"]
          /\ UNCHANGED <<passwords, package, tried, found>>
     ELSE LET pass == Head(package[t]) IN
          IF pass = secret
          THEN /\ found' = pass
               /\ passwords' = <<>>
               /\ package' = [package EXCEPT ![t] = <<>>]
               /\ pc' = [pc EXCEPT ![t] = "done"]
               /\ UNCHANGED tried
          ELSE /\ package' = [package EXCEPT ![t] = Tail(package[t])]
               /\ tried' = tried \cup {pass}
               /\ UNCHANGED <<passwords, pc, found>>
  /\ UNCHANGED <<secret, main>>

Next ==
  \/ \E t \in Threads : Spawn(t) \/ Check(t) \/ Take(t) \/ Try(t)
  \/ Join

\* Threads are OS threads and parking_lot's Mutex is eventually fair, so no
\* thread that can take a step is starved forever; run() is a thread too.
Fairness ==
  /\ \A t \in Threads : WF_vars(Spawn(t) \/ Check(t) \/ Take(t) \/ Try(t))
  /\ WF_vars(Join)

Spec == Init /\ [][Next]_vars /\ Fairness

-----------------------------------------------------------------------------
(* Properties.                                                            *)

\* Until the password is found, the queue, the threads' packages and the
\* passwords tried so far hold every candidate exactly once: taking a
\* package under the lock neither loses a password nor hands one to two
\* threads, however the threads interleave.
PasswordsConserved ==
  found = NoPassword =>
    /\ Len(passwords) + SumFunction([t \in Threads |-> Len(package[t])])
         + Cardinality(tried) = NumPasswords
    /\ Range(passwords) \cup UNION {Range(package[t]) : t \in Threads} \cup tried
         = Passwords

\* Once a thread has found the password, every thread stops and run()
\* returns: clearing the queue ends every other thread's while loop, even
\* a thread that is between its emptiness check and its split_off.
FoundStopsAll == (found # NoPassword) ~> (main \in {"ok", "err"})

\* run() returns: "Loop until there are no more passwords to test" ends
\* every thread, whether or not the password is among the candidates.
Termination == <>(main \in {"ok", "err"})

=============================================================================
