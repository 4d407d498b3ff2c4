---------------------------- MODULE StratumClient ----------------------------
(***************************************************************************)
(* The stratum miner client (bins/mazze-miner/src/stratum_clients.rs).    *)
(*                                                                         *)
(* One tokio task runs StratumClient::run: it subscribes, then loops on   *)
(* receive_message (30 s timeout), and on a mining.notify parses the job, *)
(* mines it synchronously for up to 10 s and submits a share.  The server *)
(* is any peer on the TCP line: it sends lines in order, at any time,     *)
(* also while the client mines, and may close the connection.             *)
(*                                                                         *)
(* JSON and hex are abstracted to what the client's branches tell apart:  *)
(* a line is garbage (serde_json fails), a result, a notify with its four *)
(* params, a notify with too few or no params, or another method.  A job  *)
(* carries its height (or one that does not parse), its pow hash, and its *)
(* boundary as the number the hex decodes to (or hex that does not        *)
(* decode, or more than 32 bytes).                                       *)
(*                                                                         *)
(* PowComputer::compute hashes with the RandomX VM set by initialize, and  *)
(* returns H256::zero() while there is none.  The RandomX hash of each    *)
(* block hash and nonce is fixed for a behaviour and chosen in Init among *)
(* PowValues.  StratumClient::connect builds its PowComputer with new()   *)
(* and nothing on the client's path calls initialize.                     *)
(***************************************************************************)
EXTENDS Naturals, Sequences, PowConversions

CONSTANTS
  Heights,     \* block heights that parse as u64
  PowHashes,   \* the jobs' pow_hash values
  Boundaries,  \* boundaries as decoded numbers, and BadHex, TooLong
  BadHex,      \* a boundary that hex::decode rejects
  TooLong,     \* a boundary of more than 32 bytes
  BadHeight,   \* a height that does not parse as u64
  PowValues,   \* hashes a RandomX VM gives for the jobs' inputs
  MaxTries,    \* nonces mine_job reaches within its 10 s (at least one)
  NoVM,        \* PowComputer.vm is None
  MaxMessages, \* lines the server sends in a behaviour
  NoJob        \* current_job is None

Jobs == [height : Heights \cup {BadHeight}, hash : PowHashes, boundary : Boundaries]

Messages ==
  {[type |-> "garbage"], [type |-> "other"],
   [type |-> "notify_short"], [type |-> "notify_noparams"]}
  \cup {[type |-> "result", ok |-> b] : b \in BOOLEAN}
  \cup {[type |-> "notify", job |-> j] : j \in Jobs}

VARIABLES
  pc,          \* "subscribe", "sub_wait", "loop", "mining", "submit",
               \* or the end of run: "ok", "err", "panic"
  inbox,       \* lines the server sent that the client has not read
  sent,        \* number of lines the server has sent
  closed,      \* the server closed the connection
  current_job, \* StratumClient.current_job
  mining,      \* the problem mine_job works on, with its job
  solution,    \* the nonce and hash mine_job returned
  shares,      \* the mining.submit requests sent, in order
  randomx      \* randomx[block_hash][nonce]: the RandomX hash of the input

vars == <<pc, inbox, sent, closed, current_job, mining, solution, shares, randomx>>

Nonces == 0 .. MaxTries - 1

Ended == {"ok", "err", "panic"}

\* StratumClient::connect succeeded: no job, nothing received.
Init ==
  /\ pc = "subscribe"
  /\ inbox = <<>>
  /\ sent = 0
  /\ closed = FALSE
  /\ current_job = NoJob
  /\ mining = NoJob
  /\ solution = NoJob
  /\ shares = <<>>
  /\ randomx \in [PowHashes -> [Nonces -> PowValues]]

-----------------------------------------------------------------------------
(* The server.                                                            *)

ServerSend(m) ==
  /\ ~closed
  /\ sent < MaxMessages
  /\ inbox' = Append(inbox, m)
  /\ sent' = sent + 1
  /\ UNCHANGED <<pc, closed, current_job, mining, solution, shares, randomx>>

ServerClose ==
  /\ ~closed
  /\ closed' = TRUE
  /\ UNCHANGED <<pc, inbox, sent, current_job, mining, solution, shares, randomx>>

-----------------------------------------------------------------------------
(* The client.                                                            *)

\* The client's PowComputer: new() leaves vm None, and it is never
\* initialized.
ClientVM == NoVM

\* PowComputer::compute: the hash of block_hash and nonce under the VM, or
\* H256::zero() without one.  (A VM is only ever keyed, by validate, with
\* the block hash it then hashes.)
compute(vm, nonce, block_hash) ==
  IF vm = NoVM THEN 0 ELSE randomx[block_hash][nonce]

\* pow::validate: initialize the VM with the problem's block hash, compute
\* the nonce's hash, and check it against the problem's boundary.
validate(problem, nonce) ==
  validate_hash_against_boundary(compute(problem.block_hash, nonce, problem.block_hash),
                                 nonce, problem.boundary)

\* parse_job: its checks in order, then ProofOfWorkProblem::new(height,
\* pow_hash, boundary), whose third parameter is the difficulty: new
\* asserts it is non-zero and derives boundary = difficulty_to_boundary.
parse_job(j) ==
  CASE j.boundary = BadHex  -> [status |-> "err"]
    [] j.boundary = TooLong -> [status |-> "panic"]   \* 32 - len underflows
    [] j.height = BadHeight -> [status |-> "err"]
    [] j.boundary = 0       -> [status |-> "panic"]   \* assert!(!is_zero())
    [] OTHER -> [status |-> "ok",
                 problem |-> [block_height |-> j.height, block_hash |-> j.hash,
                              difficulty |-> j.boundary,
                              boundary |-> difficulty_to_boundary(j.boundary)],
                 job |-> j]

\* subscribe: send mining.subscribe; a failed send returns Err.
Subscribe ==
  /\ pc = "subscribe"
  /\ pc' \in {"sub_wait", "err"}
  /\ UNCHANGED <<inbox, sent, closed, current_job, mining, solution, shares, randomx>>

\* Fault: receive_message reads without the 30 s timeout.
ReceiveNothing_no_timeout ==
  /\ pc \in {"sub_wait", "loop"}
  /\ inbox = <<>>
  /\ closed
  /\ pc' = IF pc = "loop" THEN "ok" ELSE "err"
  /\ UNCHANGED <<inbox, sent, closed, current_job, mining, solution, shares, randomx>>

\* receive_message with nothing to read: EOF once the server has closed,
\* otherwise the 30 s timeout returns Err.
ReceiveNothing ==
  /\ pc \in {"sub_wait", "loop"}
  /\ inbox = <<>>
  /\ pc' = IF closed /\ pc = "loop" THEN "ok" ELSE "err"
  /\ UNCHANGED <<inbox, sent, closed, current_job, mining, solution, shares, randomx>>

\* subscribe reads the first line as its answer: only {"result": true}
\* subscribes; garbage, a false or absent result is Err.
ReceiveSubscription ==
  /\ pc = "sub_wait"
  /\ inbox # <<>>
  /\ LET m == Head(inbox) IN
       pc' = IF m.type = "result" /\ m.ok THEN "loop" ELSE "err"
  /\ inbox' = Tail(inbox)
  /\ UNCHANGED <<sent, closed, current_job, mining, solution, shares, randomx>>

\* handle_job_notification, parsed: current_job is set, then mining starts.
StartJob(parsed) ==
  /\ current_job' = parsed.problem
  /\ mining' = parsed
  /\ pc' = "mining"

\* One turn of run's loop on a line: garbage ends run with Err; a notify
\* with params is handled (a parse error is Err, and ends run); anything
\* else is logged and skipped.
ReceiveMessage ==
  /\ pc = "loop"
  /\ inbox # <<>>
  /\ LET m == Head(inbox) IN
       CASE m.type = "garbage" \/ m.type = "notify_short" ->
              pc' = "err" /\ UNCHANGED <<current_job, mining>>
         [] m.type = "notify" ->
              LET parsed == parse_job(m.job) IN
              IF parsed.status = "ok" THEN StartJob(parsed)
              ELSE pc' = parsed.status /\ UNCHANGED <<current_job, mining>>
         [] OTHER -> UNCHANGED <<pc, current_job, mining>>
  /\ inbox' = Tail(inbox)
  /\ UNCHANGED <<sent, closed, solution, shares, randomx>>

\* mine_job: compute and check nonces 0, 1, ... with the client's
\* PowComputer until one passes the problem's boundary, or 10 s pass; the
\* first nonce is always tried.
MineJob ==
  /\ pc = "mining"
  /\ \E tries \in 1 .. MaxTries :
       LET hash(n) == compute(ClientVM, n, mining.problem.block_hash)
           passing == {n \in 0 .. tries - 1 :
                         validate_hash_against_boundary(hash(n), n,
                                                        mining.problem.boundary)}
           nonce == CHOOSE n \in passing : \A m \in passing : n <= m
       IN IF passing = {}
          THEN /\ solution' = NoJob
               /\ pc' = "loop"
          ELSE /\ solution' = [nonce |-> nonce, hash |-> hash(nonce)]
               /\ pc' = "submit"
  /\ UNCHANGED <<inbox, sent, closed, current_job, mining, shares, randomx>>

\* submit_share: mining.submit with current_job's height and the nonce;
\* a failed send returns Err and ends run.  Without a current job it only
\* warns.
SubmitShare ==
  /\ pc = "submit"
  /\ IF current_job = NoJob
     THEN /\ pc' = "loop"
          /\ UNCHANGED shares
     ELSE /\ shares' = Append(shares, [block_height |-> current_job.block_height,
                                       nonce |-> solution.nonce,
                                       hash |-> solution.hash,
                                       mined |-> mining.job,
                                       problem |-> mining.problem])
          /\ pc' \in {"loop", "err"}
  /\ UNCHANGED <<inbox, sent, closed, current_job, mining, solution, randomx>>

Client ==
  \/ Subscribe \/ ReceiveNothing \/ ReceiveSubscription \/ ReceiveMessage
  \/ MineJob \/ SubmitShare

Next ==
  \/ \E m \in Messages : ServerSend(m)
  \/ ServerClose
  \/ Client

\* The client is one task whose steps the runtime keeps scheduling, and
\* tokio's timer fires the 30 s timeout.
Spec == Init /\ [][Next]_vars /\ WF_vars(Client)

-----------------------------------------------------------------------------
(* Properties.                                                            *)

\* Every share the client submits is one the node accepts: pow::validate,
\* with a VM keyed by the job's block hash, finds the nonce's hash within
\* the boundary of the problem the client mined.
ShareValidates ==
  \A i \in 1 .. Len(shares) : validate(shares[i].problem, shares[i].nonce)

\* run returns: the 30 s timeout keeps a silent server from holding the
\* client forever, and a server sends finitely many lines.
SessionEnds == <>(pc \in Ended)

=============================================================================
