----------------------------- MODULE Registration -----------------------------
(***************************************************************************)
(* How a validator registers a payment address with one chain's service:   *)
(* Apply issues a challenge, Register takes the signed challenge and       *)
(* stores the validator.  Register opens a transaction, but the statements *)
(* inside it go to s.store, not to the transaction: they run on connections*)
(* of their own while the transaction keeps its connection, and they stay  *)
(* in force when the transaction is rolled back.  The connections come from*)
(* the pool of the store.                                                  *)
(***************************************************************************)
EXTENDS Integers, FiniteSets

CONSTANTS
  Procs,       \* goroutines that serve POST /v0/register
  Validators,  \* validator addresses; each has its key
  PayAddrs,    \* payment addresses
  ValidAddrs,  \* those that ValidatePaymentAddress accepts
  Challenges,  \* identifiers of challenges, each issued at most once
  MaxConns,    \* connections in the pool (code: 4 or more)
  None         \* no value

Application == [validator: Validators, payTo: PayAddrs]

ASSUME RegistrationAssumption ==
  /\ ValidAddrs \subseteq PayAddrs
  /\ MaxConns \in Nat \ {0}
  /\ None \notin PayAddrs /\ None \notin Application

VARIABLES
  valset,      \* the latest validator set of the chain
  issued,      \* what a challenge was issued for, None if it was not
  challenges,  \* table challenges
  validators,  \* table validators: payment address by address, or None
  stage,       \* where each request is
  call,        \* the arguments of each request
  loc,         \* the local variables of each request
  answers,     \* history: the answers to challenges that were sent
  settled      \* history: challenges that a Register deleted and returned

store == <<challenges, validators>>
history == <<answers, settled>>
regVars == <<valset, issued, challenges, validators, stage, call, loc, answers,
             settled>>

\* challenge is the one that Apply will create, or that Register names; signer
\* is the validator whose key signed it.
Apply == [op: {"apply"}, challenge: Challenges, for: Application]
Register == [op: {"register"}, challenge: Challenges, signer: Validators]
SignedChallenge == [challenge: Challenges, signer: Validators]

Stages == {"idle", "lookup", "chain", "issue", "begin", "select", "verify",
           "upsert", "delete", "commit"}

\* valset: validatorSet of Register; gone: DeleteChallenge succeeded; late, a
\* history: the challenge was settled before the request came.
Local == [valset: SUBSET Validators, gone: BOOLEAN, late: BOOLEAN]
NoLocal == [valset |-> {}, gone |-> FALSE, late |-> FALSE]

ASSUME CallAssumption == None \notin Apply \cup Register

RegTypeOK ==
  /\ valset \in SUBSET Validators
  /\ issued \in [Challenges -> Application \cup {None}]
  /\ challenges \in SUBSET Challenges
  /\ validators \in [Validators -> PayAddrs \cup {None}]
  /\ stage \in [Procs -> Stages]
  /\ call \in [Procs -> Apply \cup Register \cup {None}]
  /\ loc \in [Procs -> Local]
  /\ answers \in SUBSET SignedChallenge
  /\ settled \in SUBSET Challenges

RegInit ==
  /\ valset \in SUBSET Validators
  /\ issued = [c \in Challenges |-> None]
  /\ challenges = {}
  /\ validators = [v \in Validators |-> None]
  /\ stage = [p \in Procs |-> "idle"]
  /\ call = [p \in Procs |-> None]
  /\ loc = [p \in Procs |-> NoLocal]
  /\ answers = {}
  /\ settled = {}

-----------------------------------------------------------------------------
(* The connections of the pool.                                            *)

\* Mutant: the connection of the lookup is not given back.
KeepsConn(p) ==
  stage[p] \in {"begin", "select", "verify", "upsert", "delete", "commit"}

\* Register holds a connection from BeginTxFunc to its return.
InTransaction(p) ==
  stage[p] \in {"select", "verify", "upsert", "delete", "commit"}

Held == {p \in Procs : InTransaction(p)}

\* A transaction, or a statement of s.store, needs a connection.
ConnFree == Cardinality(Held) < MaxConns

-----------------------------------------------------------------------------
Finish(p) ==
  /\ stage' = [stage EXCEPT ![p] = "idle"]
  /\ call' = [call EXCEPT ![p] = None]
  /\ loc' = [loc EXCEPT ![p] = NoLocal]

Proceed(p, to) ==
  /\ stage' = [stage EXCEPT ![p] = to]
  /\ UNCHANGED <<call, loc>>

\* A fresh UUID.
Unused(c) ==
  /\ issued[c] = None
  /\ \A p \in Procs : call[p] # None => call[p].challenge # c

ReceiveApply(p, c, application) ==
  /\ stage[p] = "idle"
  /\ Unused(c)
  /\ stage' = [stage EXCEPT ![p] = "chain"]
  /\ call' = [call EXCEPT ![p] = [op |-> "apply", challenge |-> c,
                                  for |-> application]]
  /\ UNCHANGED <<valset, issued, store, loc, history>>

\* A request that does not name the chain is looked up first.
ReceiveRegister(p, c, signer) ==
  /\ stage[p] = "idle"
  /\ issued[c] # None
  /\ \E to \in {"lookup", "chain"} : stage' = [stage EXCEPT ![p] = to]
  /\ call' = [call EXCEPT ![p] = [op |-> "register", challenge |-> c,
                                  signer |-> signer]]
  /\ loc' = [loc EXCEPT ![p].late = c \in settled]
  /\ answers' = answers \cup {[challenge |-> c, signer |-> signer]}
  /\ UNCHANGED <<valset, issued, store, settled>>

\* The handler learns the chain from the challenge.
LookUp(p) ==
  /\ stage[p] = "lookup"
  /\ ConnFree
  /\ IF call[p].challenge \in challenges THEN Proceed(p, "chain") ELSE Finish(p)
  /\ UNCHANGED <<valset, issued, store, history>>

\* Apply wants a valid payment address and a member of the validator set;
\* Register keeps the validator set for later.
AskChain(p) ==
  /\ stage[p] = "chain"
  /\ \/ /\ call[p].op = "apply"
        /\ IF call[p].for.payTo \in ValidAddrs /\ call[p].for.validator \in valset
           THEN Proceed(p, "issue") ELSE Finish(p)
     \/ /\ call[p].op = "register"
        /\ stage' = [stage EXCEPT ![p] = "begin"]
        /\ loc' = [loc EXCEPT ![p].valset = valset]
        /\ UNCHANGED call
  /\ UNCHANGED <<valset, issued, store, history>>

\* InsertChallenge; the challenge is sent to the validator.
InsertChallenge(p) ==
  LET c == call[p].challenge
  IN /\ stage[p] = "issue"
     /\ ConnFree
     /\ issued' = [issued EXCEPT ![c] = call[p].for]
     /\ challenges' = challenges \cup {c}
     /\ Finish(p)
     /\ UNCHANGED <<valset, validators, history>>

-----------------------------------------------------------------------------
(* The transaction of Register.                                            *)

Begin(p) ==
  /\ stage[p] = "begin"
  /\ ConnFree
  /\ Proceed(p, "select")
  /\ UNCHANGED <<valset, issued, store, history>>

SelectChallenge(p) ==
  /\ stage[p] = "select"
  /\ ConnFree
  /\ IF call[p].challenge \in challenges THEN Proceed(p, "verify") ELSE Finish(p)
  /\ UNCHANGED <<valset, issued, store, history>>

\* Mutant: the signature is not checked.
AnySignature(p) == TRUE

VerifySignature(p) == call[p].signer = issued[call[p].challenge].validator

\* A bad signature, or a validator that is not in the set, fails the
\* transaction; the deferred DeleteChallenge comes all the same.
Verify(p) ==
  /\ stage[p] = "verify"
  /\ IF VerifySignature(p)
          /\ issued[call[p].challenge].validator \in loc[p].valset
     THEN Proceed(p, "upsert") ELSE Proceed(p, "delete")
  /\ UNCHANGED <<valset, issued, store, history>>

\* The payment address is the one that the challenge was issued for.
UpsertValidator(p) ==
  LET for == issued[call[p].challenge]
  IN /\ stage[p] = "upsert"
     /\ ConnFree
     /\ validators' = [validators EXCEPT ![for.validator] = for.payTo]
     /\ Proceed(p, "delete")
     /\ UNCHANGED <<valset, issued, challenges, history>>

UpsertFails(p) ==
  /\ stage[p] = "upsert"
  /\ ConnFree
  /\ Proceed(p, "delete")
  /\ UNCHANGED <<valset, issued, store, history>>

\* Mutant: the statement is part of a transaction that is rolled back when
\* the signature is bad.
RolledBack(p) == IF VerifySignature(p) THEN challenges \ {call[p].challenge}
                                       ELSE challenges

\* Mutant: the challenge stays.
KeepChallenge(p) == challenges

Deleted(p) == challenges \ {call[p].challenge}

DeleteChallenge(p) ==
  /\ stage[p] = "delete"
  /\ ConnFree
  /\ challenges' = Deleted(p)
  /\ stage' = [stage EXCEPT ![p] = "commit"]
  /\ loc' = [loc EXCEPT ![p].gone = TRUE]
  /\ UNCHANGED <<valset, issued, validators, call, history>>

\* The error of DeleteChallenge is only logged.
DeleteFails(p) ==
  /\ stage[p] = "delete"
  /\ ConnFree
  /\ Proceed(p, "commit")
  /\ UNCHANGED <<valset, issued, store, history>>

\* The transaction commits or is rolled back, which makes no difference to
\* the tables, and Register returns.
EndTransaction(p) ==
  /\ stage[p] = "commit"
  /\ settled' = IF loc[p].gone THEN settled \cup {call[p].challenge} ELSE settled
  /\ Finish(p)
  /\ UNCHANGED <<valset, issued, store, answers>>

\* The request is cancelled (the client went away, the server stops) or an
\* RPC fails: every later statement fails, the connection is given back.
Fail(p) ==
  /\ stage[p] # "idle"
  /\ Finish(p)
  /\ UNCHANGED <<valset, issued, store, history>>

-----------------------------------------------------------------------------
\* The validator set changes.
ChangeValset ==
  /\ valset' \in SUBSET Validators
  /\ UNCHANGED <<issued, store, stage, call, loc, history>>

\* Cleanup deletes challenges that are too old.
Cleanup(cs) ==
  /\ challenges' = challenges \ cs
  /\ UNCHANGED <<valset, issued, validators, stage, call, loc, history>>

Arrive(p) ==
  \/ \E c \in Challenges, a \in Application : ReceiveApply(p, c, a)
  \/ \E c \in Challenges, v \in Validators : ReceiveRegister(p, c, v)

Serve(p) ==
  \/ LookUp(p)
  \/ AskChain(p)
  \/ InsertChallenge(p)
  \/ Begin(p)
  \/ SelectChallenge(p)
  \/ Verify(p)
  \/ UpsertValidator(p)
  \/ UpsertFails(p)
  \/ DeleteChallenge(p)
  \/ DeleteFails(p)
  \/ EndTransaction(p)

RegNext ==
  \/ \E p \in Procs : Arrive(p) \/ Serve(p) \/ Fail(p)
  \/ ChangeValset
  \/ \E cs \in SUBSET challenges : Cleanup(cs)

RegSpec == RegInit /\ [][RegNext]_regVars

\* The goroutines run, the database and the nodes answer, and a request that
\* the pool wakes up again and again gets a connection.
RegFairSpec == RegSpec /\ \A p \in Procs : SF_regVars(Serve(p))

-----------------------------------------------------------------------------
(* Properties.                                                             *)

\* A validator is registered only with an address that it applied for, in a
\* challenge that its own key signed: whatever other requests select, verify
\* and upsert between the steps of a Register, whose transaction isolates
\* nothing.
RegistrationProved ==
  \A v \in Validators : validators[v] # None =>
     \E c \in Challenges :
        /\ issued[c] = [validator |-> v, payTo |-> validators[v]]
        /\ [challenge |-> c, signer |-> v] \in answers

\* A signed answer that is sent again has no effect: the address of a
\* validator is changed only by a Register that came before any Register that
\* deleted its challenge had returned, with success or with an error, although
\* the transaction of that one may have been rolled back.  Otherwise an old
\* answer would bring an old address back.  Registers that overlap are another
\* matter: two of them may both find the challenge and upsert, and one whose
\* DeleteChallenge fails leaves it to the next.
NoReplay ==
  [][\A v \in Validators : validators'[v] # validators[v] =>
        \E p \in Procs : /\ stage[p] = "upsert" /\ ~ loc[p].late
                         /\ issued[call[p].challenge].validator = v]_regVars

\* Every connection is held by a Register that waits for another one.
Exhausted ==
  ~ ConnFree /\ \A p \in Held : stage[p] \in {"select", "upsert", "delete"}

\* A request ends, or the pool is exhausted by Registers that wait for their
\* second connection: there is no other way to hang.
RequestsEnd ==
  \A p \in Procs : stage[p] # "idle" ~> stage[p] = "idle" \/ Exhausted

-----------------------------------------------------------------------------
(* The inductive invariant.                                                *)

\* A request stands where its kind can; the challenge of an Apply is unused,
\* that of a Register issued.
RequestInv(p) ==
  /\ stage[p] = "idle" <=> call[p] = None
  /\ stage[p] = "issue" => call[p].op = "apply"
  /\ stage[p] \in Stages \ {"idle", "chain", "issue"} => call[p].op = "register"
  /\ call[p] # None /\ call[p].op = "apply" =>
        /\ issued[call[p].challenge] = None
        /\ \A q \in Procs \ {p} : call[q] # None =>
              call[q].challenge # call[p].challenge
  /\ call[p] # None /\ call[p].op = "register" =>
        /\ issued[call[p].challenge] # None
        /\ [challenge |-> call[p].challenge, signer |-> call[p].signer]
              \in answers
  /\ stage[p] = "upsert" => VerifySignature(p)
  /\ loc[p].gone => stage[p] = "commit" /\ call[p].challenge \notin challenges
  /\ loc[p].late => /\ stage[p] \in {"lookup", "chain", "begin", "select"}
                    /\ call[p].challenge \in settled

\* What is stored, or settled, was issued, and what is settled is not stored.
StoreInv ==
  /\ \A c \in challenges \cup settled : issued[c] # None
  /\ settled \cap challenges = {}

RegInv ==
  /\ RegTypeOK
  /\ \A p \in Procs : RequestInv(p)
  /\ StoreInv
  /\ RegistrationProved

=============================================================================
