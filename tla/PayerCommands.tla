--------------------------- MODULE PayerCommands ---------------------------
(***************************************************************************)
(* The payer's commands (cmd/sds: consumer funding and consumer signer),   *)
(* the chain client they send transactions with (contracts/chain), and the *)
(* chain as they see it.                                                   *)
(*                                                                         *)
(* Every command is a process of its own: nothing stops two of them from   *)
(* running at once for one payer key.  A command takes one step per RPC.   *)
(* The chain, its pool of pending transactions and the contracts are       *)
(* external.                                                               *)
(***************************************************************************)
EXTENDS Amounts, FiniteSets, FiniteSetsExt

CONSTANTS
  Cmds,         \* invocations of the binary
  Loads,        \* scenarios: [menu, cmds, chain, horizon, collects, ...]
  ThawPeriod,   \* thawing period of the collector contract
  MaxFailures   \* bound on RPC calls that fail

VARIABLES
  load,      \* the scenario, and what is left of its budgets
  now,       \* the clock
  chain,     \* contract state and account nonce of the payer
  pool,      \* pending transactions of the payer
  mined,     \* history: executed transactions, with the state they met
  cmd,       \* the commands
  failures   \* RPC calls that failed

payerVars == <<load, now, chain, pool, mined, cmd, failures>>

\* The flags of a command: key and keyEnv give the payer's key, otherPayer is a
\* --payer-address that is not the key's, local and external are the two ways
\* to give a signer's proof, precheck is the optional --grt-token-address, gas
\* an explicit gas limit, and maxFee and lowFee an explicit maximum fee, lowFee
\* one below the tip.
Flags == {"key", "keyEnv", "otherPayer", "force", "reset", "noWait", "dry",
          "precheck", "gas", "maxFee", "lowFee", "legacy", "local", "external"}

StatusKinds == {"fundingStatus", "signerStatus"}

Fresh == [kind |-> "none", pc |-> "idle", amount |-> 0, flags |-> {},
          plan |-> << >>, i |-> 1, queries |-> 0, nonce |-> 0, out |-> "none",
          seenApprovals |-> 0, seenMoves |-> 0, after |-> "none", shown |-> "none"]

PayerInit ==
  /\ load \in Loads
  /\ now = 0
  /\ chain = load.chain
  /\ pool = {}
  /\ mined = {}
  /\ cmd = [c \in Cmds |-> Fresh]
  /\ failures = 0

-----------------------------------------------------------------------------
(* The chain: external.                                                     *)

\* The contract accepts the call in its present state.
Executes(tx) ==
  CASE tx.op = "approve"    -> TRUE
    [] tx.op = "deposit"    -> tx.amount <= chain.allowance /\ tx.amount <= chain.wallet
    [] tx.op = "authorize"  -> ~chain.authorized /\ now <= tx.amount  \* the proof's deadline
    [] tx.op = "thaw"       -> chain.authorized
    [] tx.op = "revoke"     -> chain.authorized /\ chain.thawEnd > 0 /\ chain.thawEnd <= now
    [] tx.op = "cancelThaw" -> chain.thawEnd > 0

Effect(tx) ==
  CASE tx.op = "approve" ->
         [chain EXCEPT !.allowance = tx.amount, !.approvals = @ + 1]
    [] tx.op = "deposit" ->
         [chain EXCEPT !.allowance = @ - tx.amount, !.wallet = @ - tx.amount,
                       !.escrow = @ + tx.amount, !.moves = @ + 1]
    [] tx.op = "authorize"  -> [chain EXCEPT !.authorized = TRUE, !.lastAuth = now]
    [] tx.op = "thaw"       -> [chain EXCEPT !.thawEnd = now + ThawPeriod]
    [] tx.op = "revoke"     -> [chain EXCEPT !.authorized = FALSE, !.thawEnd = 0]
    [] tx.op = "cancelThaw" -> [chain EXCEPT !.thawEnd = 0]

\* Transactions of an account execute in the order of their nonces; one that
\* reverts uses its nonce up.
Mine(tx) ==
  /\ tx.nonce = chain.nonce
  /\ pool' = pool \ {tx}
  /\ mined' = mined \cup {[c |-> tx.c, i |-> tx.i, ok |-> Executes(tx),
                           allowance |-> chain.allowance, escrow |-> chain.escrow,
                           approvals |-> chain.approvals, moves |-> chain.moves]}
  /\ chain' = [(IF Executes(tx) THEN Effect(tx) ELSE chain) EXCEPT !.nonce = @ + 1]
  /\ UNCHANGED <<load, now, cmd, failures>>

\* A node forgets a pending transaction.
Evict(tx) ==
  /\ failures < MaxFailures
  /\ failures' = failures + 1
  /\ pool' = pool \ {tx}
  /\ UNCHANGED <<load, now, chain, mined, cmd>>

\* The provider collects what it was promised.
ProviderCollects(v) ==
  /\ load.collects > 0
  /\ v > 0 /\ v <= chain.escrow
  /\ load' = [load EXCEPT !.collects = @ - 1]
  /\ chain' = [chain EXCEPT !.escrow = @ - v, !.moves = @ + 1]
  /\ UNCHANGED <<now, pool, mined, cmd, failures>>

\* lastAuth is a history: the last time the signer was authorized.
Tick ==
  /\ now < load.horizon
  /\ now' = now + 1
  /\ chain' = [chain EXCEPT !.lastAuth = IF chain.authorized THEN now + 1 ELSE @]
  /\ UNCHANGED <<load, pool, mined, cmd, failures>>

PendingNonceAt ==
  Min({n \in chain.nonce .. chain.nonce + Cardinality(pool) :
         \A tx \in pool : tx.nonce # n})

-----------------------------------------------------------------------------
(* A command's steps.                                                       *)

Has(c, flag) == flag \in cmd[c].flags

Set(c, k) == cmd' = [cmd EXCEPT ![c] = k]
Done(k, out) == [k EXCEPT !.pc = "done", !.out = out]

\* An RPC call fails, and the command with it.
RPCFails(c) ==
  /\ cmd[c].pc \notin {"idle", "done"}
  /\ failures < MaxFailures
  /\ failures' = failures + 1
  /\ Set(c, Done(cmd[c], "error"))
  /\ UNCHANGED <<load, now, chain, pool, mined>>

\* The command's own step: everything but cmd stays.
Step(c, k) ==
  /\ Set(c, k)
  /\ UNCHANGED <<load, now, chain, pool, mined, failures>>

rejectNoWaitResetFirst(flags) == {"reset", "noWait"} \subseteq flags

\* parseKeyPair and validateOptionalPayerAddress: one key, and the payer's.
KeyAllowed(flags) ==
  /\ ("key" \in flags) # ("keyEnv" \in flags)
  /\ "otherPayer" \notin flags

\* A proof comes from outside or is made here, with a positive duration.
ProofAllowed(o) ==
  /\ ("local" \in o.flags) # ("external" \in o.flags)
  /\ "local" \in o.flags => o.deadline > 0

\* cli.Ensure: what the flags contradict ends the binary before any RPC.
FlagsAllowed(o) ==
  \/ o.kind \in StatusKinds
  \/ /\ KeyAllowed(o.flags)
     /\ ~({"force", "reset"} \subseteq o.flags)
     /\ ~rejectNoWaitResetFirst(o.flags)
     /\ o.kind = "authorize" => ProofAllowed(o)
     /\ ~GRTOverflows(o.text)

\* parseDeadline: a duration counts from now, a timestamp is taken as it is.
parseDeadline(o) == IF "local" \in o.flags THEN now + o.deadline ELSE o.deadline

rejectAllowanceReplacement(current, requested, flags) ==
  current # 0 /\ requested # 0 /\ flags \cap {"force", "reset"} = {}

\* The transactions of an approval: --reset-first puts one in front, unless
\* the allowance is zero already.
ApprovalSteps(current, k) ==
  (IF "reset" \in k.flags /\ current # 0
   THEN <<[op |-> "approve", amount |-> 0]>> ELSE << >>)
    \o <<[op |-> "approve", amount |-> k.amount]>>

\* submitDepositAndPrint, runSignerTx and runConsumerSignerAuthorize send one.
OneStep(op, amount) == <<[op |-> op, amount |-> amount]>>

\* Three balances, or the authorization and the end of the thawing.
runConsumerFundingStatus(k) == [k EXCEPT !.pc = "query", !.queries = 3]
runConsumerSignerStatus(k) == [k EXCEPT !.pc = "query", !.queries = 2]

\* An approval decides on the allowance, a top-up on the balance, and a deposit
\* on the allowance if it knows the token.
runConsumerFundingApprove(k) == [k EXCEPT !.pc = "allowance"]
runConsumerFundingTopUp(k) == [k EXCEPT !.pc = "balance"]
runConsumerFundingDeposit(k) ==
  [k EXCEPT !.pc = IF "precheck" \in k.flags THEN "ensure" ELSE "estimate",
            !.plan = OneStep("deposit", k.amount)]

\* What a signer's command asks the collector once its transaction is mined.
querySignerAuthorized == IF chain.authorized THEN "authorized" ELSE "not authorized"
querySignerThawEnd == IF chain.thawEnd # 0 THEN "thawing" ELSE "not thawing"

\* These go straight to the chain; authorize sends its proof's deadline.
runSignerTx(k) == [k EXCEPT !.pc = "estimate", !.plan = OneStep(k.kind, k.amount)]
runConsumerSignerAuthorize(k) == runSignerTx([k EXCEPT !.after = "authorized"])
runConsumerSignerThaw(k) == runSignerTx([k EXCEPT !.after = "thawEnd"])
runConsumerSignerRevoke(k) == runSignerTx([k EXCEPT !.after = "authorized"])
runConsumerSignerCancelThaw(k) == runSignerTx([k EXCEPT !.after = "thawEnd"])

StartOf(kind, amount, flags) ==
  LET k == [Fresh EXCEPT !.kind = kind, !.amount = amount, !.flags = flags] IN
  CASE kind = "fundingStatus" -> runConsumerFundingStatus(k)
    [] kind = "signerStatus"  -> runConsumerSignerStatus(k)
    [] kind = "approve"       -> runConsumerFundingApprove(k)
    [] kind = "topUp"         -> runConsumerFundingTopUp(k)
    [] kind = "deposit"       -> runConsumerFundingDeposit(k)
    [] kind = "authorize"     -> runConsumerSignerAuthorize(k)
    [] kind = "thaw"          -> runConsumerSignerThaw(k)
    [] kind = "revoke"        -> runConsumerSignerRevoke(k)
    [] kind = "cancelThaw"    -> runConsumerSignerCancelThaw(k)

\* A run of the binary: the scenario's menu has the invocations it considers.
Invoke(c) ==
  /\ cmd[c].pc = "idle" /\ c <= load.cmds
  /\ \A d \in Cmds : d < c => cmd[d].pc # "idle"
  /\ \E o \in load.menu :
       LET amount == IF o.kind = "authorize" THEN parseDeadline(o) ELSE ParseGRT(o.text)
           k == StartOf(o.kind, amount, o.flags) IN
       Step(c, IF FlagsAllowed(o) THEN k ELSE Done(k, "refused"))

\* Mutant: any allowance is replaced.
ReadAllowanceUnchecked(c) ==
  /\ cmd[c].pc = "allowance"
  /\ Step(c, [cmd[c] EXCEPT !.pc = "estimate", !.seenApprovals = chain.approvals,
                            !.plan = ApprovalSteps(chain.allowance, cmd[c])])

\* runConsumerFundingApprove reads the allowance it decides on.
ReadAllowance(c) ==
  LET k == [cmd[c] EXCEPT !.seenApprovals = chain.approvals] IN
  /\ k.pc = "allowance"
  /\ Step(c, IF rejectAllowanceReplacement(chain.allowance, k.amount, k.flags)
             THEN Done(k, "refused")
             ELSE [k EXCEPT !.pc = "estimate",
                            !.plan = ApprovalSteps(chain.allowance, k)])

\* topUpDepositAmount; nothing is needed at or above the target.
topUpDepositAmount(current, target) == GRTSub(target, current)

\* runConsumerFundingTopUp reads the balance it decides on.
ReadBalance(c) ==
  LET k == [cmd[c] EXCEPT !.seenMoves = chain.moves] IN
  /\ k.pc = "balance"
  /\ Step(c, IF chain.escrow >= k.amount THEN Done(k, "ok")
             ELSE [k EXCEPT !.pc = "ensure",
                     !.plan = OneStep("deposit", topUpDepositAmount(chain.escrow, k.amount))])

ensureAllowance(c) ==
  LET k == cmd[c] IN
  /\ k.pc = "ensure"
  /\ Step(c, IF chain.allowance < k.plan[1].amount THEN Done(k, "refused")
             ELSE [k EXCEPT !.pc = "estimate"])

\* A status query, or the one that follows a transaction.
Query(c) ==
  LET k == cmd[c] IN
  /\ k.pc = "query"
  /\ Step(c, IF k.queries > 1 THEN [k EXCEPT !.queries = @ - 1]
             ELSE Done([k EXCEPT !.shown = CASE k.after = "authorized" -> querySignerAuthorized
                                             [] k.after = "thawEnd" -> querySignerThawEnd
                                             [] OTHER -> "none"], "ok"))

-----------------------------------------------------------------------------
(* contracts/chain: SendDynamicFeeTransaction and SendLegacyTransaction.    *)

CurrentTx(c) ==
  [c |-> c, i |-> cmd[c].i, op |-> cmd[c].plan[cmd[c].i].op,
   amount |-> cmd[c].plan[cmd[c].i].amount, nonce |-> cmd[c].nonce]

\* After a transaction the plan's next one follows; the command that waited
\* for its receipts ends with a query.
AfterTx(k) ==
  IF k.i < Len(k.plan) THEN [k EXCEPT !.pc = "estimate", !.i = @ + 1]
  ELSE IF k.flags \cap {"noWait", "dry"} # {} THEN Done(k, "ok")
  ELSE [k EXCEPT !.pc = "query", !.queries = 1]

\* The transaction that goes through the same steps with a gas price, which a
\* node always suggests, for its fee.
SendLegacyTransaction(flags) == "legacy" \in flags

\* A dynamic fee needs a maximum that is not below the tip; without one that is
\* given, it needs a chain with base fees.
FeesAllowed(flags) ==
  \/ SendLegacyTransaction(flags)
  \/ "lowFee" \notin flags /\ (chain.baseFee \/ "maxFee" \in flags)

\* EstimateGas runs the call against the latest block and fails if it would
\* revert; an explicit gas limit skips it.  A dry run ends with the fees.
Estimate(c) ==
  LET k == cmd[c] IN
  /\ k.pc = "estimate"
  /\ Step(c, IF \/ ~Has(c, "gas") /\ ~Executes(CurrentTx(c))
                \/ ~FeesAllowed(k.flags) THEN Done(k, "error")
             ELSE IF Has(c, "dry") THEN AfterTx(k)
             ELSE [k EXCEPT !.pc = "nonce"])

TakeNonce(c) ==
  /\ cmd[c].pc = "nonce"
  /\ Step(c, [cmd[c] EXCEPT !.pc = "send", !.nonce = PendingNonceAt])

Sent(c) == IF Has(c, "noWait") THEN AfterTx(cmd[c])
           ELSE [cmd[c] EXCEPT !.pc = "receipt"]

\* SendTransaction: the node takes the transaction, also in place of another
\* with that nonce if it pays more.
Send(c) ==
  /\ cmd[c].pc = "send"
  /\ cmd[c].nonce >= chain.nonce
  /\ pool' = {tx \in pool : tx.nonce # cmd[c].nonce} \cup {CurrentTx(c)}
  /\ \/ Set(c, Sent(c)) /\ UNCHANGED failures
     \/ /\ failures < MaxFailures   \* the answer is lost
        /\ failures' = failures + 1
        /\ Set(c, Done(cmd[c], "error"))
  /\ UNCHANGED <<load, now, chain, mined>>

\* The node refuses a nonce that is used or, at too low a price, taken.
SendRefused(c) ==
  /\ cmd[c].pc = "send"
  /\ \/ cmd[c].nonce < chain.nonce
     \/ \E tx \in pool : tx.nonce = cmd[c].nonce
  /\ Step(c, Done(cmd[c], "error"))

Receipts(c) == {m \in mined : m.c = c /\ m.i = cmd[c].i}

\* Mutant: the receipt's status is not looked at.
AfterReceiptAnyStatus(k, m) == AfterTx(k)

AfterReceipt(k, m) == IF m.ok THEN AfterTx(k) ELSE Done(k, "error")

\* WaitReceipt polls until the receipt is there or the timeout expires.
WaitReceipt(c) ==
  /\ cmd[c].pc = "receipt"
  /\ \/ \E m \in Receipts(c) : Step(c, AfterReceipt(cmd[c], m))
     \/ Receipts(c) = {} /\ Step(c, Done(cmd[c], "timeout"))

-----------------------------------------------------------------------------
Commands ==
  \E c \in Cmds :
    \/ Invoke(c) \/ ReadAllowance(c) \/ ReadBalance(c) \/ ensureAllowance(c)
    \/ Query(c) \/ Estimate(c) \/ TakeNonce(c) \/ Send(c) \/ SendRefused(c)
    \/ WaitReceipt(c) \/ RPCFails(c)

ChainSteps ==
  \/ \E tx \in pool : Mine(tx) \/ Evict(tx)
  \/ \E v \in {1, chain.escrow} : ProviderCollects(v)

PayerNext == Commands \/ ChainSteps \/ Tick

PayerSpec == PayerInit /\ [][PayerNext]_payerVars

-----------------------------------------------------------------------------
(* Properties.                                                              *)

Submitted(c) == {tx \in pool : tx.c = c} \cup {m \in mined : m.c = c}

ShownAfter(kind) ==
  CASE kind = "authorize" -> "authorized"
    [] kind = "revoke" -> "not authorized"
    [] kind = "thaw" -> "thawing"
    [] OTHER -> "not thawing"

\* What a command says it did, it did.  One that ends well after waiting for
\* its receipts had every transaction of its plan executed, although others
\* spend the same nonces and change the state its gas was estimated in; a dry
\* run and a refusal leave nothing behind that could still execute.  And what
\* it shows of the signer afterwards is what its transaction brought about,
\* unless another command's transaction executed as well.
CommandReportsItsEffect ==
  \A c \in Cmds : LET k == cmd[c] IN k.pc = "done" =>
    /\ k.out = "ok" /\ k.flags \cap {"dry", "noWait"} = {} =>
         \A i \in DOMAIN k.plan : \E m \in mined : m.c = c /\ m.i = i /\ m.ok
    /\ k.out = "refused" \/ "dry" \in k.flags => Submitted(c) = {}
    /\ k.shown \in {"none", ShownAfter(k.kind)} \/ \E m \in mined : m.c # c /\ m.ok

\* A command's decision holds when its transaction executes, or somebody else
\* has meanwhile changed what it read.  An approval that is not forced replaces
\* a non-zero allowance by a non-zero one only if another approval executed
\* after the command's read; a top-up's deposit makes the balance exactly its
\* target unless the balance moved after its read.
CommandsActOnWhatTheyRead ==
  \A m \in mined : m.ok => LET k == cmd[m.c] IN
    /\ (k.kind = "approve" /\ k.plan[m.i].amount # 0 /\ m.allowance # 0
          /\ "force" \notin k.flags)
         => m.approvals > k.seenApprovals + (m.i - 1)
    /\ k.kind = "topUp" =>
         \/ m.escrow + k.plan[m.i].amount = k.amount
         \/ m.moves > k.seenMoves
=============================================================================
