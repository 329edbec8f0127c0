-------------------------- MODULE CapabilityAliases --------------------------
(***************************************************************************)
(* Review of renamed capabilities: proposals of an alias or a supersession *)
(* and the registry facts that an acceptance writes, of internal/store     *)
(* (capability_alias_review.go) and migrations 0015 and 0019.              *)
(*                                                                         *)
(* A decision first locks its proposal together with the workspace row     *)
(* ("for update" of a join locks both), so decisions of one workspace      *)
(* never overlap.  A creation holds a share of the workspace row from its  *)
(* insert on (the foreign keys take it) and wants the whole row at its     *)
(* end.  The facts belong to no workspace: decisions of two workspaces     *)
(* meet there, and a statement sees only what was committed before it.     *)
(***************************************************************************)
EXTENDS Naturals

CONSTANTS
    Sessions,       \* concurrent requests
    Keys,           \* capability keys and historical names
    Capabilities,   \* those with a row in taxonomy_capability
    Active,         \* those whose lifecycle is "active"
    Proposals,      \* what may be proposed: [ws, action, src, dst]
    Seed,           \* the facts that migration 0015 inserts
    None            \* no fact for a key

Kinds == {"alias", "supersedes"}
Decisions == {"accepted", "rejected"}
Facts == [Kinds -> [Keys -> Capabilities \cup {None}]]

(* A cycle of supersessions is a set of keys that leads only into itself.  *)
Acyclic(next) ==
    \A T \in SUBSET Keys : T # {} => \E k \in T : next[k] \notin T

ASSUME AliasesAssumption ==
    /\ Capabilities \subseteq Keys
    /\ Active \subseteq Capabilities
    /\ None \notin Keys
    /\ \A p \in Proposals : /\ p.action \in Kinds
                            /\ p.src \in Keys /\ p.dst \in Capabilities
                            /\ p.src # p.dst
    /\ Seed \in Facts
    /\ Acyclic(Seed["supersedes"])

VARIABLES
    status,     \* taxonomy_capability_alias_supersession_proposal.status
    fact,       \* canonical_key of the alias and supersedes rows, by key
    tx,         \* the transaction of a session
    overlapped  \* history: two acceptances of supersessions were open at once

aliasVars == <<status, fact, tx, overlapped>>

NoTx == [step |-> "none"]
OpenTx == [step : {"creating", "deciding", "materialised"}, p : Proposals,
           decision : Decisions, writes : BOOLEAN]

TxAt(s, step) == tx[s].step = step
Creates(s, ws) == TxAt(s, "creating") /\ tx[s].p.ws = ws
Decides(s, ws) == tx[s].step \in {"deciding", "materialised"} /\ tx[s].p.ws = ws

FactOf(p) == fact[p.action][p.src]

(* Faulty: only the proposal is locked, not its workspace.                 *)
ProposalFree(s, p) ==
    \A t \in Sessions \ {s} : ~TxAt(t, "none") => tx[t].p # p

(* The rows of p and of its workspace can be locked for update.            *)
WorkspaceFree(s, p) ==
    \A t \in Sessions \ {s} : ~Creates(t, p.ws) /\ ~Decides(t, p.ws)

-----------------------------------------------------------------------------
(* The insert of a new proposal, or the lookup of the existing one, and    *)
(* the audit row: both take a share of the workspace row.  A second insert *)
(* of one proposal waits for the first.                                    *)
CreateProposal(s, p) ==
    /\ TxAt(s, "none")
    /\ \A t \in Sessions : ~Decides(t, p.ws)
    /\ status[p] = "absent" =>
          /\ p.dst \in Active
          /\ \A t \in Sessions : ~(TxAt(t, "creating") /\ tx[t].p = p)
    /\ tx' = [tx EXCEPT ![s] = [step |-> "creating", p |-> p, decision |-> "rejected",
                                writes |-> status[p] = "absent"]]
    /\ UNCHANGED <<status, fact, overlapped>>

(* A decided proposal keeps its status when it is proposed again.          *)
StatusOnCreate(s, p) == IF tx[s].writes THEN "proposed" ELSE status[p]

(* The row is read back for update before the commit, which needs the      *)
(* whole workspace row.                                                    *)
CommitCreate(s) ==
    /\ TxAt(s, "creating")
    /\ LET p == tx[s].p
       IN  /\ WorkspaceFree(s, p)
           /\ status' = [status EXCEPT ![p] = StatusOnCreate(s, p)]
    /\ tx' = [tx EXCEPT ![s] = NoTx]
    /\ UNCHANGED <<fact, overlapped>>

-----------------------------------------------------------------------------
OpenAcceptance(s) == /\ tx[s].step \in {"deciding", "materialised"}
                     /\ tx[s].p.action = "supersedes"
                     /\ tx[s].decision = "accepted"

(* The proposal and the workspace are locked and the status is read.  Any  *)
(* status but "proposed" ends the request without a change.                *)
LockForDecision(s, p, decision) ==
    /\ TxAt(s, "none")
    /\ WorkspaceFree(s, p)
    /\ status[p] = "proposed"
    /\ tx' = [tx EXCEPT ![s] = [step |-> "deciding", p |-> p, decision |-> decision,
                                writes |-> FALSE]]
    /\ overlapped' = (overlapped \/ /\ p.action = "supersedes"
                                    /\ decision = "accepted"
                                    /\ \E t \in Sessions : OpenAcceptance(t))
    /\ UNCHANGED <<status, fact>>

(* Faulty: only a direct reverse edge is refused.                          *)
NotReversed(p) == fact["supersedes"][p.dst] # p.src

(* The trigger follows the supersessions from the canonical key and must   *)
(* not meet the superseded one: what it meets is a set closed under them.  *)
ClosesNoCycle(p) ==
    \E S \in SUBSET Keys :
        /\ p.dst \in S /\ p.src \notin S
        /\ \A k \in S : fact["supersedes"][k] \in S \cup {None}

(* Faulty: the alias is not read back.                                     *)
MayAlways(p) == p.action = "supersedes" => p.dst \in Active /\ ClosesNoCycle(p)

(* An alias must be read back with its canonical key; a supersession needs *)
(* two capabilities, the canonical one active.                             *)
MayMaterialize(p) ==
    IF p.action = "alias" THEN FactOf(p) \in {None, p.dst}
    ELSE p.dst \in Active /\ p.src \in Capabilities /\ ClosesNoCycle(p)

(* An insert of a key waits for the transaction that wrote it.  A row with *)
(* another canonical key is left as it is.                                 *)
Materialize(s) ==
    /\ TxAt(s, "deciding") /\ tx[s].decision = "accepted"
    /\ LET p == tx[s].p
       IN  /\ \A t \in Sessions : ~(/\ TxAt(t, "materialised")
                                    /\ tx[t].p.action = p.action /\ tx[t].p.src = p.src)
           /\ MayMaterialize(p)
           /\ tx' = [tx EXCEPT ![s].step = "materialised", ![s].writes = FactOf(p) = None]
    /\ UNCHANGED <<status, fact, overlapped>>

(* Faulty: an existing row is moved to the canonical key of the proposal.  *)
OverwritingFact(s, p) ==
    IF tx[s].decision = "accepted" THEN [fact EXCEPT ![p.action][p.src] = p.dst] ELSE fact

FactAfter(s, p) == IF tx[s].writes THEN [fact EXCEPT ![p.action][p.src] = p.dst]
                   ELSE fact

(* Faulty: the decision is not recorded with its fact.                     *)
StatusLost(s, p) == IF tx[s].writes THEN status[p] ELSE tx[s].decision

StatusOnCommit(s, p) == tx[s].decision

CommitDecision(s) ==
    /\ tx[s].step = IF tx[s] # NoTx /\ tx[s].decision = "accepted" THEN "materialised"
                    ELSE "deciding"
    /\ LET p == tx[s].p
       IN  /\ status' = [status EXCEPT ![p] = StatusOnCommit(s, p)]
           /\ fact' = FactAfter(s, p)
    /\ tx' = [tx EXCEPT ![s] = NoTx]
    /\ UNCHANGED overlapped

(* A check that refuses, a failed statement, a cancelled request or the    *)
(* deadlock detector of the database: nothing is kept.                     *)
Abort(s) ==
    /\ ~TxAt(s, "none")
    /\ tx' = [tx EXCEPT ![s] = NoTx]
    /\ UNCHANGED <<status, fact, overlapped>>

-----------------------------------------------------------------------------
AliasInit ==
    /\ status = [p \in Proposals |-> "absent"]
    /\ fact = Seed
    /\ tx = [s \in Sessions |-> NoTx]
    /\ overlapped = FALSE

AliasNext ==
    \E s \in Sessions :
        \/ \E p \in Proposals : CreateProposal(s, p)
        \/ CommitCreate(s)
        \/ \E p \in Proposals, decision \in Decisions : LockForDecision(s, p, decision)
        \/ Materialize(s)
        \/ CommitDecision(s)
        \/ Abort(s)

AliasSpec == AliasInit /\ [][AliasNext]_aliasVars

-----------------------------------------------------------------------------
AliasTypeOK ==
    /\ status \in [Proposals -> {"absent", "proposed", "accepted", "rejected"}]
    /\ fact \in Facts
    /\ tx \in [Sessions -> OpenTx \cup {NoTx}]
    /\ overlapped \in BOOLEAN
    /\ \A s, t \in Sessions : \A p \in Proposals :
          Decides(s, p.ws) /\ Decides(t, p.ws) => s = t
    /\ \A s \in Sessions : tx[s].step \in {"deciding", "materialised"}
                            => status[tx[s].p] = "proposed"

(* Whatever two sessions do, an accepted alias resolves to the canonical   *)
(* key that was decided, and an accepted supersession leaves its key       *)
(* superseded, by this canonical key or by an earlier one.                 *)
AcceptedIsResolved ==
    \A p \in Proposals : status[p] = "accepted" =>
        /\ FactOf(p) # None
        /\ p.action = "alias" => FactOf(p) = p.dst

(* No registry fact without its decision: what is not seeded was accepted, *)
(* and both became visible in one step.                                    *)
FactsWereDecided ==
    \A kind \in Kinds, k \in Keys :
        fact[kind][k] # Seed[kind][k] =>
            \E p \in Proposals : /\ status[p] = "accepted"
                                 /\ p.action = kind /\ p.src = k
                                 /\ p.dst = fact[kind][k]

(* Resolution of a historical key never changes and no decision is undone, *)
(* by another decision, by a new proposal or by a second workspace.        *)
HistoryStands ==
    [][/\ \A kind \in Kinds, k \in Keys :
             fact[kind][k] # None => fact'[kind][k] = fact[kind][k]
       /\ \A p \in Proposals :
             status[p] \in Decisions => status'[p] = status[p]]_aliasVars

(* As long as acceptances did not overlap, which one workspace guarantees, *)
(* supersessions form no cycle however long the chains are.                *)
AcyclicUnlessOverlapped == ~overlapped => Acyclic(fact["supersedes"])

-----------------------------------------------------------------------------
(* Statements of the repository's documents that the code does not keep;   *)
(* the README has their traces.                                            *)

(* An accepted supersession has materialised its own fact.                 *)
AcceptedHasItsFact ==
    \A p \in Proposals : status[p] = "accepted" => FactOf(p) = p.dst

(* The trigger keeps supersessions acyclic, also of two workspaces.        *)
SupersessionsAcyclic == Acyclic(fact["supersedes"])

(* A supersession points to a key that is not superseded itself.           *)
CanonicalIsTerminal ==
    \A k \in Keys : LET next == fact["supersedes"]
                    IN  next[k] # None => next[next[k]] = None

(* Two requests that propose something do not wait for each other.         *)
CreatesNeverDeadlock ==
    \A s, t \in Sessions : s # t /\ TxAt(s, "creating") /\ TxAt(t, "creating")
                           => tx[s].p.ws # tx[t].p.ws
=============================================================================
