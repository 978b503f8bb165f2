-------------------------------- MODULE MCTurns --------------------------------
(* The instances of SemanticTurn, Drafts and AgentRuntime that TLC checks in one *)
(* run.  A behaviour is one of a single component, the others rest as they begin. *)
EXTENDS SemanticTurn, TLC

CONSTANTS Fields, Amount, Conds, Promises, Ids, Inputs, Edits, Servers,    \* Drafts
          Exec, Text, Banned, Steps, Calls, Tools, Upkeep, Tokens, Attempts  \* AgentRuntime

VARIABLES scope,
          facts, product, session, offer, draft, shown, notices, turn, request, inputs, faults,
          task, agent_saved, snaps, stream, out, agent_world, run, broken

\* Candidates: an amount under a condition, the condition alone, an amount with an
\* undertaking.  An amount alone rests on no evidence.
Patch(fields, conds, promises) == [fields |-> fields, conds |-> conds, promises |-> promises]
Patches == {Patch(Fields, Conds, {}), Patch({}, Conds, {}), Patch(Fields, {}, Promises)}

\* DraftsProofs is Drafts with its theorems, so that they hold of this instance too.
Draft == INSTANCE DraftsProofs
Agent == INSTANCE AgentRuntime WITH saved <- agent_saved, world <- agent_world

\* What DraftsProofs asks of the constants of Drafts.
ASSUME DraftValues == Draft!DraftConstants

\* The budgets of the agent's run and the bounds of the model are counts, and the run
\* has tokens for a call.
AgentConstants ==
  /\ {Steps, Calls, Tools, Upkeep, Tokens, Attempts, Faults} \subseteq Nat
  /\ Tokens # 0
ASSUME AgentValues == AgentConstants

semantic == vars
drafts == <<facts, product, session, offer, draft, shown, notices, turn, request, inputs, faults>>
agent == <<task, agent_saved, snaps, stream, out, agent_world, run, broken>>
turns == <<scope, semantic, drafts, agent>>

NoSemantic == owner = 0 /\ lock = 0 /\ saved = 0 /\ proc = 0 /\ ledger = 0 /\ rows = 0 /\ world = 0
NoDraft == facts = 0 /\ product = 0 /\ session = 0 /\ offer = 0 /\ draft = 0 /\ shown = 0 /\ notices = 0 /\ turn = 0 /\ request = 0 /\ inputs = 0 /\ faults = 0
NoAgent == task = 0 /\ agent_saved = 0 /\ snaps = 0 /\ stream = 0 /\ out = 0 /\ agent_world = 0 /\ run = 0 /\ broken = 0

TurnsInit ==
  \/ scope = "semantic" /\ Init /\ NoDraft /\ NoAgent
  \/ scope = "drafts" /\ NoSemantic /\ Draft!Init /\ NoAgent
  \/ scope = "agent" /\ NoSemantic /\ NoDraft /\ Agent!Init

TurnsNext ==
  /\ UNCHANGED scope
  /\ \/ scope = "semantic" /\ Next /\ UNCHANGED <<drafts, agent>>
     \/ scope = "drafts" /\ Draft!Next /\ UNCHANGED <<semantic, agent>>
     \/ scope = "agent" /\ Agent!Next /\ UNCHANGED <<semantic, drafts>>

TurnsSpec == TurnsInit /\ [][TurnsNext]_turns

Symmetry == Permutations(Exec)

-------------------------------------------------------------------------------
\* A turn of the semantic graph spends no more than its caps, accepts one answer per
\* step, publishes only what was reviewed, and its checkpoint never runs ahead of the
\* rows (model_call_ledger_service.py, semantic_graph.py).
TurnIsAccountedFor == scope = "semantic" =>
  /\ TypeOK /\ SpendWithinCap /\ OneAnswerPerStep
  /\ PublishedIsReviewed /\ CheckpointHasEvidence

\* An offer made from a draft rests on facts that satisfied its conditions
\* (semantic/service.py, maintenance.py).
OffersAreGrounded == scope = "drafts" => Draft!TypeOK /\ Draft!OfferIsGrounded

\* A turn of the tool-calling agent reserves before it asks, ends once, streams what its
\* checkpoint says and pays for what it used (agent_runtime_service.py).
AgentIsAccountedFor == scope = "agent" =>
  /\ Agent!TypeOK /\ Agent!RequestsAreReserved /\ Agent!OneAnswerPerStep
  /\ Agent!StreamMatchesCheckpoint /\ Agent!EndsOnce /\ Agent!SpendIsCounted

\* What was planned, said or shown is not changed behind the buyer's back: plans are kept,
\* drafts continue what a card showed, agreements rest on evidence that still held, and
\* no act of the agent outlives the facts it was decided on.
WordsAreKept ==
  [][CASE scope = "semantic" -> KeepsPlan
       [] scope = "drafts" -> Draft!KeepsConditions /\ Draft!ContinuesAsShown /\ Draft!AgreesOnEvidence
       [] scope = "agent" -> Agent!ActsOnFreshFacts /\ Agent!CoversMore]_turns
================================================================================
