---------------------------- MODULE AgentRegistry ---------------------------
(***************************************************************************)
(* The agent registry of programs/escrow: one AgentAccount per owner, made *)
(* by register_agent, changed by update_agent, closed by deregister_agent. *)
(* The rating and attestation instructions write its scores and counters.  *)
(* A model string, a rate and a minimum reputation are data no instruction *)
(* reads; of the model only the length check is kept.                      *)
(***************************************************************************)
EXTENDS ReputationArithmetic

CONSTANTS
    Wallets,            \* owners, and parties of ratings and attestations
    NoAgent,            \* no AgentAccount lives at [b"agent", owner]
    ModelLengths,       \* lengths of the model string passed to register_agent
    MaxRegistrations    \* bound: registrations in a behaviour

AGENT_REGISTRATION_FEE == 10000000
AGENT_MODEL_MAX_LEN == 64

VARIABLES
    agent,      \* the AgentAccount of every wallet, or NoAgent
    burned,     \* lamports sent to the incinerator
    retired     \* history: what the closed AgentAccounts of a wallet had counted

registryVars == <<agent, burned, retired>>

AgentType == {"Primary", "Attestation", "Both"}

AgentAccount ==
    [agent_type : AgentType, reputation_score : 0 .. MAX_SCORE, jobs_completed : Nat,
     jobs_failed : Nat, active : BOOLEAN, attestation_accuracy : 0 .. MAX_SCORE]

RegistryTypeOK ==
    /\ agent \in [Wallets -> AgentAccount \cup {NoAgent}]
    /\ burned \in Nat
    /\ retired \in [Wallets -> [completed : Nat, failed : Nat]]

IsRegistered(w) == agent[w] # NoAgent

FreshAgent(type) ==
    [agent_type |-> type, reputation_score |-> 0, jobs_completed |-> 0,
     jobs_failed |-> 0, active |-> TRUE, attestation_accuracy |-> 0]

RegistryInit ==
    /\ agent = [w \in Wallets |-> NoAgent]
    /\ burned = 0
    /\ retired = [w \in Wallets |-> [completed |-> 0, failed |-> 0]]

\* register_agent: pays the fee and creates the account, once per owner.
RegisterAgent(owner, type, modelLength) ==
    /\ burned < MaxRegistrations * AGENT_REGISTRATION_FEE
    /\ modelLength <= AGENT_MODEL_MAX_LEN
    /\ ~IsRegistered(owner)
    /\ burned' = burned + AGENT_REGISTRATION_FEE
    /\ agent' = [agent EXCEPT ![owner] = FreshAgent(type)]
    /\ UNCHANGED retired

\* update_agent.  Mutant: it writes a fresh account.
UpdateAgentAfresh(owner, active) ==
    /\ IsRegistered(owner)
    /\ agent' = [agent EXCEPT ![owner] =
                    [FreshAgent(agent[owner].agent_type) EXCEPT !.active = active]]
    /\ UNCHANGED <<burned, retired>>
UpdateAgent(owner, active) ==
    /\ IsRegistered(owner)
    /\ agent' = [agent EXCEPT ![owner].active = active]
    /\ UNCHANGED <<burned, retired>>

\* deregister_agent closes the account, whatever ratings are still open; the
\* fee stays burned.
DeregisterAgent(owner) ==
    /\ IsRegistered(owner)
    /\ agent' = [agent EXCEPT ![owner] = NoAgent]
    /\ retired' = [retired EXCEPT
                     ![owner] = [completed |-> @.completed + agent[owner].jobs_completed,
                                 failed |-> @.failed + agent[owner].jobs_failed]]
    /\ UNCHANGED burned

RegistryNext ==
    \E owner \in Wallets :
        \/ \E type \in AgentType, length \in ModelLengths : RegisterAgent(owner, type, length)
        \/ \E active \in BOOLEAN : UpdateAgent(owner, active)
        \/ DeregisterAgent(owner)
=============================================================================
