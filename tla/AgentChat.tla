------------------------------- MODULE AgentChat -------------------------------
(***************************************************************************)
(* correlation-engine/main.py: POST /simulate keeps its report with empty  *)
(* chat sessions; POST /simulate/{id}/chat asks the model in the role of   *)
(* one of its agents. The session is read before the model is awaited and  *)
(* appended to after it, and the simulation may have left the store by     *)
(* then. One process; the other has a store of its own.                    *)
(***************************************************************************)
EXTENDS Naturals, Sequences, FiniteSets, SequencesExt

CONSTANTS
  Simulations, \* simulations, each run at most once
  Agents,      \* agents of a simulation, attackers and defenders
  Questions,   \* chat requests, each sent at most once
  StoreLimit   \* simulations kept (20)

ASSUME ChatAssumption == StoreLimit \in Nat \ {0} /\ IsFiniteSet(Questions)

VARIABLES
  simulations, \* simulation_store, oldest first
  simulated,   \* simulations that have been stored
  sessions,    \* chat_sessions of each simulation, reachable or not
  chat         \* each request: phase, simulation, agent, the history it was asked with

chatVars == <<simulations, simulated, sessions, chat>>

Unasked == [phase |-> "idle", sim |-> "none", agent |-> "none", history |-> <<>>]
User(q) == [role |-> "user", of |-> q]
Assistant(q) == [role |-> "assistant", of |-> q]

ChatInit ==
  /\ simulations = <<>> /\ simulated = {}
  /\ sessions = [s \in Simulations |-> [a \in Agents |-> <<>>]]
  /\ chat = [q \in Questions |-> Unasked]

\* The end of POST /simulate.
Simulate(s) ==
  /\ s \notin simulated
  /\ simulated' = simulated \cup {s}
  /\ simulations' = LET all == Append(simulations, s)
                    IN IF Len(all) > StoreLimit THEN Tail(all) ELSE all
  /\ UNCHANGED <<sessions, chat>>

\* A request for an agent of a stored simulation, up to the call of the model;
\* any other is answered 404 and changes nothing.
Ask(q, s, a) ==
  /\ chat[q].phase = "idle" /\ Contains(simulations, s)
  /\ chat' = [chat EXCEPT ![q] = [phase |-> "asked", sim |-> s, agent |-> a,
                                  history |-> sessions[s][a]]]
  /\ UNCHANGED <<simulations, simulated, sessions>>

Pair(q) == <<User(q), Assistant(q)>>

\* Mutant: the session is replaced by what was read before the model answered.
AnswerStaleMutant(q) ==
  /\ chat[q].phase = "asked"
  /\ chat' = [chat EXCEPT ![q].phase = "answered"]
  /\ sessions' = [sessions EXCEPT ![chat[q].sim][chat[q].agent] = chat[q].history \o Pair(q)]
  /\ UNCHANGED <<simulations, simulated>>

\* The model has answered; the pair goes to the session the request holds.
Answer(q) ==
  /\ chat[q].phase = "asked"
  /\ chat' = [chat EXCEPT ![q].phase = "answered"]
  /\ sessions' = [sessions EXCEPT ![chat[q].sim][chat[q].agent] = @ \o Pair(q)]
  /\ UNCHANGED <<simulations, simulated>>

\* An error status, no connection, or the timeout: nothing is stored.
NoAnswer(q) ==
  /\ chat[q].phase = "asked"
  /\ chat' = [chat EXCEPT ![q].phase = "failed"]
  /\ UNCHANGED <<simulations, simulated, sessions>>

ChatNext ==
  \/ \E s \in Simulations : Simulate(s)
  \/ \E q \in Questions : \/ Answer(q) \/ NoAnswer(q)
                          \/ \E s \in Simulations, a \in Agents : Ask(q, s, a)

ChatSpec == ChatInit /\ [][ChatNext]_chatVars

-----------------------------------------------------------------------------
(* What must hold.                                                          *)

ChatTypeOK ==
  /\ simulated \subseteq Simulations /\ Len(simulations) <= StoreLimit
  /\ \A q \in Questions : chat[q].phase \in {"idle", "asked", "answered", "failed"}

\* A session is whole pairs, a question and its answer, of exactly the requests
\* that were answered, however many were being asked of the agent at once: a
\* prompt never contains an unanswered question, and none is lost.
SessionsArePairs ==
  \A s \in Simulations, a \in Agents :
    LET session == sessions[s][a]
        answered == {q \in Questions : chat[q] = [chat[q] EXCEPT !.phase = "answered",
                                                                 !.sim = s, !.agent = a]}
    IN /\ Len(session) = 2 * Cardinality(answered)
       /\ \A i \in 1..(Len(session) \div 2) :
            \E q \in answered : SubSeq(session, 2 * i - 1, 2 * i) = Pair(q)

\* What a request was asked with is a beginning of the session as it is later:
\* the agent never argued from a conversation that then went another way.
HistoriesArePrefixes ==
  \A q \in Questions : chat[q].phase # "idle" =>
    IsPrefix(chat[q].history, sessions[chat[q].sim][chat[q].agent])

\* Conversations stay whole under concurrent questions and evictions.
ChatConsistent == ChatTypeOK /\ SessionsArePairs /\ HistoriesArePrefixes
=============================================================================
