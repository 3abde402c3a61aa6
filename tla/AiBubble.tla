-------------------------------- MODULE AiBubble --------------------------------
(***************************************************************************)
(* The chat of the portal's AI bubble: the state that aiBubbleService      *)
(* keeps for it, and the directive aiBubble through which an operator      *)
(* sends, switches engine and model, and clears the conversation.          *)
(*                                                                         *)
(* The page is single-threaded: a step is one callback.  What interleaves  *)
(* is what the operator does with the answers of the server, which come in *)
(* any order: a list of models, the context that a message is to carry,    *)
(* and the reply.  A request is sent in two steps, sendMessage and, when   *)
(* its context is there, the POST.  Of the text of a message, of the       *)
(* context, of the tools (allowTools too) and of the reasons of an error   *)
(* the model keeps nothing; one answer stands for the turns of a reply.    *)
(***************************************************************************)
EXTENDS Naturals, Sequences, FiniteSets

CONSTANTS
  Engines,      \* ids of engines
  Models,       \* names of models
  Answers,      \* Answers[e]: what the server may say of the models of e
  Saved,        \* what selectedModelByEngine may be when the page is loaded
  None,         \* no engine, no model
  MaxSends      \* bound: messages that are sent

\* The default need not be one of the models, and both may be missing.
ASSUME AnswersAssumption ==
  \A e \in Engines :
    Answers[e] \subseteq [models : SUBSET Models, default : Models \cup {None}]
ASSUME NoneAssumption == None \notin Engines /\ None \notin Models
ASSUME SavedAssumption == Saved \subseteq [Engines -> Models \cup {None}]
ASSUME MaxSendsAssumption == MaxSends \in Nat

Sends == 1..MaxSends

VARIABLES
  selected,     \* selectedEngineId
  listing,      \* modelsByEngine[e]: absent, loading, listed or failed
  offered,      \* the models in modelsByEngine[e].list
  modelOf,      \* selectedModelByEngine
  conversation, \* conversation: who says what, by the message it belongs to
  sending,      \* sending
  ask,          \* ask[n]: how far the n-th message is: new, context, posted, done
  forced,       \* the operator got Send back while a message was under way
  cleared       \* messages that were under way when the conversation was cleared

settings == <<selected, modelOf>>
lists == <<listing, offered>>
chat == <<conversation, sending, ask, forced, cleared>>
vars == <<settings, lists, chat>>

Entry(role, n) == [role |-> role, of |-> n]

AwaitingContext == {n \in Sends : ask[n] = "context"}
InFlight == {n \in Sends : ask[n] \in {"context", "posted"}}

\* The settings come from localStorage: a model may not be offered any more.
Init ==
  /\ selected \in Engines \cup {None}
  /\ listing = [e \in Engines |-> "absent"]
  /\ offered = [e \in Engines |-> {}]
  /\ modelOf \in Saved
  /\ conversation = <<>>
  /\ sending = FALSE
  /\ ask = [n \in Sends |-> "new"]
  /\ forced = FALSE
  /\ cleared = {}

-------------------------------------------------------------------------------
(* Engines and models. *)

\* loadModels, unless they were asked for before; a failure counts.
Load(e) ==
  listing' = [listing EXCEPT ![e] = IF @ = "absent" THEN "loading" ELSE @]

\* The first thing there is: one given, or any of a list whose order is not
\* modelled, or nothing.
FirstOf(one, others) ==
  IF one # None THEN {one} ELSE IF others # {} THEN others ELSE {None}

\* The answer of GET /api/ai/info: the engine that is selected, or if there is
\* none or it is gone, the server's default, which need not be in its list, or
\* one of the list.  Only the opening of the bubble goes on to load the models
\* of that engine.
InfoArrives(engines, default, opening) ==
  \E e \in IF selected \in engines THEN {selected} ELSE FirstOf(default, engines) :
    /\ selected' = e
    /\ IF opening /\ e # None THEN Load(e) ELSE UNCHANGED listing
    /\ UNCHANGED <<modelOf, offered, chat>>

\* The bubble is opened with the engines known, or GET /api/ai/info fails.
OpenAgain ==
  /\ selected # None
  /\ listing[selected] = "absent"
  /\ Load(selected)
  /\ UNCHANGED <<settings, offered, chat>>

SelectEngine(e) ==
  /\ e # selected
  /\ selected' = e
  /\ Load(e)
  /\ UNCHANGED <<modelOf, offered, chat>>

\* Only models that are listed can be picked.
SelectModel(m) ==
  /\ selected # None
  /\ m \in offered[selected] \ {modelOf[selected]}
  /\ modelOf' = [modelOf EXCEPT ![selected] = m]
  /\ UNCHANGED <<selected, lists, chat>>

\* Mutant: a default that is missing is put in the list, too.
ListOfAnyDefault(answer) == answer.models \cup {answer.default}

\* The list an answer makes: the server's default is put in front of it if it
\* is not among the models.
ListOf(answer) == answer.models \cup ({answer.default} \ {None})

\* Mutant: the models that arrive are taken for those of the engine that is
\* selected by now.
ModelsArriveForSelected(e, answer) ==
  LET list == ListOf(answer)
  IN
  /\ listing[e] = "loading"
  /\ selected # None
  /\ listing' = [listing EXCEPT ![e] = "listed"]
  /\ offered' = [offered EXCEPT ![e] = list]
  /\ \E m \in IF modelOf[selected] \in list THEN {modelOf[selected]}
             ELSE FirstOf(answer.default, list) :
       modelOf' = [modelOf EXCEPT ![selected] = m]
  /\ UNCHANGED <<selected, chat>>

\* A model that was chosen earlier and is not in the list gives way to the
\* default, or to the first of the list, or to none when the list is empty.
ModelsArrive(e, answer) ==
  LET list == ListOf(answer)
  IN
  /\ listing[e] = "loading"
  /\ listing' = [listing EXCEPT ![e] = "listed"]
  /\ offered' = [offered EXCEPT ![e] = list]
  /\ \E m \in IF modelOf[e] \in list THEN {modelOf[e]} ELSE FirstOf(answer.default, list) :
       modelOf' = [modelOf EXCEPT ![e] = m]
  /\ UNCHANGED <<selected, chat>>

ModelsFail(e) ==
  /\ listing[e] = "loading"
  /\ listing' = [listing EXCEPT ![e] = "failed"]
  /\ UNCHANGED <<settings, offered, chat>>

-------------------------------------------------------------------------------
(* Sending. *)

\* Mutant: Send is disabled only when the message is posted.
SendMessageLate(n) ==
  /\ ~sending
  /\ ask[n] = "new"
  /\ \A k \in Sends : k < n => ask[k] # "new"
  /\ conversation' = conversation \o <<Entry("user", n), Entry("thinking", n)>>
  /\ ask' = [ask EXCEPT ![n] = "context"]
  /\ UNCHANGED <<settings, lists, sending, forced, cleared>>

\* sendMessage, which does nothing while a message is under way.
SendMessage(n) ==
  /\ ~sending
  /\ ask[n] = "new"
  /\ \A k \in Sends : k < n => ask[k] # "new"
  /\ conversation' = conversation \o <<Entry("user", n), Entry("thinking", n)>>
  /\ sending' = TRUE
  /\ ask' = [ask EXCEPT ![n] = "context"]
  /\ UNCHANGED <<settings, lists, forced, cleared>>

\* The directive's send while a message is under way: it only gives Send back.
ForceSend ==
  /\ sending
  /\ sending' = FALSE
  /\ forced' = TRUE
  /\ UNCHANGED <<settings, lists, conversation, ask, cleared>>

\* The body of a POST: the engine and its model as they are when the context
\* is there, not as they were when the operator sent the message.
Body ==
  [engine |-> selected,
   model |-> IF selected = None THEN None ELSE modelOf[selected]]

\* The context of message n is there, and Body is posted.
Post(n) ==
  /\ ask[n] = "context"
  /\ ask' = [ask EXCEPT ![n] = "posted"]
  /\ UNCHANGED <<settings, lists, conversation, sending, forced, cleared>>

\* Mutant: with each spinner the entry below it goes, too.
RemoveThinkingAndNext(c) ==
  LET Goes(i) == c[i].role = "thinking"
      kept == SelectSeq([i \in DOMAIN c |-> i],
                        LAMBDA i : ~Goes(i) /\ (i > 1 => ~Goes(i - 1)))
  IN [k \in DOMAIN kept |-> c[kept[k]]]

\* removeThinking: every spinner goes, whichever message it is of.  left[i] is
\* what is left of the first i entries.
RemoveThinking(c) ==
  LET left[i \in 0..Len(c)] ==
        IF i = 0 THEN <<>>
        ELSE IF c[i].role = "thinking" THEN left[i - 1]
        ELSE Append(left[i - 1], c[i])
  IN left[Len(c)]

\* Mutant: a request that failed leaves the spinner and Send as they are.
FailSilently(n) ==
  /\ n \in InFlight
  /\ ask' = [ask EXCEPT ![n] = "done"]
  /\ conversation' = Append(conversation, Entry("error", n))
  /\ UNCHANGED <<settings, lists, sending, forced, cleared>>

\* How a message ends: either way Send is given back.
Complete(n, role) ==
  /\ ask' = [ask EXCEPT ![n] = "done"]
  /\ conversation' = Append(RemoveThinking(conversation), Entry(role, n))
  /\ sending' = FALSE
  /\ UNCHANGED <<settings, lists, forced, cleared>>

Reply(n) ==
  /\ ask[n] = "posted"
  /\ Complete(n, "assistant")

\* The POST fails, or the context does, and nothing is posted.
Fail(n) ==
  /\ n \in InFlight
  /\ Complete(n, "error")

ClearConversation ==
  /\ conversation # <<>>
  /\ conversation' = <<>>
  /\ cleared' = cleared \cup InFlight
  /\ UNCHANGED <<settings, lists, sending, ask, forced>>

-------------------------------------------------------------------------------

Answer(n) == Reply(n) \/ Fail(n)

Operator ==
  \/ \E e \in Engines : SelectEngine(e)
  \/ \E m \in Models : SelectModel(m)
  \/ \E n \in Sends : SendMessage(n)
  \/ OpenAgain \/ ForceSend \/ ClearConversation

Server ==
  \/ \E engines \in SUBSET Engines, default \in Engines \cup {None}, opening \in BOOLEAN :
       InfoArrives(engines, default, opening)
  \/ \E e \in Engines : \/ \E answer \in Answers[e] : ModelsArrive(e, answer)
                       \/ ModelsFail(e)
  \/ \E n \in Sends : Post(n) \/ Answer(n)

Next == Operator \/ Server

\* Every request of the page is answered or fails in the end: those for the
\* context of a message, and its POST.
Fairness ==
  \A n \in Sends : WF_vars(Post(n) \/ Answer(n))

Spec == Init /\ [][Next]_vars /\ Fairness

-------------------------------------------------------------------------------
(* Properties. *)

TypeOK ==
  /\ selected \in Engines \cup {None}
  /\ listing \in [Engines -> {"absent", "loading", "listed", "failed"}]
  /\ offered \in [Engines -> SUBSET Models]
  /\ modelOf \in [Engines -> Models \cup {None}]
  /\ conversation \in Seq([role : {"user", "thinking", "assistant", "error"}, of : Sends])
  /\ sending \in BOOLEAN
  /\ ask \in [Sends -> {"new", "context", "posted", "done"}]
  /\ forced \in BOOLEAN
  /\ cleared \in SUBSET Sends

Says(role) == {i \in DOMAIN conversation : conversation[i].role = role}

\* A spinner is shown, and Send is off, only while a message is under way: a
\* reply that is lost, or that overtakes another, leaves neither behind.
SpinnerMeansWaiting ==
  (Says("thinking") # {} \/ sending) => InFlight # {}

\* Messages are under way one at a time, until the operator insists.
OneAtATime == Cardinality(InFlight) <= 1 \/ forced

\* The answer to a message stands below the message, also when answers come in
\* the wrong order, unless the conversation was cleared in between.
AnswerFollowsQuestion ==
  \A i \in Says("assistant") \cup Says("error") :
    \/ conversation[i].of \in cleared
    \/ \E j \in Says("user") : j < i /\ conversation[j].of = conversation[i].of

\* Whenever a message is posted to an engine whose list is there, it names a
\* model of that list, however lists arrive, whatever they hold and whatever was
\* selected while the context was awaited; it names none only if the list is
\* empty.  Without a list (not there yet, or failed) a model that was remembered
\* is posted unchecked.
RequestNamesOfferedModel ==
  AwaitingContext # {} /\ Body.engine # None /\ listing[Body.engine] = "listed" =>
    \/ Body.model \in offered[Body.engine]
    \/ Body.model = None /\ offered[Body.engine] = {}

\* Send comes back.
SendComesBack == sending ~> ~sending

================================================================================
