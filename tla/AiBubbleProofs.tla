----------------------------- MODULE AiBubbleProofs -----------------------------
(***************************************************************************)
(* What TLAPS proves of AiBubble: for any engines and models, and any      *)
(* number of messages, what a message is posted with, that messages do not *)
(* overlap, and what the conversation and Send show of them.               *)
(***************************************************************************)
EXTENDS AiBubble, FiniteSetTheorems, WellFoundedInduction, TLAPS

SettingsOK ==
  /\ selected \in Engines \cup {None}
  /\ listing \in [Engines -> {"absent", "loading", "listed", "failed"}]
  /\ offered \in [Engines -> SUBSET Models]
  /\ modelOf \in [Engines -> Models \cup {None}]

AskOK == ask \in [Sends -> {"new", "context", "posted", "done"}]

\* Whatever engine is selected: the model of an engine whose list is there is of
\* that list, or none of an empty one; without a list none is offered.
OfferedInv ==
  \A e \in Engines :
    IF listing[e] = "listed"
    THEN modelOf[e] \in offered[e] \/ (modelOf[e] = None /\ offered[e] = {})
    ELSE offered[e] = {}

\* Until the operator insists, Send is off while the one message is under way.
SendOff == ~forced => /\ \A n \in InFlight : sending
                      /\ \A m, n \in InFlight : m = n

IInv == SettingsOK /\ AskOK /\ OfferedInv /\ SendOff

(***************************************************************************)
(* The initial states.                                                     *)
(***************************************************************************)
LEMMA InvInit == Init => IInv
<1> SUFFICES ASSUME Init PROVE IInv
  OBVIOUS
<1>1. SettingsOK
  BY SavedAssumption DEF Init, SettingsOK
<1>2. AskOK
  BY DEF Init, AskOK
<1>3. InFlight = {}
  BY DEF Init, InFlight
<1>4. OfferedInv
  BY DEF Init, OfferedInv
<1> QED BY <1>1, <1>2, <1>3, <1>4 DEF IInv, SendOff

(***************************************************************************)
(* The operator selects, and answers arrive.                               *)
(***************************************************************************)
LEMMA Loaded ==
  ASSUME SettingsOK, OfferedInv, NEW e \in Engines, Load(e), UNCHANGED <<modelOf, offered>>
  PROVE  listing' \in [Engines -> {"absent", "loading", "listed", "failed"}] /\ OfferedInv'
  BY DEF SettingsOK, OfferedInv, Load

LEMMA SendOffKept ==
  ASSUME SendOff, UNCHANGED <<forced, sending, ask>>
  PROVE  SendOff'
  BY DEF SendOff, InFlight

\* What is taken instead is one of the others, or what was given, or nothing
\* when there is neither.
LEMMA FirstOfSome ==
  ASSUME NEW one, NEW others, NEW x \in FirstOf(one, others)
  PROVE  x = one \/ x \in others \/ (x = None /\ others = {})
  BY DEF FirstOf

LEMMA InvSettings ==
  ASSUME IInv,
         \/ \E e \in Engines : \/ SelectEngine(e) \/ ModelsFail(e)
                             \/ \E answer \in Answers[e] : ModelsArrive(e, answer)
         \/ \E m \in Models : SelectModel(m)
         \/ OpenAgain
         \/ \E engines \in SUBSET Engines, default \in Engines \cup {None}, opening \in BOOLEAN :
              InfoArrives(engines, default, opening)
  PROVE  IInv'
<1> USE DEF IInv, settings, lists, chat
<1>1. ASSUME NEW e \in Engines, SelectEngine(e) PROVE IInv'
  <2>1. SettingsOK' /\ OfferedInv'
    BY <1>1, Loaded DEF SelectEngine, SettingsOK
  <2> QED
    BY <1>1, <2>1, SendOffKept DEF SelectEngine, AskOK
<1>2. ASSUME NEW e \in Engines, NEW answer \in Answers[e], ModelsArrive(e, answer)
      PROVE  IInv'
  <2> DEFINE list == ListOf(answer)
  <2>1. answer \in [models : SUBSET Models, default : Models \cup {None}]
    BY AnswersAssumption
  <2>2. /\ list \in SUBSET Models
        /\ answer.default = None \/ answer.default \in list
    BY <2>1 DEF ListOf
  <2> HIDE DEF list
  <2>3. PICK m \in IF modelOf[e] \in list THEN {modelOf[e]} ELSE FirstOf(answer.default, list) :
          modelOf' = [modelOf EXCEPT ![e] = m]
    BY <1>2 DEF ModelsArrive, list
  <2>4. m \in list \/ (m = None /\ list = {})
    BY <2>2, <2>3 DEF FirstOf
  <2>5. /\ listing' = [listing EXCEPT ![e] = "listed"]
        /\ offered' = [offered EXCEPT ![e] = list]
        /\ UNCHANGED <<selected, chat>>
    BY <1>2 DEF ModelsArrive, list
  <2>6. SettingsOK'
    BY <2>2, <2>3, <2>4, <2>5 DEF SettingsOK
  <2>7. OfferedInv'
    BY <2>3, <2>4, <2>5 DEF SettingsOK, OfferedInv
  <2> QED
    BY <2>5, <2>6, <2>7, SendOffKept DEF AskOK
<1>3. ASSUME NEW e \in Engines, ModelsFail(e) PROVE IInv'
  <2>1. SettingsOK' /\ OfferedInv'
    BY <1>3 DEF ModelsFail, SettingsOK, OfferedInv
  <2> QED BY <1>3, <2>1, SendOffKept DEF ModelsFail, AskOK
<1>4. ASSUME NEW m \in Models, SelectModel(m) PROVE IInv'
  <2>1. SettingsOK' /\ OfferedInv'
    BY <1>4 DEF SelectModel, SettingsOK, OfferedInv
  <2> QED BY <1>4, <2>1, SendOffKept DEF SelectModel, AskOK
<1>5. CASE OpenAgain
  <2>1. SettingsOK' /\ OfferedInv'
    BY <1>5, Loaded DEF OpenAgain, SettingsOK
  <2> QED BY <1>5, <2>1, SendOffKept DEF OpenAgain, AskOK
<1>6. ASSUME NEW engines \in SUBSET Engines, NEW default \in Engines \cup {None},
             NEW opening \in BOOLEAN, InfoArrives(engines, default, opening)
      PROVE  IInv'
  <2>1. PICK e : /\ e \in IF selected \in engines THEN {selected}
                          ELSE FirstOf(default, engines)
                 /\ selected' = e
                 /\ IF opening /\ e # None THEN Load(e) ELSE UNCHANGED listing
                 /\ UNCHANGED <<modelOf, offered, chat>>
    BY <1>6 DEF InfoArrives
  <2>2. e \in Engines \cup {None}
    BY <2>1, FirstOfSome DEF SettingsOK
  <2>3. SettingsOK' /\ OfferedInv'
    <3>1. CASE opening /\ e # None
      BY <2>1, <2>2, <3>1, Loaded DEF SettingsOK
    <3>2. CASE ~(opening /\ e # None)
      BY <2>1, <2>2, <3>2 DEF SettingsOK, OfferedInv
    <3> QED BY <3>1, <3>2
  <2> QED BY <2>1, <2>3, SendOffKept DEF AskOK
<1> QED BY <1>1, <1>2, <1>3, <1>4, <1>5, <1>6

(***************************************************************************)
(* A message is sent, posted and answered.                                 *)
(***************************************************************************)
LEMMA InvMessage ==
  ASSUME IInv, NEW n \in Sends, SendMessage(n) \/ Post(n) \/ Answer(n)
  PROVE  IInv'
<1> USE DEF IInv, settings, lists
<1>1. SettingsOK' /\ OfferedInv'
  BY DEF SendMessage, Post, Answer, Reply, Fail, Complete, SettingsOK, OfferedInv
<1>2. CASE SendMessage(n)
  BY <1>1, <1>2 DEF SendMessage, SendOff, InFlight, AskOK
<1>3. CASE Post(n)
  BY <1>1, <1>3 DEF Post, SendOff, InFlight, AskOK
<1>4. CASE Answer(n)
  <2>1. ask' = [ask EXCEPT ![n] = "done"] /\ n \in InFlight /\ UNCHANGED forced
    BY <1>4 DEF Answer, Reply, Fail, Complete, InFlight
  <2>2. InFlight' = InFlight \ {n}
    BY <2>1 DEF InFlight, AskOK
  <2> QED BY <1>1, <2>1, <2>2 DEF SendOff, AskOK
<1> QED BY <1>2, <1>3, <1>4

LEMMA InvStep == IInv /\ [Next]_vars => IInv'
<1> SUFFICES ASSUME IInv, [Next]_vars PROVE IInv'
  OBVIOUS
<1>1. CASE Server \/ (Operator /\ ~ForceSend /\ ~ClearConversation)
  BY <1>1, InvSettings, InvMessage DEF Server, Operator
<1>2. ASSUME ForceSend \/ ClearConversation \/ UNCHANGED vars
      PROVE  /\ UNCHANGED <<settings, lists, ask>>
             /\ forced' \/ UNCHANGED <<sending, forced>>
  BY <1>2 DEF ForceSend, ClearConversation, vars, chat
<1>3. CASE ForceSend \/ ClearConversation \/ UNCHANGED vars
  <2>1. SettingsOK' /\ OfferedInv' /\ AskOK'
    BY <1>2, <1>3 DEF IInv, SettingsOK, OfferedInv, AskOK, settings, lists
  <2>2. SendOff'
    BY <1>2, <1>3, SendOffKept DEF IInv, SendOff
  <2> QED BY <2>1, <2>2 DEF IInv
<1> QED BY <1>1, <1>3 DEF Next

(***************************************************************************)
(* removeThinking.  What a recursive function computes is proved by        *)
(* induction on the set of numbers up to which it does.                    *)
(***************************************************************************)
Entries == [role : {"user", "thinking", "assistant", "error"}, of : Sends]

Less == {p \in Nat \X Nat : p[1] < p[2]}

LEMMA LessWellFounded == IsWellFoundedOn(Less, Nat)
<1>1. Less = OpToRel(<, Nat)
  BY DEF OpToRel, Less
<1> QED BY <1>1, NatLessThanWellFounded

LEMMA Induction ==
  ASSUME NEW S \in SUBSET Nat, 0 \in S, \A n \in S : n + 1 \in S
  PROVE  S = Nat
<1> SUFFICES ASSUME Nat \ S # {} PROVE FALSE
  OBVIOUS
<1>1. PICK n \in Nat \ S : \A m \in Nat \ S : ~ (<<m, n>> \in Less)
  BY LessWellFounded, WFMin
<1>2. n # 0 /\ n - 1 \in Nat
  BY <1>1
<1>3. <<n - 1, n>> \in Less
  BY <1>1, <1>2 DEF Less
<1>4. n - 1 \in S
  BY <1>1, <1>2, <1>3
<1> QED BY <1>1, <1>2, <1>4

\* f computes what is left of the first entries of c, up to the n-th.
Leaves(f, c, n) ==
  f = [i \in 0..n |->
         IF i = 0 THEN <<>>
         ELSE IF c[i].role = "thinking" THEN f[i - 1]
         ELSE Append(f[i - 1], c[i])]

LEMMA LeftExists ==
  ASSUME NEW c
  PROVE  \A n \in Nat : \E f : Leaves(f, c, n)
<1> DEFINE S == {n \in Nat : \E f : Leaves(f, c, n)}
<1>1. 0 \in S
  <2> DEFINE g == [i \in 0..0 |-> <<>>]
  <2>1. Leaves(g, c, 0)
    BY DEF Leaves
  <2> QED BY <2>1
<1>2. ASSUME NEW n \in S PROVE n + 1 \in S
  <2>1. PICK f : Leaves(f, c, n)
    OBVIOUS
  <2> DEFINE g == [i \in 0..(n + 1) |->
                     IF i <= n THEN f[i]
                     ELSE IF c[i].role = "thinking" THEN f[n]
                     ELSE Append(f[n], c[i])]
  <2>2. \A i \in 0..n : g[i] = f[i]
    OBVIOUS
  <2>3. \A i \in 0..n : f[i] = IF i = 0 THEN <<>>
                               ELSE IF c[i].role = "thinking" THEN f[i - 1]
                               ELSE Append(f[i - 1], c[i])
    BY <2>1 DEF Leaves
  <2>4. \A i \in 0..(n + 1) : g[i] = IF i = 0 THEN <<>>
                               ELSE IF c[i].role = "thinking" THEN g[i - 1]
                               ELSE Append(g[i - 1], c[i])
    <3> TAKE i \in 0..(n + 1)
    <3>1. CASE i = n + 1
      BY <3>1, <2>2
    <3>2. CASE i \in 0..n
      BY <3>2, <2>2, <2>3
    <3> QED BY <3>1, <3>2
  <2>5. g = [i \in 0..(n + 1) |-> g[i]]
    OBVIOUS
  <2> HIDE DEF g
  <2>6. Leaves(g, c, n + 1)
    BY <2>4, <2>5 DEF Leaves
  <2> QED BY <2>6
<1> HIDE DEF S
<1>3. S \in SUBSET Nat
  BY DEF S
<1>4. S = Nat
  BY <1>1, <1>2, <1>3, Induction
<1> QED BY <1>4 DEF S

LEMMA LeftIs ==
  ASSUME NEW c, Len(c) \in Nat
  PROVE  \E f : Leaves(f, c, Len(c)) /\ RemoveThinking(c) = f[Len(c)]
<1> DEFINE f == CHOOSE g : Leaves(g, c, Len(c))
<1>1. Leaves(f, c, Len(c))
  BY LeftExists
<1>2. RemoveThinking(c) = f[Len(c)]
  BY DEF RemoveThinking, Leaves
<1> QED BY <1>1, <1>2

\* What a list of entries d keeps of the first n entries of c: what is no
\* spinner and nothing else, each below what it was below.
Kept(d, c, n) ==
  /\ d \in Seq(Entries)
  /\ \A i \in DOMAIN d : d[i].role # "thinking"
  /\ \A j \in 1..n : c[j].role # "thinking" => \E i \in DOMAIN d : d[i] = c[j]
  /\ \A i \in DOMAIN d : \E j \in 1..n :
       /\ d[i] = c[j]
       /\ \A m \in 1..(j - 1) :
            c[m].role # "thinking" => \E k \in 1..(i - 1) : d[k] = c[m]

LEMMA KeptMore ==
  ASSUME NEW c \in Seq(Entries), NEW n \in Nat, n + 1 \in DOMAIN c,
         NEW d, Kept(d, c, n)
  PROVE  IF c[n + 1].role = "thinking" THEN Kept(d, c, n + 1)
         ELSE Kept(Append(d, c[n + 1]), c, n + 1)
<1>1. CASE c[n + 1].role = "thinking"
  <2>1. \A j \in 1..(n + 1) : c[j].role # "thinking" => j \in 1..n
    BY <1>1
  <2>2. 1..n \subseteq 1..(n + 1)
    OBVIOUS
  <2>3. \A j \in 1..(n + 1) : c[j].role # "thinking" => \E i \in DOMAIN d : d[i] = c[j]
    BY <2>1 DEF Kept
  <2>4. \A i \in DOMAIN d : \E j \in 1..(n + 1) :
         /\ d[i] = c[j]
         /\ \A m \in 1..(j - 1) :
              c[m].role # "thinking" => \E k \in 1..(i - 1) : d[k] = c[m]
    BY <2>2 DEF Kept
  <2> QED BY <1>1, <2>3, <2>4 DEF Kept
<1>2. CASE c[n + 1].role # "thinking"
  <2> DEFINE e == Append(d, c[n + 1])
             l == Len(d) + 1
  <2>1. c[n + 1] \in Entries
    OBVIOUS
  <2>2. /\ d \in Seq(Entries) /\ e \in Seq(Entries) /\ Len(d) \in Nat
        /\ DOMAIN d = 1..Len(d) /\ DOMAIN e = 1..l
        /\ \A i \in DOMAIN d : e[i] = d[i]
        /\ e[l] = c[n + 1]
    BY <2>1 DEF Kept
  <2> HIDE DEF e
  <2>3. \A i \in DOMAIN e : e[i].role # "thinking"
    <3> TAKE i \in DOMAIN e
    <3>1. CASE i = l
      BY <3>1, <1>2, <2>2
    <3>2. CASE i \in DOMAIN d
      BY <3>2, <2>2 DEF Kept
    <3> QED BY <3>1, <3>2, <2>2
  <2>4. ASSUME NEW j \in 1..(n + 1), c[j].role # "thinking"
        PROVE  \E i \in DOMAIN e : e[i] = c[j]
    <3>1. CASE j = n + 1
      <4>1. l \in DOMAIN e
        BY <2>2
      <4> QED BY <3>1, <4>1, <2>2
    <3>2. CASE j \in 1..n
      <4>1. PICK i \in DOMAIN d : d[i] = c[j]
        BY <2>4, <3>2 DEF Kept
      <4> QED BY <4>1, <2>2
    <3> QED BY <3>1, <3>2
  <2>5. ASSUME NEW i \in DOMAIN e
        PROVE  \E j \in 1..(n + 1) :
                 /\ e[i] = c[j]
                 /\ \A m \in 1..(j - 1) :
                      c[m].role # "thinking" => \E k \in 1..(i - 1) : e[k] = c[m]
    <3>1. CASE i = l
      <4>1. ASSUME NEW m \in 1..n, c[m].role # "thinking"
            PROVE  \E k \in 1..(i - 1) : e[k] = c[m]
        <5>1. PICK k \in DOMAIN d : d[k] = c[m]
          BY <4>1 DEF Kept
        <5> QED BY <3>1, <5>1, <2>2
      <4>2. n + 1 \in 1..(n + 1) /\ (n + 1) - 1 = n /\ e[i] = c[n + 1]
        BY <3>1, <2>2
      <4> QED BY <4>1, <4>2
    <3>2. CASE i \in DOMAIN d
      <4>1. PICK j \in 1..n :
              /\ d[i] = c[j]
              /\ \A m \in 1..(j - 1) :
                   c[m].role # "thinking" => \E k \in 1..(i - 1) : d[k] = c[m]
        BY <3>2 DEF Kept
      <4>2. ASSUME NEW m \in 1..(j - 1), c[m].role # "thinking"
            PROVE  \E k \in 1..(i - 1) : e[k] = c[m]
        <5>1. PICK k \in 1..(i - 1) : d[k] = c[m]
          BY <4>1, <4>2
        <5>2. k \in DOMAIN d
          BY <5>1, <3>2, <2>2
        <5> QED BY <5>1, <5>2, <2>2
      <4>3. j \in 1..(n + 1) /\ e[i] = c[j]
        BY <3>2, <4>1, <2>2
      <4> QED BY <4>2, <4>3
    <3> QED BY <3>1, <3>2, <2>2
  <2>6. Kept(e, c, n + 1)
    BY <2>2, <2>3, <2>4, <2>5 DEF Kept
  <2> QED BY <1>2, <2>6 DEF e
<1> QED BY <1>1, <1>2

\* removeThinking removes the spinners and keeps the rest, in its order.
LEMMA RemoveThinkingKeeps ==
  ASSUME NEW c \in Seq(Entries)
  PROVE  Kept(RemoveThinking(c), c, Len(c))
<1>1. Len(c) \in Nat /\ DOMAIN c = 1..Len(c)
  OBVIOUS
<1>2. PICK f : Leaves(f, c, Len(c)) /\ RemoveThinking(c) = f[Len(c)]
  BY <1>1, LeftIs
<1>3. \A i \in 0..Len(c) : f[i] = IF i = 0 THEN <<>>
                                  ELSE IF c[i].role = "thinking" THEN f[i - 1]
                                  ELSE Append(f[i - 1], c[i])
  BY <1>2 DEF Leaves
<1> DEFINE S == {n \in Nat : n <= Len(c) => Kept(f[n], c, n)}
<1>4. 0 \in S
  <2>1. f[0] = <<>>
    BY <1>1, <1>3
  <2>2. <<>> \in Seq(Entries) /\ DOMAIN <<>> = {}
    OBVIOUS
  <2>3. Kept(<<>>, c, 0)
    BY <2>2 DEF Kept
  <2> QED BY <2>1, <2>3
<1>5. ASSUME NEW n \in S PROVE n + 1 \in S
  <2>1. CASE n + 1 <= Len(c)
    <3>1. Kept(f[n], c, n) /\ n + 1 \in DOMAIN c /\ n + 1 \in 0..Len(c) /\ n + 1 # 0
      BY <1>1, <2>1
    <3>2. f[n + 1] = IF c[n + 1].role = "thinking" THEN f[n] ELSE Append(f[n], c[n + 1])
      BY <1>3, <3>1
    <3>3. Kept(f[n + 1], c, n + 1)
      BY <3>1, <3>2, KeptMore
    <3> QED BY <3>3
  <2>2. CASE ~ (n + 1 <= Len(c))
    BY <2>2
  <2> QED BY <2>1, <2>2
<1> HIDE DEF S
<1>6. S \in SUBSET Nat
  BY DEF S
<1>7. S = Nat
  BY <1>4, <1>5, <1>6, Induction
<1> QED BY <1>1, <1>2, <1>7 DEF S

(***************************************************************************)
(* The conversation.                                                       *)
(***************************************************************************)
ChatOK ==
  /\ conversation \in Seq(Entries)
  /\ sending \in BOOLEAN
  /\ forced \in BOOLEAN
  /\ cleared \in SUBSET Sends

\* The question of a message that is under way stands there, unless cleared.
AskedInv ==
  \A n \in InFlight \ cleared : \E j \in Says("user") : conversation[j].of = n

ChatInv == ChatOK /\ SpinnerMeansWaiting /\ AnswerFollowsQuestion /\ AskedInv

LEMMA ChatInit == Init => ChatInv
<1> SUFFICES ASSUME Init PROVE ChatInv
  OBVIOUS
<1>1. conversation = <<>> /\ DOMAIN conversation = {} /\ conversation \in Seq(Entries)
  BY DEF Init
<1>2. ChatOK
  BY <1>1 DEF Init, ChatOK
<1>3. \A role : Says(role) = {}
  BY <1>1 DEF Says
<1>4. InFlight = {} /\ ~sending
  BY DEF Init, InFlight
<1> QED BY <1>2, <1>3, <1>4 DEF ChatInv, SpinnerMeansWaiting, AnswerFollowsQuestion, AskedInv

\* What leaves the conversation, Send and the requests alone.
LEMMA ChatKept ==
  ASSUME ChatInv, UNCHANGED chat
  PROVE  ChatInv'
<1>1. ChatOK'
  BY DEF ChatInv, ChatOK, chat
<1>2. InFlight' = InFlight /\ \A role : Says(role)' = Says(role)
  BY DEF chat, InFlight, Says
<1>3. SpinnerMeansWaiting'
  BY <1>2 DEF ChatInv, SpinnerMeansWaiting, chat
<1>4. AnswerFollowsQuestion'
  BY <1>2 DEF ChatInv, AnswerFollowsQuestion, chat
<1>5. AskedInv'
  BY <1>2 DEF ChatInv, AskedInv, chat
<1> QED BY <1>1, <1>3, <1>4, <1>5 DEF ChatInv

LEMMA ChatSend ==
  ASSUME IInv, ChatInv, NEW n \in Sends, SendMessage(n)
  PROVE  ChatInv'
<1> DEFINE c == conversation
           d == conversation \o <<Entry("user", n), Entry("thinking", n)>>
           l == Len(c)
<1>1. /\ c \in Seq(Entries)
      /\ Entry("user", n) \in Entries /\ Entry("thinking", n) \in Entries
      /\ ask[n] = "new" /\ ask' = [ask EXCEPT ![n] = "context"]
      /\ UNCHANGED <<forced, cleared>> /\ sending' = TRUE /\ c' = d
  BY DEF ChatInv, ChatOK, SendMessage, Entries, Entry
<1>2. /\ d \in Seq(Entries) /\ DOMAIN d = 1..(l + 2) /\ DOMAIN c = 1..l /\ l \in Nat
      /\ \A i \in DOMAIN c : d[i] = c[i]
      /\ d[l + 1] = Entry("user", n) /\ d[l + 2] = Entry("thinking", n)
  BY <1>1
<1> HIDE DEF d
<1>3. /\ d[l + 1].role = "user" /\ d[l + 1].of = n
      /\ d[l + 2].role = "thinking"
  BY <1>2 DEF Entry
<1>4. ChatOK'
  BY <1>1, <1>2 DEF ChatInv, ChatOK
<1>5. InFlight' = InFlight \cup {n}
  BY <1>1 DEF InFlight, IInv, AskOK
<1>6. l + 1 \in Says("user")' /\ Says("user") \subseteq Says("user")'
  BY <1>1, <1>2, <1>3 DEF Says
<1>7. Says("assistant")' = Says("assistant") /\ Says("error")' = Says("error")
  BY <1>1, <1>2, <1>3 DEF Says
<1>8. \A i \in Says("user") \cup Says("assistant") \cup Says("error") : d[i] = c[i]
  BY <1>2 DEF Says
<1>9. SpinnerMeansWaiting'
  BY <1>5 DEF SpinnerMeansWaiting
<1>10. AnswerFollowsQuestion'
  BY <1>1, <1>6, <1>7, <1>8 DEF AnswerFollowsQuestion, ChatInv
<1>11. AskedInv'
  <2> SUFFICES ASSUME NEW m \in (InFlight \cup {n}) \ cleared
               PROVE  \E j \in Says("user")' : d[j].of = m
    BY <1>1, <1>5 DEF AskedInv
  <2>1. CASE m = n
    BY <2>1, <1>3, <1>6
  <2>2. CASE m \in InFlight
    BY <2>2, <1>6, <1>8 DEF ChatInv, AskedInv
  <2> QED BY <2>1, <2>2
<1> QED BY <1>4, <1>9, <1>10, <1>11 DEF ChatInv

LEMMA ChatPost ==
  ASSUME IInv, ChatInv, NEW n \in Sends, Post(n)
  PROVE  ChatInv'
<1>1. /\ UNCHANGED <<conversation, sending, forced, cleared>>
      /\ InFlight' = InFlight
  BY DEF Post, InFlight, IInv, AskOK
<1>2. \A role : Says(role)' = Says(role)
  BY <1>1 DEF Says
<1>3. ChatOK'
  BY <1>1 DEF ChatInv, ChatOK
<1>4. SpinnerMeansWaiting' /\ AnswerFollowsQuestion' /\ AskedInv'
  BY <1>1, <1>2 DEF ChatInv, SpinnerMeansWaiting, AnswerFollowsQuestion, AskedInv
<1> QED BY <1>3, <1>4 DEF ChatInv

\* The reply of n, or its failure: the spinners go, also those of others, and
\* the answer stands below what is left.
LEMMA ChatAnswer ==
  ASSUME IInv, ChatInv, NEW n \in Sends, NEW role \in {"assistant", "error"},
         n \in InFlight, Complete(n, role)
  PROVE  ChatInv'
<1> DEFINE c == conversation
           d == RemoveThinking(conversation)
           e == Append(d, Entry(role, n))
           l == Len(d) + 1
<1>1. /\ c \in Seq(Entries) /\ DOMAIN c = 1..Len(c) /\ Entry(role, n) \in Entries
      /\ ask' = [ask EXCEPT ![n] = "done"]
      /\ UNCHANGED <<forced, cleared>> /\ sending' = FALSE /\ c' = e
  BY DEF ChatInv, ChatOK, Complete, Entries, Entry
<1>2. Kept(d, c, Len(c))
  BY <1>1, RemoveThinkingKeeps
<1> HIDE DEF d
<1>3. /\ d \in Seq(Entries) /\ e \in Seq(Entries) /\ Len(d) \in Nat
      /\ DOMAIN d = 1..Len(d) /\ DOMAIN e = 1..l
      /\ \A i \in DOMAIN d : e[i] = d[i]
      /\ e[l] = Entry(role, n)
  BY <1>1, <1>2 DEF Kept
<1> HIDE DEF e
<1>4. e[l].role = role /\ e[l].of = n
  BY <1>3 DEF Entry
<1>5. ChatOK'
  BY <1>1, <1>3 DEF ChatInv, ChatOK
<1>6. InFlight' = InFlight \ {n} /\ n \in InFlight
  BY <1>1 DEF InFlight, IInv, AskOK
<1>7. Says("thinking")' = {}
  BY <1>1, <1>2, <1>3, <1>4 DEF Says, Kept
<1>8. SpinnerMeansWaiting'
  BY <1>1, <1>7 DEF SpinnerMeansWaiting
\* Every question that stands in c stands in d.
<1>9. ASSUME NEW j \in Says("user")
      PROVE  \E i \in DOMAIN d : d[i] = c[j] /\ i \in Says("user")'
  <2>1. j \in 1..Len(c) /\ c[j].role = "user"
    BY <1>1 DEF Says
  <2>2. PICK i \in DOMAIN d : d[i] = c[j]
    BY <1>2, <2>1 DEF Kept
  <2> QED BY <1>1, <1>3, <2>1, <2>2 DEF Says
<1>10. AskedInv'
  <2> SUFFICES ASSUME NEW m \in InFlight \ cleared
               PROVE  \E i \in Says("user")' : e[i].of = m
    BY <1>1, <1>6 DEF AskedInv
  <2>1. PICK j \in Says("user") : c[j].of = m
    BY DEF ChatInv, AskedInv
  <2> QED BY <2>1, <1>3, <1>9
<1>11. AnswerFollowsQuestion'
  <2> SUFFICES ASSUME NEW i \in DOMAIN e, e[i].role \in {"assistant", "error"},
                      e[i].of \notin cleared
               PROVE  \E j \in Says("user")' : j < i /\ e[j].of = e[i].of
    BY <1>1 DEF AnswerFollowsQuestion, Says
  <2>1. CASE i = l
    <3>1. PICK j \in Says("user") : c[j].of = n
      BY <1>4, <1>6, <2>1 DEF ChatInv, AskedInv
    <3>2. PICK k \in DOMAIN d : d[k] = c[j] /\ k \in Says("user")'
      BY <1>9
    <3> QED BY <2>1, <3>1, <3>2, <1>3, <1>4
  <2>2. CASE i \in DOMAIN d
    <3>1. PICK j \in 1..Len(c) :
            /\ d[i] = c[j]
            /\ \A m \in 1..(j - 1) :
                 c[m].role # "thinking" => \E k \in 1..(i - 1) : d[k] = c[m]
      BY <1>2, <2>2 DEF Kept
    <3>2. j \in Says("assistant") \cup Says("error") /\ c[j].of = e[i].of
      BY <1>1, <1>3, <2>2, <3>1 DEF Says
    <3>3. PICK m \in Says("user") : m < j /\ c[m].of = c[j].of
      BY <3>2 DEF ChatInv, AnswerFollowsQuestion
    <3>4. m \in 1..(j - 1) /\ c[m].role = "user"
      BY <1>1, <3>3 DEF Says
    <3>5. PICK k \in 1..(i - 1) : d[k] = c[m]
      BY <3>1, <3>4
    <3>6. k \in DOMAIN d /\ k < i /\ e[k] = c[m]
      BY <1>3, <2>2, <3>5
    <3>7. k \in Says("user")'
      BY <1>1, <1>3, <3>4, <3>6 DEF Says
    <3> QED BY <3>2, <3>3, <3>6, <3>7
  <2> QED BY <2>1, <2>2, <1>3
<1> QED BY <1>5, <1>8, <1>10, <1>11 DEF ChatInv

LEMMA ChatClear ==
  ASSUME ChatInv, ClearConversation
  PROVE  ChatInv'
<1>1. /\ conversation' = <<>> /\ cleared' = cleared \cup InFlight
      /\ UNCHANGED <<sending, forced>> /\ InFlight' = InFlight
  BY DEF ClearConversation, InFlight
<1>2. DOMAIN conversation' = {} /\ conversation' \in Seq(Entries) /\ InFlight \subseteq Sends
  BY <1>1 DEF InFlight
<1>3. ChatOK'
  BY <1>1, <1>2 DEF ChatInv, ChatOK
<1>4. \A role : Says(role)' = {}
  BY <1>2 DEF Says
<1>5. SpinnerMeansWaiting' /\ AnswerFollowsQuestion' /\ AskedInv'
  BY <1>1, <1>4 DEF ChatInv, SpinnerMeansWaiting, AnswerFollowsQuestion, AskedInv
<1> QED BY <1>3, <1>5 DEF ChatInv

LEMMA ChatForce ==
  ASSUME ChatInv, ForceSend
  PROVE  ChatInv'
<1>1. /\ UNCHANGED <<conversation, cleared>> /\ InFlight' = InFlight
      /\ sending' = FALSE /\ forced' = TRUE
  BY DEF ForceSend, InFlight
<1>2. \A role : Says(role)' = Says(role)
  BY <1>1 DEF Says
<1>3. ChatOK'
  BY <1>1 DEF ChatInv, ChatOK
<1>4. SpinnerMeansWaiting' /\ AnswerFollowsQuestion' /\ AskedInv'
  BY <1>1, <1>2 DEF ChatInv, SpinnerMeansWaiting, AnswerFollowsQuestion, AskedInv
<1> QED BY <1>3, <1>4 DEF ChatInv

LEMMA ChatStep == IInv /\ ChatInv /\ [Next]_vars => ChatInv'
<1> SUFFICES ASSUME IInv, ChatInv, [Next]_vars PROVE ChatInv'
  OBVIOUS
<1>1. ASSUME NEW n \in Sends, SendMessage(n) \/ Post(n) \/ Answer(n) PROVE ChatInv'
  <2>1. CASE Answer(n)
    <3>1. PICK role \in {"assistant", "error"} : Complete(n, role)
      BY <2>1 DEF Answer, Reply, Fail
    <3>2. n \in InFlight
      BY <2>1 DEF Answer, Reply, Fail, InFlight
    <3> QED BY <3>1, <3>2, ChatAnswer
  <2> QED BY <1>1, <2>1, ChatSend, ChatPost
<1>2. CASE ForceSend \/ ClearConversation
  BY <1>2, ChatForce, ChatClear
<1>3. ASSUME NEW e \in Engines, \/ SelectEngine(e) \/ ModelsFail(e)
                                 \/ \E answer \in Answers[e] : ModelsArrive(e, answer)
      PROVE  ChatInv'
  BY <1>3, ChatKept DEF SelectEngine, ModelsArrive, ModelsFail
<1>4. ASSUME NEW m \in Models, SelectModel(m) PROVE ChatInv'
  BY <1>4, ChatKept DEF SelectModel
<1>5. CASE OpenAgain \/ UNCHANGED vars
  BY <1>5, ChatKept DEF OpenAgain, vars
<1>6. ASSUME NEW engines, NEW default, NEW opening, InfoArrives(engines, default, opening)
      PROVE  ChatInv'
  BY <1>6, ChatKept DEF InfoArrives
<1> QED BY <1>1, <1>2, <1>3, <1>4, <1>5, <1>6 DEF Next, Operator, Server

\* The inductive invariant of the chat: the theorems below follow from it.
THEOREM Invariant == Spec => []IInv
  BY InvInit, InvStep, PTL DEF Spec

\* However the lists of models arrive, whatever they hold and whatever engine is
\* selected by then: a message to an engine whose list is there names a model of
\* that list, or none of an empty list.
THEOREM OfferedModelNamed == Spec => []RequestNamesOfferedModel
<1>1. IInv => RequestNamesOfferedModel
  BY DEF IInv, SettingsOK, OfferedInv, RequestNamesOfferedModel, Body
<1> QED BY <1>1, Invariant, PTL

\* Two messages are never under way at once, until the operator insists.
THEOREM NoOverlap == Spec => []OneAtATime
<1>1. IInv => OneAtATime
  <2> SUFFICES ASSUME IInv, ~forced PROVE Cardinality(InFlight) <= 1
    BY DEF OneAtATime
  <2>1. CASE InFlight = {}
    BY <2>1, FS_EmptySet
  <2>2. CASE InFlight # {}
    <3>1. PICK n \in InFlight : TRUE
      BY <2>2
    <3>2. InFlight = {n}
      BY <3>1 DEF IInv, SendOff
    <3>3. Cardinality(InFlight) = 1
      BY <3>2, FS_Singleton, Zenon
    <3> QED BY <3>3
  <2> QED BY <2>1, <2>2
<1> QED BY <1>1, Invariant, PTL

\* The inductive invariant of the conversation, on top of that of the chat.
THEOREM ConversationInvariant == Spec => [](IInv /\ ChatInv)
<1>1. IInv /\ ChatInv /\ [Next]_vars => IInv' /\ ChatInv'
  BY InvStep, ChatStep
<1> QED BY InvInit, ChatInit, <1>1, PTL DEF Spec

\* Type correctness, for any engines, models and number of messages.
THEOREM TypeCorrect == Spec => []TypeOK
<1>1. IInv /\ ChatInv => TypeOK
  BY DEF IInv, SettingsOK, AskOK, ChatInv, ChatOK, Entries, TypeOK
<1> QED BY <1>1, ConversationInvariant, PTL

\* No reply that is lost, late or overtaken leaves a spinner behind or Send off.
THEOREM NothingLeftWaiting == Spec => []SpinnerMeansWaiting
<1>1. IInv /\ ChatInv => SpinnerMeansWaiting
  BY DEF ChatInv
<1> QED BY <1>1, ConversationInvariant, PTL

\* An answer stands below its question, in whatever order answers come, unless
\* the conversation was cleared in between.
THEOREM AnswersBelowQuestions == Spec => []AnswerFollowsQuestion
<1>1. IInv /\ ChatInv => AnswerFollowsQuestion
  BY DEF ChatInv
<1> QED BY <1>1, ConversationInvariant, PTL

================================================================================
