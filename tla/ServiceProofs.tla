---------------------------- MODULE ServiceProofs ----------------------------
\* Theorems about services that share no state, a section for each: for any
\* number of requests, workers, events and attempts.
EXTENDS Integers, Sequences, FiniteSets, FiniteSetTheorems, TLAPS

\* The stored service token (Organizations).
CONSTANTS Requests, Home, MaxTokens
VARIABLES org, mist, saved, request

Tokens == INSTANCE Organizations

Cipher == [token : Int, by : Requests \union {"legacy"}]
Verifier == [pc : {"idle", "replace", "upgrade", "ask", "record"},
             token : Int, read : Cipher, ok : BOOLEAN]

\* A request asks about the token that its encryption is of.
AsksAboutIts(l) == l.pc \in {"upgrade", "ask", "record"} => l.read.token = l.token

TokensInv ==
    /\ org \in [cipher : Cipher, status : {"verified", "error"}, verdictOn : Int]
    /\ org.cipher.token = saved /\ org.verdictOn = saved
    /\ request \in [Requests -> Verifier]
    /\ \A r \in Requests : AsksAboutIts(request[r])

LEMMA TokensIdle == Tokens!Idle \in Verifier /\ AsksAboutIts(Tokens!Idle)
  BY DEF Tokens!Idle, Tokens!NoToken, Tokens!Stored, Verifier, Cipher, AsksAboutIts

LEMMA TokensInit == Tokens!Init => TokensInv
  BY TokensIdle DEF Tokens!Init, TokensInv, Tokens!Stored, Cipher

\* One request moves on, still with its own token.
LEMMA TokensSet ==
    ASSUME TokensInv, NEW r \in Requests, NEW l \in Verifier, AsksAboutIts(l), Tokens!Set(r, l)
    PROVE  /\ request' \in [Requests -> Verifier]
           /\ \A q \in Requests : AsksAboutIts(request'[q])
  BY DEF TokensInv, Tokens!Set

LEMMA TokensStep == TokensInv /\ [Tokens!Next]_(Tokens!vars) => TokensInv'
<1>. SUFFICES ASSUME TokensInv, [Tokens!Next]_(Tokens!vars) PROVE TokensInv'
  OBVIOUS
<1>1. CASE UNCHANGED Tokens!vars
  BY <1>1 DEF TokensInv, Tokens!vars
<1>2. ASSUME NEW t \in Tokens!Tokens, Tokens!Withdraw(t) PROVE TokensInv'
  BY <1>2 DEF TokensInv, Tokens!Withdraw
<1>3. ASSUME NEW r \in Requests
      PROVE  request[r] \in Verifier /\ AsksAboutIts(request[r])
  BY DEF TokensInv
\* Every step of a request is one of its own place; only some write the document.
<1>4. ASSUME NEW r \in Requests, NEW l \in Verifier, AsksAboutIts(l), Tokens!Set(r, l),
             NEW c \in Cipher, NEW s \in {"verified", "error"},
             org' = [cipher |-> c, status |-> s, verdictOn |-> c.token], c.token = saved'
      PROVE  TokensInv'
 <2>1. org' \in [cipher : Cipher, status : {"verified", "error"}, verdictOn : Int]
       /\ org'.cipher.token = saved' /\ org'.verdictOn = saved'
   BY <1>4 DEF Cipher
 <2>. QED BY <1>4, <2>1, TokensSet DEF TokensInv
<1>5. ASSUME NEW r \in Requests, NEW l \in Verifier, AsksAboutIts(l), Tokens!Set(r, l),
             UNCHANGED <<org, saved>>
      PROVE  TokensInv'
  BY <1>5, TokensSet DEF TokensInv
<1>6. ASSUME NEW r \in Requests, NEW t \in Tokens!Tokens, Tokens!Submit(r, t) PROVE TokensInv'
 <2>. DEFINE l == [Tokens!Idle EXCEPT !.pc = "replace", !.token = t]
 <2>1. t \in Int
   BY DEF Tokens!Tokens
 <2>2. l \in Verifier /\ AsksAboutIts(l)
   BY <2>1, TokensIdle DEF Verifier, AsksAboutIts
 <2>3. Tokens!Set(r, l) /\ UNCHANGED <<org, saved>>
   BY <1>6 DEF Tokens!Submit
 <2>. HIDE DEF l
 <2>. QED BY <2>2, <2>3, <1>5
<1>7. ASSUME NEW r \in Requests, Tokens!Replace(r) PROVE TokensInv'
 <2>. DEFINE c == Tokens!Stored(request[r].token, r)
 <2>1. c \in Cipher /\ c.token = saved'
   BY <1>3, <1>7 DEF Tokens!Replace, Tokens!Stored, Cipher, Verifier
 <2>2. org' = [cipher |-> c, status |-> "verified", verdictOn |-> c.token]
   BY <1>7 DEF Tokens!Replace, Tokens!Stored
 <2>3. Tokens!Set(r, Tokens!Idle)
   BY <1>7 DEF Tokens!Replace, Tokens!Done
 <2>. HIDE DEF c
 <2>. QED BY <2>1, <2>2, <2>3, <1>4, TokensIdle
<1>8. ASSUME NEW r \in Requests, Tokens!Read(r) PROVE TokensInv'
 <2>. DEFINE l == [Tokens!Idle EXCEPT !.pc = "upgrade", !.token = org.cipher.token, !.read = org.cipher]
 <2>1. l \in Verifier /\ AsksAboutIts(l)
   BY TokensIdle DEF Verifier, AsksAboutIts, TokensInv, Cipher
 <2>2. Tokens!Set(r, l) /\ UNCHANGED <<org, saved>>
   BY <1>8 DEF Tokens!Read
 <2>. HIDE DEF l
 <2>. QED BY <2>1, <2>2, <1>5
<1>9. ASSUME NEW r \in Requests, Tokens!Upgrade(r) PROVE TokensInv'
 <2>. DEFINE old == request[r].read
             new == Tokens!Stored(old.token, r)
             l == [request[r] EXCEPT !.pc = "ask", !.read = new]
 <2>1. new \in Cipher /\ new.token = request[r].token /\ old.token = request[r].token
   BY <1>3, <1>9 DEF Tokens!Upgrade, Tokens!Stored, Cipher, Verifier, AsksAboutIts
 <2>2. CASE old.by = "legacy"
  <3>1. l \in Verifier /\ AsksAboutIts(l)
    BY <1>3, <2>1 DEF Verifier, AsksAboutIts
  <3>2. Tokens!Set(r, l) /\ saved' = saved
        /\ org' = IF org.cipher = old THEN [org EXCEPT !.cipher = new] ELSE org
    BY <1>9, <2>2 DEF Tokens!Upgrade
  <3>. HIDE DEF l, new
  <3>3. CASE org.cipher = old
   <4>1. org' = [cipher |-> new, status |-> org.status, verdictOn |-> new.token]
         /\ new.token = saved' /\ org.status \in {"verified", "error"}
     BY <2>1, <3>2, <3>3 DEF TokensInv
   <4>. QED BY <2>1, <3>1, <3>2, <4>1, <1>4
  <3>4. CASE org.cipher # old
    BY <3>1, <3>2, <3>4, <1>5
  <3>. QED BY <3>3, <3>4
 <2>3. CASE old.by # "legacy"
  <3>. DEFINE m == [request[r] EXCEPT !.pc = "ask"]
  <3>1. m \in Verifier /\ AsksAboutIts(m)
    BY <1>3, <2>1 DEF Verifier, AsksAboutIts
  <3>2. Tokens!Set(r, m) /\ UNCHANGED <<org, saved>>
    BY <1>9, <2>3 DEF Tokens!Upgrade
  <3>. HIDE DEF m
  <3>. QED BY <3>1, <3>2, <1>5
 <2>. QED BY <2>2, <2>3
<1>10. ASSUME NEW r \in Requests, NEW answered \in BOOLEAN, Tokens!Ask(r, answered)
       PROVE  TokensInv'
 <2>. DEFINE good == answered /\ request[r].token \in mist \cap Home
             l == [request[r] EXCEPT !.pc = "record", !.ok = good]
 <2>0. good \in BOOLEAN
   OBVIOUS
 <2>1. Tokens!Set(r, l) /\ UNCHANGED <<org, saved>> /\ request[r].pc = "ask"
   BY <1>10 DEF Tokens!Ask
 <2>. HIDE DEF good
 <2>2. l \in Verifier /\ AsksAboutIts(l)
   BY <1>3, <2>0, <2>1 DEF Verifier, AsksAboutIts
 <2>. HIDE DEF l
 <2>. QED BY <2>1, <2>2, <1>5
<1>11. ASSUME NEW r \in Requests, Tokens!Record(r) PROVE TokensInv'
 <2>1. Tokens!Set(r, Tokens!Idle) /\ saved' = saved
   BY <1>11 DEF Tokens!Record, Tokens!Done
 <2>2. CASE org.cipher = request[r].read
  <3>1. request[r].token = org.cipher.token
    BY <1>3, <1>11, <2>2 DEF Tokens!Record, AsksAboutIts
  <3>2. PICK s \in {"verified", "error"} :
          org' = [cipher |-> org.cipher, status |-> s, verdictOn |-> org.cipher.token]
   <4>. DEFINE s == IF request[r].ok THEN "verified" ELSE "error"
   <4>1. org' = [org EXCEPT !.status = s, !.verdictOn = org.cipher.token]
     BY <1>11, <2>2, <3>1 DEF Tokens!Record, Tokens!Verdict
   <4>2. s \in {"verified", "error"}
     OBVIOUS
   <4>. HIDE DEF s
   <4>. QED BY <4>1, <4>2 DEF TokensInv
  <3>. QED BY <2>1, <3>2, <1>4, TokensIdle DEF TokensInv
 <2>3. CASE org.cipher # request[r].read
  <3>1. UNCHANGED <<org, saved>>
    BY <1>11, <2>3 DEF Tokens!Record
  <3>. QED BY <2>1, <3>1, <1>5, TokensIdle
 <2>. QED BY <2>2, <2>3
<1>. QED BY <1>1, <1>2, <1>6, <1>7, <1>8, <1>9, <1>10, <1>11 DEF Tokens!Next

\* The status shown is a verdict on the token in use, and that is the one saved
\* last, however verifications and replacements overlap (_record_health,
\* service_token).
THEOREM TokenIsTheOneSaved ==
    Tokens!Spec => [](Tokens!StatusIsOfTheStoredToken /\ Tokens!ReplacementSurvives)
<1>1. TokensInv => Tokens!StatusIsOfTheStoredToken /\ Tokens!ReplacementSurvives
  BY DEF TokensInv, Tokens!StatusIsOfTheStoredToken, Tokens!ReplacementSurvives
<1>. QED BY TokensInit, TokensStep, <1>1, PTL DEF Tokens!Spec

\* One write sent to Mist, with its retries (MistWrites).
CONSTANT MAX_ATTEMPTS
VARIABLES method, there, applied, attempt, ambiguous, outcome

Writes == INSTANCE MistWrites

\* Until the client answers, a write is applied at most once for each attempt
\* made, not at all without a doubt, and a create not at all.
WritesInv ==
    /\ method \in {"POST", "PUT", "DELETE"} /\ there \in BOOLEAN /\ ambiguous \in BOOLEAN
    /\ applied \in Nat /\ attempt \in 0 .. MAX_ATTEMPTS /\ applied <= MAX_ATTEMPTS
    /\ outcome \in {"none", "done", "refused", "unknown"} /\ (outcome = "none" <=> attempt > 0)
    /\ attempt > 0 =>
          /\ applied < attempt
          /\ method = "POST" => applied = 0
          /\ ~ambiguous => applied = 0
    /\ Writes!CreatedOnce /\ Writes!TheAnswerIsTrue

LEMMA WritesInit == MAX_ATTEMPTS \in Nat \ {0} /\ Writes!Init => WritesInv
<1>. SUFFICES ASSUME MAX_ATTEMPTS \in Nat \ {0}, Writes!Init PROVE WritesInv
  OBVIOUS
<1>1. there \in BOOLEAN
 <2>1. CASE method = "POST"
   BY <2>1 DEF Writes!Init
 <2>2. CASE method # "POST"
   BY <2>2 DEF Writes!Init
 <2>. QED BY <2>1, <2>2
<1>2. /\ method \in {"POST", "PUT", "DELETE"}
      /\ applied = 0 /\ attempt = 1 /\ ambiguous = FALSE /\ outcome = "none"
  BY Zenon DEF Writes!Init
<1>3. Writes!CreatedOnce /\ Writes!TheAnswerIsTrue
  BY <1>2 DEF Writes!CreatedOnce, Writes!TheAnswerIsTrue
<1>4. ambiguous \in BOOLEAN
  BY <1>2
<1>5. /\ applied \in Nat /\ attempt \in 0 .. MAX_ATTEMPTS /\ applied <= MAX_ATTEMPTS
      /\ outcome = "none" /\ attempt > 0 /\ applied < attempt /\ applied = 0
  BY <1>2
<1>. QED BY <1>1, <1>2, <1>3, <1>4, <1>5 DEF WritesInv

LEMMA WritesStep ==
    MAX_ATTEMPTS \in Nat \ {0} /\ WritesInv /\ [Writes!Next]_(Writes!vars) => WritesInv'
<1>. SUFFICES ASSUME MAX_ATTEMPTS \in Nat \ {0}, WritesInv, [Writes!Next]_(Writes!vars)
              PROVE  WritesInv'
  OBVIOUS
<1>1. CASE UNCHANGED Writes!vars
  BY <1>1 DEF Writes!vars, WritesInv, Writes!CreatedOnce, Writes!TheAnswerIsTrue
<1>2. ASSUME NEW answer \in Writes!Answers, Writes!Send(answer) PROVE WritesInv'
 <2>. USE DEF WritesInv
 \* What Mist did.
 <2>1. /\ there' \in BOOLEAN /\ applied' \in {applied, applied + 1}
       /\ answer \in {"404", "400", "429"} => applied' = applied /\ there' = there
       /\ answer = "404" => ~there /\ method # "POST"
       /\ answer \in {"200", "garbled"} => applied' = applied + 1
       /\ answer = "200" => there' = (method # "DELETE")
   BY <1>2 DEF Writes!Send, Writes!Mist, Writes!Apply, Writes!Ignore, Writes!Possible, Writes!Answers
 <2>2. method' = method /\ attempt > 0 /\ attempt \in Nat
   BY <1>2 DEF Writes!Send
 <2>3. CASE Writes!Retries(answer)
  <3>1. /\ attempt' = attempt + 1 /\ attempt < MAX_ATTEMPTS
        /\ ambiguous' = (ambiguous \/ Writes!Doubt(answer)) /\ outcome' = outcome
        /\ answer \in {"429", "502", "lost"}
        /\ method = "POST" => answer = "429"
    BY <1>2, <2>3 DEF Writes!Send, Writes!Retries, Writes!_RETRYABLE_STATUSES
  <3>2. ambiguous' \in BOOLEAN /\ (~ambiguous' => ~ambiguous /\ answer = "429")
    BY <3>1 DEF Writes!Doubt
  <3>3. Writes!CreatedOnce' /\ Writes!TheAnswerIsTrue'
    BY <2>1, <2>2, <3>1 DEF Writes!CreatedOnce, Writes!TheAnswerIsTrue
  <3>. QED BY <2>1, <2>2, <3>1, <3>2, <3>3
 <2>4. CASE ~Writes!Retries(answer)
  <3>1. attempt' = 0 /\ outcome' = Writes!Reported(answer) /\ ambiguous' = ambiguous
    BY <1>2, <2>4 DEF Writes!Send
  <3>2. outcome' \in {"done", "refused", "unknown"}
    BY <3>1 DEF Writes!Reported
  <3>3. outcome' = "refused" => ~ambiguous /\ answer \in {"404", "400", "429"}
    BY <3>1 DEF Writes!Reported, Writes!Answers
  <3>4. outcome' = "done" => answer = "200" \/ (answer = "404" /\ method = "DELETE")
    BY <3>1 DEF Writes!Reported, Writes!Answers
  <3>5. Writes!TheAnswerIsTrue'
    BY <2>1, <2>2, <3>3, <3>4 DEF Writes!TheAnswerIsTrue
  <3>6. Writes!CreatedOnce'
    BY <2>1, <2>2 DEF Writes!CreatedOnce
  <3>. QED BY <2>1, <2>2, <3>1, <3>2, <3>5, <3>6
 <2>. QED BY <2>3, <2>4
<1>. QED BY <1>1, <1>2 DEF Writes!Next

\* However its attempts end, one create makes one object, a write reported
\* refused was not applied and one reported done holds in Mist, for any bound on
\* the attempts (_send, _response_payload).
THEOREM AnswersAreTrue ==
    ASSUME MAX_ATTEMPTS \in Nat \ {0}
    PROVE  Writes!Spec => [](Writes!TypeOK /\ Writes!CreatedOnce /\ Writes!TheAnswerIsTrue)
<1>1. WritesInv => Writes!TypeOK /\ Writes!CreatedOnce /\ Writes!TheAnswerIsTrue
  BY DEF WritesInv, Writes!TypeOK
<1>2. Writes!Init => WritesInv
  BY WritesInit
<1>3. WritesInv /\ [Writes!Next]_(Writes!vars) => WritesInv'
  BY WritesStep
<1>. QED BY <1>1, <1>2, <1>3, PTL DEF Writes!Spec

\* The AI provider and what a test of it proved (ProviderSettings).
CONSTANTS Endpoints, Models, Supports(_, _), MaxKeys
VARIABLES conf, keys, kept, asking

Provider == INSTANCE ProviderSettings WITH request <- asking

Proof == [mode : {"none", "json_schema", "json_object"},
          endpoint : Endpoints \union {"none"}, model : Models \union {"none"}]
Asking == [pc : {"idle", "save", "check", "probe", "record"},
           endpoint : Endpoints \union {"none"}, model : Models \union {"none"},
           sent : {"keep", "new", "clear"}, key : Int, draft : BOOLEAN,
           proved : Proof, probed : BOOLEAN]

\* A proof is of the provider it names.
Honored(p) == p.mode # "none" => p.mode \in Supports(p.endpoint, p.model)

ProviderInv ==
    /\ conf \in [endpoint : Endpoints \union {"none"}, model : Models \union {"none"},
                 key : Int, proved : Proof]
    /\ keys \in Int /\ conf.key = kept
    /\ Honored(conf.proved)
    /\ asking \in [Requests -> Asking]
    /\ \A r \in Requests : Honored(asking[r].proved)

LEMMA ProviderIdle == Provider!Idle \in Asking /\ Honored(Provider!Idle.proved)
  BY DEF Provider!Idle, Provider!NoRecord, Asking, Proof, Honored

LEMMA ProviderInit == Provider!Init => ProviderInv
  BY ProviderIdle DEF Provider!Init, Provider!Unset, Provider!NoRecord, ProviderInv, Proof, Honored

\* One request moves on, with what it proved.
LEMMA ProviderSet ==
    ASSUME ProviderInv, NEW r \in Requests, NEW l \in Asking, Honored(l.proved), Provider!Set(r, l)
    PROVE  asking' \in [Requests -> Asking] /\ \A q \in Requests : Honored(asking'[q].proved)
  BY DEF ProviderInv, Provider!Set

\* The first mode a probe found honoured is one of those it found.
LEMMA FirstMode ==
    ASSUME NEW answered, answered \subseteq {"json_schema", "json_object"},
           NEW honored, honored = {i \in 1 .. 2 : Provider!Modes[i] \in answered}, honored # {}
    PROVE  Provider!Modes[CHOOSE i \in honored : \A j \in honored : i <= j] \in answered
<1>1. PICK i \in honored : \A j \in honored : i <= j
 <2>1. CASE 1 \in honored
   BY <2>1
 <2>2. CASE 1 \notin honored
   BY <2>2
 <2>. QED BY <2>1, <2>2
<1>2. (CHOOSE k \in honored : \A j \in honored : k <= j) \in honored
  BY <1>1
<1>. QED BY <1>2

LEMMA ProviderStep == ProviderInv /\ [Provider!Next]_(Provider!vars) => ProviderInv'
<1>. SUFFICES ASSUME ProviderInv, [Provider!Next]_(Provider!vars) PROVE ProviderInv'
  OBVIOUS
<1>1. CASE UNCHANGED Provider!vars
  BY <1>1 DEF ProviderInv, Provider!vars
<1>2. ASSUME NEW r \in Requests PROVE asking[r] \in Asking /\ Honored(asking[r].proved)
  BY DEF ProviderInv
\* A request that writes nothing keeps its place's type and its proof.
<1>3. ASSUME NEW r \in Requests, NEW l \in Asking, Honored(l.proved), Provider!Set(r, l),
             UNCHANGED <<conf, keys, kept>>
      PROVE  ProviderInv'
  BY <1>3, ProviderSet DEF ProviderInv
<1>4. ASSUME NEW r \in Requests, NEW e \in Endpoints, NEW m \in Models,
             NEW key \in {"new", "clear", "keep"}, NEW required \in BOOLEAN,
             Provider!Submit(r, e, m, key, required)
      PROVE  ProviderInv'
 <2>. DEFINE l == [Provider!Idle EXCEPT !.pc = "save", !.sent = key, !.endpoint = e,
                                        !.model = m, !.key = conf.key]
 <2>1. l \in Asking /\ l.proved = Provider!Idle.proved
   BY ProviderIdle DEF Asking, ProviderInv
 <2>2. Provider!Set(r, l) /\ UNCHANGED <<conf, keys, kept>>
   BY <1>4 DEF Provider!Submit
 <2>. HIDE DEF l
 <2>. QED BY <2>1, <2>2, <1>3, ProviderIdle
<1>5. ASSUME NEW r \in Requests, Provider!Save(r) PROVE ProviderInv'
 <2>. DEFINE l == asking[r]
             k == Provider!KeyWritten(l)
 <2>1. Provider!Set(r, Provider!Idle)
   BY <1>5 DEF Provider!Save, Provider!Done
 <2>2. k \in Int /\ (l.sent = "keep" => k = conf.key)
   BY <1>2 DEF Provider!KeyWritten, Asking, ProviderInv
 <2>3. /\ conf' = [conf EXCEPT !.endpoint = l.endpoint, !.model = l.model, !.key = k]
       /\ kept' = IF l.sent = "keep" THEN kept ELSE k
       /\ keys' \in {keys, keys + 1}
   BY <1>5 DEF Provider!Save
 <2>. HIDE DEF k
 <2>4. /\ conf' \in [endpoint : Endpoints \union {"none"}, model : Models \union {"none"},
                     key : Int, proved : Proof]
       /\ conf'.key = k /\ conf'.proved = conf.proved
   BY <1>2, <2>2, <2>3 DEF Asking, ProviderInv
 <2>5. keys' \in Int /\ conf'.key = kept'
   BY <2>2, <2>3, <2>4 DEF ProviderInv
 <2>. QED BY <2>1, <2>4, <2>5, ProviderSet, ProviderIdle DEF ProviderInv
<1>6. ASSUME NEW r \in Requests, NEW e \in Endpoints, NEW m \in Models, NEW own \in BOOLEAN,
             Provider!Test(r, e, m, own)
      PROVE  ProviderInv'
 <2>. DEFINE draft == ~(~own /\ m # "none" /\ e = conf.endpoint /\ m = conf.model)
             key == IF ~own /\ e = conf.endpoint THEN conf.key ELSE 0
             l == [Provider!Idle EXCEPT !.pc = "check", !.endpoint = e, !.model = m,
                                        !.draft = draft, !.key = key]
 <2>1. draft \in BOOLEAN /\ key \in Int
   BY DEF ProviderInv
 <2>2. Provider!Set(r, l) /\ UNCHANGED <<conf, keys, kept>>
   BY <1>6 DEF Provider!Test
 <2>. HIDE DEF draft, key
 <2>3. l \in Asking /\ l.proved = Provider!Idle.proved
   BY <2>1, ProviderIdle DEF Asking
 <2>. HIDE DEF l
 <2>. QED BY <2>2, <2>3, <1>3, ProviderIdle
<1>7. ASSUME NEW r \in Requests, Provider!TestSaved(r) PROVE ProviderInv'
 <2>. DEFINE l == [Provider!Idle EXCEPT !.pc = "check", !.endpoint = conf.endpoint,
                                        !.model = conf.model, !.key = conf.key]
 <2>1. l \in Asking /\ l.proved = Provider!Idle.proved
   BY ProviderIdle DEF Asking, ProviderInv
 <2>2. Provider!Set(r, l) /\ UNCHANGED <<conf, keys, kept>>
   BY <1>7 DEF Provider!TestSaved
 <2>. HIDE DEF l
 <2>. QED BY <2>1, <2>2, <1>3, ProviderIdle
<1>8. ASSUME NEW r \in Requests, NEW ok \in BOOLEAN, Provider!Check(r, ok) PROVE ProviderInv'
 <2>. DEFINE pc == IF ok /\ asking[r].model # "none" /\ ~asking[r].draft THEN "probe" ELSE "record"
             l == [asking[r] EXCEPT !.pc = pc]
 <2>1. pc \in {"probe", "record"}
   OBVIOUS
 <2>2. Provider!Set(r, l) /\ UNCHANGED <<conf, keys, kept>>
   BY <1>8 DEF Provider!Check
 <2>. HIDE DEF pc
 <2>3. l \in Asking /\ l.proved = asking[r].proved
   BY <1>2, <2>1 DEF Asking
 <2>. HIDE DEF l
 <2>. QED BY <2>2, <2>3, <1>2, <1>3
<1>9. ASSUME NEW r \in Requests, NEW answered \in SUBSET {"json_schema", "json_object"},
             Provider!Probe(r, answered)
      PROVE  ProviderInv'
 <2>. DEFINE honored == {i \in 1 .. 2 : Provider!Modes[i] \in answered}
             mode == Provider!Modes[CHOOSE i \in honored : \A j \in honored : i <= j]
             proved == IF honored = {} THEN Provider!NoRecord
                       ELSE [mode |-> mode, endpoint |-> asking[r].endpoint, model |-> asking[r].model]
             l == [asking[r] EXCEPT !.pc = "record", !.probed = TRUE, !.proved = proved]
 <2>1. /\ Provider!Set(r, l) /\ UNCHANGED <<conf, keys, kept>>
       /\ answered \subseteq Supports(asking[r].endpoint, asking[r].model)
   BY <1>9 DEF Provider!Probe
 <2>2. honored # {} => mode \in answered
   BY FirstMode
 <2>. HIDE DEF honored, mode
 <2>3. proved \in Proof /\ Honored(proved)
   BY <1>2, <2>1, <2>2, ProviderIdle DEF Asking, Proof, Honored, Provider!NoRecord
 <2>. HIDE DEF proved
 <2>4. l \in Asking /\ l.proved = proved
   BY <1>2, <2>3 DEF Asking
 <2>. HIDE DEF l
 <2>. QED BY <2>1, <2>3, <2>4, <1>3
<1>10. ASSUME NEW r \in Requests, Provider!Record(r) PROVE ProviderInv'
 <2>1. /\ Provider!Set(r, Provider!Idle) /\ UNCHANGED <<keys, kept>>
       /\ conf' \in {conf, [conf EXCEPT !.proved = asking[r].proved]}
   BY <1>10 DEF Provider!Record, Provider!Done
 <2>2. /\ conf' \in [endpoint : Endpoints \union {"none"}, model : Models \union {"none"},
                     key : Int, proved : Proof]
       /\ conf'.key = conf.key /\ Honored(conf'.proved)
   BY <1>2, <2>1 DEF Asking, ProviderInv
 <2>. QED BY <2>1, <2>2, ProviderSet, ProviderIdle DEF ProviderInv
<1>. QED BY <1>1, <1>4, <1>5, <1>6, <1>7, <1>8, <1>9, <1>10 DEF Provider!Next

\* The agent is given a mode only where the saved provider honours it, and the
\* key stored is the one saved or cleared last, whatever tests and saves overlap
\* (structured_output_mode, _api_key_fields, _write_fields).
THEOREM SettingsSurviveTests ==
    Provider!Spec => [](Provider!ProvedModeIsHonored /\ Provider!RotationSurvives)
<1>1. ProviderInv => Provider!ProvedModeIsHonored /\ Provider!RotationSurvives
  BY DEF ProviderInv, Honored, Provider!ProvedModeIsHonored, Provider!ProvedMode,
         Provider!RotationSurvives
<1>. QED BY ProviderInit, ProviderStep, <1>1, PTL DEF Provider!Spec

\* The life of a webhook receipt (WebhookReceipts).
CONSTANTS Receipts, Workers, MaxAttempts, MaxMessages, MaxLosses
VARIABLES receipt, handing, queue, work, recorded, losses

Webhook == INSTANCE WebhookReceipts

Receipt == [status : Webhook!Stored \union {"none"}, attempts : Nat, rested : BOOLEAN, old : BOOLEAN]
Work == [pc : {"idle", "start", "process", "done"}, of : Receipts \union {"none"}, attempts : Nat]

\* A worker that is busy has a receipt, and its effects are stored once it is done.
BusyOK(l, stored) ==
    /\ l.pc # "idle" => l.of \in Receipts
    /\ l.pc = "done" => l.of \in stored

WebhookInv ==
    /\ Webhook!TypeOK
    /\ \A w \in Workers : BusyOK(work[w], recorded)
    /\ Webhook!ProcessedIsRecorded

LEMMA WebhookIdle == Webhook!Idle \in Work /\ Webhook!Idle.pc = "idle"
  BY DEF Webhook!Idle, Work

LEMMA WebhookInit == MaxLosses \in Nat /\ Webhook!Init => WebhookInv
  BY WebhookIdle DEF Webhook!Init, WebhookInv, Webhook!TypeOK, Webhook!NoReceipt, Webhook!Stored,
     Webhook!ProcessedIsRecorded, BusyOK, Work

\* What may be stored of a receipt: processed only what is recorded.
LEMMA WebhookSave ==
    ASSUME WebhookInv, NEW r \in Receipts, NEW d \in Receipt,
           receipt' = [receipt EXCEPT ![r] = d], recorded' = recorded,
           d.status = "processed" => r \in recorded
    PROVE  receipt' \in [Receipts -> Receipt] /\ Webhook!ProcessedIsRecorded'
  BY DEF WebhookInv, Webhook!TypeOK, Webhook!ProcessedIsRecorded, Receipt

\* One worker moves on.
LEMMA WebhookWork ==
    ASSUME WebhookInv, NEW w \in Workers, NEW l \in Work, work' = [work EXCEPT ![w] = l],
           recorded \subseteq recorded', BusyOK(l, recorded')
    PROVE  work' \in [Workers -> Work] /\ \A v \in Workers : BusyOK(work'[v], recorded')
  BY DEF WebhookInv, Webhook!TypeOK, BusyOK, Work

LEMMA WebhookStep == MaxLosses \in Nat /\ WebhookInv /\ [Webhook!Next]_(Webhook!vars) => WebhookInv'
<1>. SUFFICES ASSUME MaxLosses \in Nat, WebhookInv, [Webhook!Next]_(Webhook!vars) PROVE WebhookInv'
  OBVIOUS
<1>0. /\ receipt \in [Receipts -> Receipt] /\ work \in [Workers -> Work]
      /\ handing \subseteq Webhook!Senders \X Receipts /\ queue \in [Receipts -> Nat]
      /\ recorded \subseteq Receipts /\ losses \in 0 .. MaxLosses
      /\ \A w \in Workers : BusyOK(work[w], recorded)
  BY DEF WebhookInv, Webhook!TypeOK, Receipt, Work
<1>1. CASE UNCHANGED Webhook!vars
  BY <1>1 DEF WebhookInv, Webhook!TypeOK, Webhook!ProcessedIsRecorded, Webhook!vars
\* A step of a sender, the sweep or time: no worker moves, nothing is recorded.
<1>2. ASSUME NEW r \in Receipts, NEW d \in Receipt, receipt' = [receipt EXCEPT ![r] = d],
             d.status = "processed" => receipt[r].status = "processed",
             UNCHANGED <<work, recorded>>,
             handing' \subseteq Webhook!Senders \X Receipts, queue' \in [Receipts -> Nat],
             losses' \in 0 .. MaxLosses
      PROVE  WebhookInv'
 <2>1. d.status = "processed" => r \in recorded
   BY <1>2 DEF WebhookInv, Webhook!ProcessedIsRecorded
 <2>2. receipt' \in [Receipts -> Receipt] /\ Webhook!ProcessedIsRecorded'
   BY <1>2, <2>1, WebhookSave
 <2>. QED BY <1>0, <1>2, <2>2 DEF WebhookInv, Webhook!TypeOK, Receipt, Work
<1>3. ASSUME NEW r \in Receipts, NEW st \in Webhook!Stored, NEW n \in Nat, Webhook!Save(r, st, n)
      PROVE  \E d \in Receipt : receipt' = [receipt EXCEPT ![r] = d] /\ d.status = st
 <2>1. receipt[r] \in Receipt
   BY <1>0
 <2>. DEFINE d == [receipt[r] EXCEPT !.status = st, !.attempts = n, !.rested = FALSE]
 <2>2. d \in Receipt /\ d.status = st
   BY <2>1, <1>3 DEF Receipt
 <2>3. receipt' = [receipt EXCEPT ![r] = d]
   BY <1>0, <1>3, <2>1 DEF Webhook!Save, Receipt
 <2>. QED BY <2>2, <2>3
<1>4. ASSUME NEW r \in Receipts, Webhook!Ingest(r) PROVE WebhookInv'
 <2>1. PICK d \in Receipt : receipt' = [receipt EXCEPT ![r] = d] /\ d.status = "queued"
   BY <1>3, <1>4 DEF Webhook!Ingest, Webhook!Stored
 <2>2. handing' \subseteq Webhook!Senders \X Receipts
   BY <1>0, <1>4 DEF Webhook!Ingest, Webhook!Senders
 <2>. QED BY <1>0, <1>2, <1>4, <2>1, <2>2 DEF Webhook!Ingest
<1>5. ASSUME NEW r \in Receipts, Webhook!Sweep(r) PROVE WebhookInv'
 <2>1. receipt[r].attempts \in Nat
   BY <1>0 DEF Receipt
 <2>2. PICK d \in Receipt : receipt' = [receipt EXCEPT ![r] = d] /\ d.status = "queued"
   BY <1>3, <1>5, <2>1 DEF Webhook!Sweep, Webhook!Stored
 <2>3. handing' \subseteq Webhook!Senders \X Receipts
   BY <1>0, <1>5 DEF Webhook!Sweep, Webhook!Senders
 <2>. QED BY <1>0, <1>2, <1>5, <2>2, <2>3 DEF Webhook!Sweep
<1>6. ASSUME NEW r \in Receipts, Webhook!Rest(r) \/ Webhook!GrowOld(r) PROVE WebhookInv'
 <2>1. receipt[r] \in Receipt
   BY <1>0
 <2>2. PICK d \in Receipt : receipt' = [receipt EXCEPT ![r] = d] /\ d.status = receipt[r].status
  <3>1. CASE Webhook!Rest(r)
   <4>. DEFINE d == [receipt[r] EXCEPT !.rested = TRUE]
   <4>1. d \in Receipt /\ d.status = receipt[r].status
     BY <2>1 DEF Receipt
   <4>2. receipt' = [receipt EXCEPT ![r] = d]
     BY <3>1 DEF Webhook!Rest
   <4>. QED BY <4>1, <4>2
  <3>2. CASE Webhook!GrowOld(r)
   <4>. DEFINE d == [receipt[r] EXCEPT !.old = TRUE]
   <4>1. d \in Receipt /\ d.status = receipt[r].status
     BY <2>1 DEF Receipt
   <4>2. receipt' = [receipt EXCEPT ![r] = d]
     BY <3>2 DEF Webhook!GrowOld
   <4>. QED BY <4>1, <4>2
  <3>. QED BY <1>6, <3>1, <3>2
 <2>. QED BY <1>0, <1>2, <1>6, <2>2 DEF Webhook!Rest, Webhook!GrowOld
\* Handing over changes no receipt but from queued to received.
<1>7. ASSUME NEW s \in Webhook!Senders, NEW r \in Receipts,
             Webhook!Sent(s, r) \/ Webhook!Refused(s, r) \/ Webhook!SenderLost(s, r)
      PROVE  WebhookInv'
 <2>1. receipt[r] \in Receipt /\ queue[r] \in Nat
   BY <1>0
 <2>2. PICK d \in Receipt : /\ receipt' = [receipt EXCEPT ![r] = d]
                            /\ d.status = "processed" => receipt[r].status = "processed"
  <3>1. CASE receipt' = receipt
   <4>1. receipt' = [receipt EXCEPT ![r] = receipt[r]]
     BY <1>0, <3>1
   <4>. QED BY <2>1, <4>1
  <3>2. CASE receipt' = [receipt EXCEPT ![r].status = "received"]
   <4>. DEFINE d == [receipt[r] EXCEPT !.status = "received"]
   <4>1. d \in Receipt /\ d.status = "received"
     BY <2>1 DEF Receipt, Webhook!Stored
   <4>. QED BY <3>2, <4>1
  <3>. QED BY <1>7, <3>1, <3>2 DEF Webhook!Sent, Webhook!Refused, Webhook!SenderLost
 <2>3. handing' \subseteq Webhook!Senders \X Receipts
   BY <1>0, <1>7 DEF Webhook!Sent, Webhook!Refused, Webhook!SenderLost
 <2>4. queue' \in [Receipts -> Nat]
   BY <1>0, <1>7, <2>1 DEF Webhook!Sent, Webhook!Refused, Webhook!SenderLost
 <2>5. losses' \in 0 .. MaxLosses
   BY <1>0, <1>7 DEF Webhook!Sent, Webhook!Refused, Webhook!SenderLost
 <2>. QED BY <1>2, <1>7, <2>2, <2>3, <2>4, <2>5 DEF Webhook!Sent, Webhook!Refused, Webhook!SenderLost
\* A step of worker w, which may store receipt r.
<1>8. ASSUME NEW w \in Workers, NEW l \in Work, work' = [work EXCEPT ![w] = l],
             BusyOK(l, recorded'), recorded \subseteq recorded', recorded' \subseteq Receipts,
             receipt' \in [Receipts -> Receipt], Webhook!ProcessedIsRecorded',
             UNCHANGED handing, queue' \in [Receipts -> Nat], losses' \in 0 .. MaxLosses
      PROVE  WebhookInv'
 <2>1. work' \in [Workers -> Work] /\ \A v \in Workers : BusyOK(work'[v], recorded')
   BY <1>8, WebhookWork
 <2>. QED BY <1>0, <1>8, <2>1 DEF WebhookInv, Webhook!TypeOK, Receipt, Work
<1>9. ASSUME NEW w \in Workers, NEW r \in Receipts, Webhook!Read(w, r) PROVE WebhookInv'
 <2>. DEFINE l == IF receipt[r].status = "processed" THEN Webhook!Idle
                  ELSE [pc |-> "start", of |-> r, attempts |-> receipt[r].attempts]
 <2>1. receipt[r].attempts \in Nat /\ queue[r] \in Nat
   BY <1>0 DEF Receipt
 <2>2. l \in Work /\ BusyOK(l, recorded)
   BY <2>1, WebhookIdle DEF Work, BusyOK
 <2>3. work' = [work EXCEPT ![w] = l] /\ UNCHANGED <<receipt, handing, recorded, losses>>
   BY <1>9 DEF Webhook!Read
 <2>4. queue' \in [Receipts -> Nat]
   BY <1>0, <1>9, <2>1 DEF Webhook!Read
 <2>5. Webhook!ProcessedIsRecorded'
   BY <2>3 DEF WebhookInv, Webhook!ProcessedIsRecorded
 <2>. HIDE DEF l
 <2>. QED BY <1>0, <1>8, <2>2, <2>3, <2>4, <2>5
<1>10. ASSUME NEW w \in Workers PROVE work[w] \in Work /\ BusyOK(work[w], recorded)
  BY <1>0
<1>11. ASSUME NEW w \in Workers, Webhook!Start(w) PROVE WebhookInv'
 <2>. DEFINE r == work[w].of
             l == [work[w] EXCEPT !.pc = "process", !.attempts = work[w].attempts + 1]
 <2>1. r \in Receipts /\ work[w].attempts + 1 \in Nat
   BY <1>10, <1>11 DEF Webhook!Start, BusyOK, Work
 <2>2. l \in Work /\ BusyOK(l, recorded)
   BY <1>10, <2>1 DEF Work, BusyOK
 <2>3. work' = [work EXCEPT ![w] = l] /\ UNCHANGED <<handing, queue, recorded, losses>>
   BY <1>11 DEF Webhook!Start
 <2>4. Webhook!Save(r, "processing", work[w].attempts + 1)
   BY <1>11 DEF Webhook!Start
 <2>. HIDE DEF l, r
 <2>5. PICK d \in Receipt : receipt' = [receipt EXCEPT ![r] = d] /\ d.status = "processing"
   BY <1>3, <2>1, <2>4 DEF Webhook!Stored
 <2>6. receipt' \in [Receipts -> Receipt] /\ Webhook!ProcessedIsRecorded'
   BY <2>1, <2>3, <2>5, WebhookSave
 <2>. QED BY <1>0, <1>8, <2>2, <2>3, <2>6
<1>12. ASSUME NEW w \in Workers, Webhook!Process(w) PROVE WebhookInv'
 <2>. DEFINE l == [work[w] EXCEPT !.pc = "done"]
 <2>1. work[w].of \in Receipts
   BY <1>10, <1>12 DEF Webhook!Process, BusyOK
 <2>2. recorded' = recorded \union {work[w].of} /\ UNCHANGED <<receipt, handing, queue, losses>>
       /\ work' = [work EXCEPT ![w] = l]
   BY <1>12 DEF Webhook!Process
 <2>3. l \in Work /\ BusyOK(l, recorded')
   BY <1>10, <2>1, <2>2 DEF Work, BusyOK
 <2>4. Webhook!ProcessedIsRecorded'
   BY <2>2 DEF WebhookInv, Webhook!ProcessedIsRecorded
 <2>. HIDE DEF l
 <2>. QED BY <1>0, <1>8, <2>1, <2>2, <2>3, <2>4
<1>13. ASSUME NEW w \in Workers, Webhook!Fail(w) \/ Webhook!Finish(w) PROVE WebhookInv'
 <2>. DEFINE r == work[w].of
 <2>1. r \in Receipts /\ work[w].attempts \in Nat
   BY <1>10, <1>13 DEF Webhook!Fail, Webhook!Finish, BusyOK, Work
 <2>2. PICK st \in {"failed", "processed"} :
          Webhook!End(w, st) /\ (st = "processed" => r \in recorded)
   BY <1>10, <1>13 DEF Webhook!Fail, Webhook!Finish, BusyOK
 <2>3. /\ Webhook!Save(r, st, work[w].attempts) /\ work' = [work EXCEPT ![w] = Webhook!Idle]
       /\ UNCHANGED <<handing, queue, recorded, losses>>
   BY <2>2 DEF Webhook!End
 <2>. HIDE DEF r
 <2>4. PICK d \in Receipt : receipt' = [receipt EXCEPT ![r] = d] /\ d.status = st
   BY <1>3, <2>1, <2>3 DEF Webhook!Stored
 <2>5. receipt' \in [Receipts -> Receipt] /\ Webhook!ProcessedIsRecorded'
   BY <2>1, <2>2, <2>3, <2>4, WebhookSave
 <2>6. BusyOK(Webhook!Idle, recorded')
   BY WebhookIdle DEF BusyOK
 <2>. QED BY <1>0, <1>8, <2>3, <2>5, <2>6, WebhookIdle
<1>14. ASSUME NEW w \in Workers, Webhook!WorkerLost(w) PROVE WebhookInv'
 <2>1. /\ work' = [work EXCEPT ![w] = Webhook!Idle] /\ UNCHANGED <<receipt, handing, recorded>>
       /\ losses' \in 0 .. MaxLosses
       /\ queue' = [queue EXCEPT ![work[w].of] = @ + 1]
   BY <1>0, <1>14 DEF Webhook!WorkerLost
 <2>2. queue' \in [Receipts -> Nat]
  <3>1. CASE work[w].of \in Receipts
   <4>1. queue[work[w].of] + 1 \in Nat
     BY <1>0, <3>1
   <4>. QED BY <1>0, <2>1, <4>1
  <3>2. CASE work[w].of \notin Receipts
    BY <1>0, <2>1, <3>2
  <3>. QED BY <3>1, <3>2
 <2>3. Webhook!ProcessedIsRecorded'
   BY <2>1 DEF WebhookInv, Webhook!ProcessedIsRecorded
 <2>4. BusyOK(Webhook!Idle, recorded')
   BY WebhookIdle DEF BusyOK
 <2>. QED BY <1>0, <1>8, <2>1, <2>2, <2>3, <2>4, WebhookIdle
<1>. QED BY <1>1, <1>4, <1>5, <1>6, <1>7, <1>9, <1>11, <1>12, <1>13, <1>14 DEF Webhook!Next

\* A receipt reads processed only when its effects are stored, however often it is
\* delivered and whichever of its workers saves its copy last (process).
THEOREM ProcessedReceiptsTookEffect ==
    ASSUME MaxLosses \in Nat
    PROVE  Webhook!Spec => [](Webhook!TypeOK /\ Webhook!ProcessedIsRecorded)
<1>1. WebhookInv => Webhook!TypeOK /\ Webhook!ProcessedIsRecorded
  BY DEF WebhookInv
<1>2. Webhook!Init => WebhookInv
  BY WebhookInit
<1>3. WebhookInv /\ [Webhook!Next]_(Webhook!vars) => WebhookInv'
  BY WebhookStep
<1>. QED BY <1>1, <1>2, <1>3, PTL DEF Webhook!Spec

\* The monitoring sessions of one device (MonitoringSession).
CONSTANTS Events, Kind, At, Handlers, Pollers, Attempts, MaxSessions
VARIABLES sessions, todo, handling, poll, passed

Monitor == INSTANCE MonitoringSession WITH work <- handling

Session ==
    [status : {"awaiting", "monitoring", "completed", "failed"},
     active : BOOLEAN, receipts : SUBSET Events, incidents : SUBSET Events,
     resolved : SUBSET Events, due : BOOLEAN, window : Events \union {"none"}]
Handling == [pc : {"idle", "open", "first", "save"}, event : Events \union {"none"},
             at : Nat, copy : Session]
Polling == [pc : {"idle", "write"}, at : Nat, copy : Session,
            late : SUBSET (Events \union {"none"}), current : BOOLEAN, tries : Nat]

\* Any version of a session, stored or in hand, accounts for its own state.
Accounted(s) ==
    /\ s.active => s.status \in {"awaiting", "monitoring"}
    /\ s.status = "awaiting" => s.receipts \intersect Monitor!Of({"pre", "configured"}) = {}
    /\ s.status = "failed" =>
          \/ s.receipts \intersect Monitor!Of({"pre", "configured"}) = {}
          \/ s.receipts \intersect Monitor!Of({"failed", "reverted"}) # {}
    /\ \A x \in s.resolved : \E e \in s.receipts :
          Kind[e] \in {"resolution", "configured"} /\ At[e] >= At[x]

\* A handler saves a copy of a session that had not ended when it read it.
HandlingOK(l, ss) ==
    /\ Accounted(l.copy)
    /\ l.pc \in {"open", "first", "save"} => l.event \in Events
    /\ l.pc \in {"first", "save"} => l.at \in DOMAIN ss
    /\ l.pc = "first" => l.copy.status = "monitoring"
    /\ l.pc = "save" => l.copy.status \in {"awaiting", "monitoring"}

\* The copy of a poll whose token is current differs from the session in when it
\* is next due, and in nothing else.
Undue(s) == [s EXCEPT !.due = FALSE]
PollingOK(l, ss) ==
    l.pc = "write" =>
        /\ l.at \in DOMAIN ss
        /\ Accounted(l.copy) /\ l.copy.status = "monitoring"
        /\ l.current => Undue(l.copy) = Undue(ss[l.at])

OneActive(ss) == \A i, j \in DOMAIN ss : ss[i].active /\ ss[j].active => i = j

MonitorInv ==
    /\ sessions \in Seq(Session) /\ todo \subseteq Events
    /\ passed \subseteq Events \union {"none"}
    /\ \A i \in DOMAIN sessions : Accounted(sessions[i])
    /\ OneActive(sessions)
    /\ handling \in [Handlers -> Handling] /\ \A h \in Handlers : HandlingOK(handling[h], sessions)
    /\ poll \in [Pollers -> Polling] /\ \A p \in Pollers : PollingOK(poll[p], sessions)

LEMMA SessionNew ==
    /\ Monitor!NewSession \in Session /\ Accounted(Monitor!NewSession)
    /\ Monitor!NewSession.status = "monitoring" /\ Monitor!NewSession.receipts = {}
    /\ Monitor!NewSession.resolved = {}
    /\ Monitor!Awaiting \in Session /\ Accounted(Monitor!Awaiting)
    /\ Monitor!Quiet \in Handling /\ Monitor!Quiet.pc = "idle"
    /\ Monitor!Quiet.copy = Monitor!NewSession
    /\ Monitor!NoPoll \in Polling /\ Monitor!NoPoll.pc = "idle"
  BY DEF Monitor!NewSession, Monitor!Awaiting, Monitor!Quiet, Monitor!NoPoll, Session, Handling,
     Polling, Accounted

\* What a session gains when its failures are recovered from.
LEMMA RecoveredAccounted ==
    ASSUME At \in [Events -> Int], NEW s \in Session, Accounted(s)
    PROVE  /\ Monitor!Recovered(s) \in Session /\ Accounted(Monitor!Recovered(s))
           /\ Monitor!Recovered(s).status = s.status /\ Monitor!Recovered(s).active = s.active
           /\ Monitor!Recovered(s).receipts = s.receipts
<1>. DEFINE R == {i \in s.incidents : /\ Kind[i] = "failed"
                           /\ \E c \in s.receipts : Kind[c] = "configured" /\ At[c] > At[i]}
            t == [s EXCEPT !.resolved = @ \union R]
<1>1. t = Monitor!Recovered(s)
  BY DEF Monitor!Recovered
<1>2. \A x \in R : \E e \in s.receipts : Kind[e] \in {"resolution", "configured"} /\ At[e] >= At[x]
  BY DEF Session
<1>3. R \subseteq Events
  BY DEF Session
<1>. HIDE DEF R
<1>4. /\ t \in Session /\ t.status = s.status /\ t.active = s.active /\ t.receipts = s.receipts
      /\ t.resolved = s.resolved \union R
  BY <1>3 DEF Session
<1>. HIDE DEF t
<1>5. Accounted(t)
  BY <1>2, <1>4 DEF Accounted
<1>. QED BY <1>1, <1>4, <1>5

\* The copy a handler saves accounts for itself.
LEMMA WithEventAccounted ==
    ASSUME At \in [Events -> Int], NEW s \in Session, Accounted(s),
           s.status \in {"awaiting", "monitoring"}, NEW e \in Events
    PROVE  Monitor!WithEvent(s, e) \in Session /\ Accounted(Monitor!WithEvent(s, e))
<1>. DEFINE linked == [s EXCEPT !.receipts = @ \union {e}]
            hit == [linked EXCEPT !.incidents = @ \union {e}]
            struck == Monitor!Recovered(hit)
<1>0. Kind[e] \in {"pre", "configured"} <=> e \in Monitor!Of({"pre", "configured"})
  BY DEF Monitor!Of
<1>1. /\ linked \in Session /\ linked.status = s.status /\ linked.active = s.active
      /\ linked.receipts = s.receipts \union {e} /\ linked.resolved = s.resolved
      /\ linked.incidents = s.incidents
  BY DEF Session
<1>. HIDE DEF linked
<1>2. Kind[e] \notin {"pre", "configured"} => Accounted(linked)
  BY <1>0, <1>1 DEF Accounted
<1>3. Kind[e] \notin {"pre", "configured"} => hit \in Session /\ Accounted(hit)
 <2>1. /\ hit \in Session /\ hit.status = linked.status /\ hit.active = linked.active
       /\ hit.receipts = linked.receipts /\ hit.resolved = linked.resolved
   BY <1>1 DEF Session
 <2>. HIDE DEF hit
 <2>. QED BY <1>2, <2>1 DEF Accounted
<1>4. hit.status = s.status /\ hit.receipts = s.receipts \union {e}
  BY <1>1 DEF Session
<1>. HIDE DEF hit
<1>5. Kind[e] \notin {"pre", "configured"} =>
        /\ struck \in Session /\ Accounted(struck)
        /\ struck.status = s.status /\ struck.receipts = s.receipts \union {e}
  BY <1>3, <1>4, RecoveredAccounted
<1>. HIDE DEF struck
\* Monitoring starts again with this event.
<1>6. ASSUME NEW t \in Session, t.status = "monitoring", t.receipts = linked.receipts,
             t.resolved = linked.resolved
      PROVE  Accounted(t)
  BY <1>1, <1>6 DEF Accounted
\* The session fails for this event.
<1>7. ASSUME NEW t \in Session, t.status = "failed", ~t.active, t.receipts = struck.receipts,
             t.resolved = struck.resolved, Kind[e] \in {"failed", "reverted"}
      PROVE  Accounted(t)
 <2>1. e \in t.receipts \intersect Monitor!Of({"failed", "reverted"})
   BY <1>5, <1>7 DEF Monitor!Of
 <2>. QED BY <1>5, <1>7, <2>1 DEF Accounted
<1>8. CASE Kind[e] = "pre"
 <2>. DEFINE t == Monitor!Restarted(linked, e)
 <2>1. t \in Session /\ t.status = "monitoring" /\ t.receipts = linked.receipts
       /\ t.resolved = linked.resolved
   BY <1>1 DEF Monitor!Restarted, Session
 <2>2. Monitor!WithEvent(s, e) = t
   BY <1>8 DEF Monitor!WithEvent, linked
 <2>. HIDE DEF t
 <2>. QED BY <1>6, <2>1, <2>2
<1>9. CASE Kind[e] = "configured"
 <2>. DEFINE t == [Monitor!Restarted(linked, e) EXCEPT !.due = FALSE]
 <2>1. t \in Session /\ t.status = "monitoring" /\ t.receipts = linked.receipts
       /\ t.resolved = linked.resolved
   BY <1>1 DEF Monitor!Restarted, Session
 <2>2. Monitor!WithEvent(s, e) = Monitor!Recovered(t)
   BY <1>9 DEF Monitor!WithEvent, linked
 <2>. HIDE DEF t
 <2>. QED BY <1>6, <2>1, <2>2, RecoveredAccounted
<1>10. CASE Kind[e] = "failed"
 <2>. DEFINE t == Monitor!Ended(struck)
 <2>1. t \in Session /\ t.status = "failed" /\ ~t.active /\ t.receipts = struck.receipts
       /\ t.resolved = struck.resolved
   BY <1>5, <1>10 DEF Monitor!Ended, Session
 <2>2. Monitor!WithEvent(s, e) = IF s.status = "awaiting" THEN t ELSE struck
   BY <1>10 DEF Monitor!WithEvent, linked, hit, struck
 <2>. HIDE DEF t
 <2>. QED BY <1>5, <1>7, <1>10, <2>1, <2>2
<1>11. CASE Kind[e] = "incident"
 <2>1. Monitor!WithEvent(s, e) = struck
   BY <1>11 DEF Monitor!WithEvent, linked, hit, struck
 <2>. QED BY <1>5, <1>11, <2>1
<1>12. CASE Kind[e] = "reverted"
 <2>. DEFINE t == [Monitor!Ended(struck) EXCEPT !.due = FALSE]
 <2>1. t \in Session /\ t.status = "failed" /\ ~t.active /\ t.receipts = struck.receipts
       /\ t.resolved = struck.resolved
   BY <1>5, <1>12 DEF Monitor!Ended, Session
 <2>2. Monitor!WithEvent(s, e) = t
   BY <1>12 DEF Monitor!WithEvent, linked, hit, struck
 <2>. HIDE DEF t
 <2>. QED BY <1>7, <1>12, <2>1, <2>2
<1>13. CASE Kind[e] = "resolution"
 <2>. DEFINE R == {i \in linked.incidents : Kind[i] = "incident" /\ At[i] <= At[e]}
             t == [linked EXCEPT !.resolved = @ \union R]
 <2>1. R \subseteq Events /\ \A x \in R : At[e] >= At[x]
   BY <1>1 DEF Session
 <2>2. Monitor!WithEvent(s, e) = t
   BY <1>13 DEF Monitor!WithEvent, Monitor!Resolved, linked
 <2>. HIDE DEF R
 <2>3. /\ t \in Session /\ t.status = linked.status /\ t.active = linked.active
       /\ t.receipts = linked.receipts /\ t.resolved = linked.resolved \union R
   BY <1>1, <2>1 DEF Session
 <2>. HIDE DEF t
 <2>4. Accounted(t)
   BY <1>1, <1>2, <1>13, <2>1, <2>3 DEF Accounted
 <2>. QED BY <2>2, <2>3, <2>4
<1>14. CASE Kind[e] \notin {"pre", "configured", "failed", "incident", "reverted", "resolution"}
 <2>1. Monitor!WithEvent(s, e) = linked
   BY <1>14 DEF Monitor!WithEvent, linked
 <2>. QED BY <1>1, <1>2, <1>14, <2>1
<1>. QED BY <1>8, <1>9, <1>10, <1>11, <1>12, <1>13, <1>14

\* One session is written, and the device still has one active at most.
LEMMA SessionWritten ==
    ASSUME MonitorInv, NEW i \in DOMAIN sessions, NEW s \in Session, Accounted(s),
           s.active => \A j \in DOMAIN sessions \ {i} : ~sessions[j].active,
           sessions' = [sessions EXCEPT ![i] = s]
    PROVE  /\ sessions' \in Seq(Session) /\ DOMAIN sessions' = DOMAIN sessions
           /\ \A j \in DOMAIN sessions' : Accounted(sessions'[j])
           /\ OneActive(sessions')
           /\ sessions'[i] = s /\ \A j \in DOMAIN sessions \ {i} : sessions'[j] = sessions[j]
<1>1. sessions \in [1 .. Len(sessions) -> Session] /\ Len(sessions) \in Nat
      /\ DOMAIN sessions = 1 .. Len(sessions)
  BY DEF MonitorInv
<1>2. sessions' \in [1 .. Len(sessions) -> Session]
  BY <1>1
<1>3. sessions' \in Seq(Session) /\ DOMAIN sessions' = DOMAIN sessions
  BY <1>1, <1>2
<1>4. sessions'[i] = s /\ \A j \in DOMAIN sessions \ {i} : sessions'[j] = sessions[j]
  BY <1>1
<1>5. \A j \in DOMAIN sessions' : Accounted(sessions'[j])
  BY <1>3, <1>4 DEF MonitorInv
<1>6. OneActive(sessions')
  BY <1>3, <1>4 DEF MonitorInv, OneActive
<1>. QED BY <1>3, <1>4, <1>5, <1>6

LEMMA HandlersKept ==
    ASSUME MonitorInv, NEW h \in Handlers, NEW l \in Handling, Monitor!Set(h, l),
           DOMAIN sessions \subseteq DOMAIN sessions', HandlingOK(l, sessions')
    PROVE  handling' \in [Handlers -> Handling] /\ \A g \in Handlers : HandlingOK(handling'[g], sessions')
<1>1. handling' = [handling EXCEPT ![h] = l]
  BY DEF Monitor!Set
<1>. QED BY <1>1 DEF MonitorInv, HandlingOK

\* No handler moves; the sessions there were are there.
LEMMA HandlersStay ==
    ASSUME MonitorInv, UNCHANGED handling, DOMAIN sessions \subseteq DOMAIN sessions'
    PROVE  handling' \in [Handlers -> Handling] /\ \A g \in Handlers : HandlingOK(handling'[g], sessions')
  BY DEF MonitorInv, HandlingOK

\* A write that replaces the token of session i leaves the other sessions' polls.
LEMMA PollsTouched ==
    ASSUME MonitorInv, NEW i \in DOMAIN sessions, DOMAIN sessions' = DOMAIN sessions,
           \A j \in DOMAIN sessions \ {i} : sessions'[j] = sessions[j]
    PROVE  Monitor!Touch(i) \in [Pollers -> Polling]
           /\ \A p \in Pollers : PollingOK(Monitor!Touch(i)[p], sessions')
<1>1. ASSUME NEW p \in Pollers
      PROVE  Monitor!Touch(i)[p] \in Polling /\ PollingOK(Monitor!Touch(i)[p], sessions')
 <2>. DEFINE b == poll[p].current /\ poll[p].at # i
             l == [poll[p] EXCEPT !.current = b]
 <2>1. poll[p] \in Polling /\ PollingOK(poll[p], sessions)
   BY DEF MonitorInv
 <2>2. b \in BOOLEAN /\ (b => poll[p].current /\ poll[p].at # i)
   BY <2>1
 <2>3. l = Monitor!Touch(i)[p]
   BY DEF Monitor!Touch
 <2>. HIDE DEF b
 <2>4. l \in Polling /\ l.pc = poll[p].pc /\ l.at = poll[p].at /\ l.copy = poll[p].copy /\ l.current = b
   BY <2>1, <2>2 DEF Polling
 <2>. HIDE DEF l
 <2>5. PollingOK(l, sessions')
   BY <2>1, <2>2, <2>4 DEF PollingOK
 <2>. QED BY <2>3, <2>4, <2>5
<1>2. DOMAIN Monitor!Touch(i) = Pollers /\ Monitor!Touch(i) = [p \in Pollers |-> Monitor!Touch(i)[p]]
  BY DEF Monitor!Touch
<1>. QED BY <1>1, <1>2

\* A write of no more than when a session is due leaves all polls.
LEMMA PollsKept ==
    ASSUME MonitorInv, DOMAIN sessions \subseteq DOMAIN sessions',
           \A j \in DOMAIN sessions : Undue(sessions'[j]) = Undue(sessions[j]),
           NEW p \in Pollers
    PROVE  PollingOK(poll[p], sessions')
  BY DEF MonitorInv, PollingOK

LEMMA MonitorInit ==
    ASSUME Monitor!Init
    PROVE  MonitorInv
<1>1. sessions = <<Monitor!Awaiting>> /\ todo = Events /\ passed = {}
      /\ handling = [h \in Handlers |-> Monitor!Quiet] /\ poll = [p \in Pollers |-> Monitor!NoPoll]
  BY DEF Monitor!Init
<1>2. sessions \in Seq(Session) /\ DOMAIN sessions = {1} /\ sessions[1] = Monitor!Awaiting
  BY <1>1, SessionNew
<1>3. \A i \in DOMAIN sessions : Accounted(sessions[i])
  BY <1>2, SessionNew
<1>4. OneActive(sessions)
  BY <1>2 DEF OneActive
<1>5. \A h \in Handlers : handling[h] = Monitor!Quiet
  BY <1>1
<1>6. handling \in [Handlers -> Handling] /\ \A h \in Handlers : HandlingOK(handling[h], sessions)
  BY <1>1, <1>5, SessionNew DEF HandlingOK
<1>7. \A p \in Pollers : poll[p] = Monitor!NoPoll
  BY <1>1
<1>8. poll \in [Pollers -> Polling] /\ \A p \in Pollers : PollingOK(poll[p], sessions)
  BY <1>1, <1>7, SessionNew DEF PollingOK
<1>. QED BY <1>1, <1>2, <1>3, <1>4, <1>6, <1>8 DEF MonitorInv

\* A handler's or a time-out's write: any state that accounts for itself, and
\* the token is replaced.
LEMMA Overwritten ==
    ASSUME MonitorInv, NEW i \in DOMAIN sessions, NEW s \in Session, Accounted(s),
           s.active => \A j \in DOMAIN sessions \ {i} : ~sessions[j].active,
           sessions' = [sessions EXCEPT ![i] = s], poll' = Monitor!Touch(i)
    PROVE  /\ sessions' \in Seq(Session) /\ DOMAIN sessions' = DOMAIN sessions
           /\ \A j \in DOMAIN sessions' : Accounted(sessions'[j])
           /\ OneActive(sessions')
           /\ poll' \in [Pollers -> Polling] /\ \A p \in Pollers : PollingOK(poll'[p], sessions')
  BY SessionWritten, PollsTouched

\* When a session is next due says nothing about the rest.
LEMMA Rescheduled ==
    ASSUME MonitorInv, NEW i \in DOMAIN sessions, NEW b \in BOOLEAN,
           sessions' = [sessions EXCEPT ![i].due = b]
    PROVE  /\ sessions' \in Seq(Session) /\ DOMAIN sessions' = DOMAIN sessions
           /\ \A j \in DOMAIN sessions' : Accounted(sessions'[j])
           /\ OneActive(sessions')
           /\ \A j \in DOMAIN sessions : Undue(sessions'[j]) = Undue(sessions[j])
<1>. DEFINE s == [sessions[i] EXCEPT !.due = b]
<1>1. sessions[i] \in Session /\ Accounted(sessions[i])
  BY DEF MonitorInv
<1>2. /\ s \in Session /\ s.status = sessions[i].status /\ s.active = sessions[i].active
      /\ s.receipts = sessions[i].receipts /\ s.resolved = sessions[i].resolved
      /\ Undue(s) = Undue(sessions[i])
  BY <1>1 DEF Session, Undue
<1>3. sessions' = [sessions EXCEPT ![i] = s]
  OBVIOUS
<1>. HIDE DEF s
<1>4. Accounted(s)
  BY <1>1, <1>2 DEF Accounted
<1>5. s.active => \A j \in DOMAIN sessions \ {i} : ~sessions[j].active
  BY <1>2 DEF MonitorInv, OneActive
<1>6. /\ sessions' \in Seq(Session) /\ DOMAIN sessions' = DOMAIN sessions
      /\ \A j \in DOMAIN sessions' : Accounted(sessions'[j])
      /\ OneActive(sessions')
      /\ sessions'[i] = s /\ \A j \in DOMAIN sessions \ {i} : sessions'[j] = sessions[j]
  BY <1>2, <1>3, <1>4, <1>5, SessionWritten
<1>. QED BY <1>2, <1>6

LEMMA HandleKept ==
    ASSUME MonitorInv, NEW h \in Handlers, NEW e \in Events, Monitor!Handle(h, e)
    PROVE  MonitorInv'
<1>. USE DEF Monitor!Handle
<1>1. UNCHANGED <<sessions, poll, passed>> /\ todo' \subseteq Events
  BY DEF Monitor!Handled, MonitorInv
<1>2. ASSUME NEW l \in Handling, Monitor!Set(h, l), HandlingOK(l, sessions)
      PROVE  MonitorInv'
 <2>1. handling' \in [Handlers -> Handling] /\ \A g \in Handlers : HandlingOK(handling'[g], sessions')
   BY <1>1, <1>2, HandlersKept
 <2>. QED BY <1>1, <2>1 DEF MonitorInv
<1>3. HandlingOK(Monitor!Quiet, sessions)
  BY SessionNew DEF HandlingOK
<1>4. CASE Monitor!Set(h, Monitor!Quiet)
  BY <1>2, <1>3, <1>4, SessionNew
<1>5. CASE Monitor!Set(h, [Monitor!Quiet EXCEPT !.pc = "open", !.event = e])
 <2>. DEFINE l == [Monitor!Quiet EXCEPT !.pc = "open", !.event = e]
 <2>1. l \in Handling /\ l.pc = "open" /\ l.event = e /\ l.copy = Monitor!NewSession
   BY SessionNew DEF Handling
 <2>. HIDE DEF l
 <2>2. HandlingOK(l, sessions)
   BY <2>1, SessionNew DEF HandlingOK
 <2>. QED BY <1>2, <1>5, <2>1, <2>2 DEF l
<1>6. ASSUME NEW i \in Monitor!ActiveOnes,
             Monitor!Set(h, [pc |-> "save", event |-> e, at |-> i, copy |-> sessions[i]])
      PROVE  MonitorInv'
 <2>. DEFINE l == [pc |-> "save", event |-> e, at |-> i, copy |-> sessions[i]]
 <2>1. /\ i \in DOMAIN sessions /\ i \in Nat /\ sessions[i] \in Session
       /\ Accounted(sessions[i]) /\ sessions[i].active
   BY DEF MonitorInv, Monitor!ActiveOnes
 <2>2. l \in Handling /\ HandlingOK(l, sessions)
   BY <2>1 DEF Handling, HandlingOK, Accounted
 <2>. QED BY <1>2, <1>6, <2>2
<1>. QED BY <1>4, <1>5, <1>6 DEF Monitor!Handled

LEMMA OpenKept ==
    ASSUME At \in [Events -> Int], MonitorInv, NEW h \in Handlers, Monitor!Open(h)
    PROVE  MonitorInv'
<1>. DEFINE e == handling[h].event
            fresh == [Monitor!NewSession EXCEPT !.receipts = {e}, !.window = e]
<1>1. UNCHANGED <<todo, poll, passed>> /\ handling[h].pc = "open"
  BY DEF Monitor!Open
<1>2. handling[h] \in Handling /\ e \in Events
  BY <1>1 DEF MonitorInv, HandlingOK
<1>3. /\ fresh \in Session /\ Accounted(fresh) /\ fresh.status = "monitoring"
  BY <1>2 DEF Session, Accounted, Monitor!NewSession
<1>. HIDE DEF fresh
<1>4. CASE Monitor!ActiveOnes = {}
 <2>. DEFINE l == [handling[h] EXCEPT !.pc = "first", !.at = Len(sessions) + 1, !.copy = fresh]
 <2>1. sessions' = Append(sessions, fresh) /\ Monitor!Set(h, l)
   BY <1>4 DEF Monitor!Open, fresh
 <2>2. /\ sessions' \in Seq(Session) /\ Len(sessions) \in Nat
       /\ DOMAIN sessions' = DOMAIN sessions \union {Len(sessions) + 1}
       /\ \A j \in DOMAIN sessions : sessions'[j] = sessions[j]
       /\ sessions'[Len(sessions) + 1] = fresh
   BY <1>3, <2>1 DEF MonitorInv
 <2>3. \A j \in DOMAIN sessions' : Accounted(sessions'[j])
   BY <1>3, <2>2 DEF MonitorInv
 <2>4. OneActive(sessions')
   BY <1>4, <2>2 DEF OneActive, Monitor!ActiveOnes
 <2>. DEFINE n == Len(sessions) + 1
 <2>5. /\ l \in Handling /\ l.pc = "first" /\ l.at = Len(sessions) + 1 /\ l.copy = fresh
       /\ l.event = e
  <3>1. n \in Nat
    BY <2>2
  <3>. HIDE DEF n
  <3>. DEFINE k == [handling[h] EXCEPT !.pc = "first", !.at = n, !.copy = fresh]
  <3>2. k \in Handling /\ k.pc = "first" /\ k.at = n /\ k.copy = fresh /\ k.event = e
    BY <1>2, <1>3, <3>1 DEF Handling
  <3>. HIDE DEF k
  <3>. QED BY <3>2 DEF k, n
 <2>. HIDE DEF l
 <2>6. HandlingOK(l, sessions')
   BY <1>2, <1>3, <2>2, <2>5 DEF HandlingOK
 <2>7. handling' \in [Handlers -> Handling] /\ \A g \in Handlers : HandlingOK(handling'[g], sessions')
   BY <2>1, <2>2, <2>5, <2>6, HandlersKept
 <2>8. \A p \in Pollers : PollingOK(poll[p], sessions')
   BY <2>2, PollsKept
 <2>. QED BY <1>1, <2>2, <2>3, <2>4, <2>7, <2>8 DEF MonitorInv
<1>5. CASE Monitor!ActiveOnes # {}
 <2>1. UNCHANGED sessions
   BY <1>5 DEF Monitor!Open
 <2>2. PICK i \in Monitor!ActiveOnes :
           Monitor!Set(h, [handling[h] EXCEPT !.pc = "first", !.at = i,
                                              !.copy = Monitor!Restarted(sessions[i], e)])
   BY <1>5 DEF Monitor!Open
 <2>. DEFINE t == Monitor!Restarted(sessions[i], e)
             l == [handling[h] EXCEPT !.pc = "first", !.at = i, !.copy = t]
 <2>3. i \in DOMAIN sessions /\ i \in Nat /\ sessions[i] \in Session /\ Accounted(sessions[i])
   BY DEF MonitorInv, Monitor!ActiveOnes
 <2>4. /\ t \in Session /\ t.status = "monitoring" /\ t.active = sessions[i].active
       /\ t.receipts = sessions[i].receipts /\ t.resolved = sessions[i].resolved
   BY <1>2, <2>3 DEF Session, Monitor!Restarted
 <2>. HIDE DEF t
 <2>5. Accounted(t)
   BY <2>3, <2>4 DEF Accounted
 <2>6. l \in Handling /\ l.pc = "first" /\ l.at = i /\ l.copy = t /\ l.event = e
   BY <1>2, <2>3, <2>4 DEF Handling
 <2>7. Monitor!Set(h, l)
   BY <2>2 DEF t
 <2>. HIDE DEF l
 <2>8. HandlingOK(l, sessions')
   BY <1>2, <2>1, <2>3, <2>4, <2>5, <2>6 DEF HandlingOK
 <2>9. handling' \in [Handlers -> Handling] /\ \A g \in Handlers : HandlingOK(handling'[g], sessions')
   BY <2>1, <2>6, <2>7, <2>8, HandlersKept
 <2>. QED BY <1>1, <2>1, <2>9 DEF MonitorInv
<1>. QED BY <1>4, <1>5

\* A save that would make a second active session raises, and the handler is done.
LEMMA RaisedKept ==
    ASSUME MonitorInv, NEW h \in Handlers, Monitor!Set(h, Monitor!Quiet),
           UNCHANGED <<sessions, todo, poll, passed>>
    PROVE  MonitorInv'
<1>1. HandlingOK(Monitor!Quiet, sessions')
  BY SessionNew DEF HandlingOK
<1>2. handling' \in [Handlers -> Handling] /\ \A g \in Handlers : HandlingOK(handling'[g], sessions')
  BY <1>1, SessionNew, HandlersKept
<1>. QED BY <1>2 DEF MonitorInv

\* A save that stands; what the handler does next needs only the session saved.
LEMMA SavedKept ==
    ASSUME MonitorInv, NEW h \in Handlers, NEW s \in Session, Accounted(s), NEW l \in Handling,
           handling[h].at \in DOMAIN sessions,
           s.active => Monitor!ActiveOnes \ {handling[h].at} = {},
           sessions' = [sessions EXCEPT ![handling[h].at] = s],
           poll' = Monitor!Touch(handling[h].at),
           Monitor!Set(h, l), HandlingOK(l, sessions),
           todo' \subseteq Events, UNCHANGED passed
    PROVE  MonitorInv'
<1>. DEFINE i == handling[h].at
<1>1. s.active => \A j \in DOMAIN sessions \ {i} : ~sessions[j].active
  BY DEF Monitor!ActiveOnes
<1>2. /\ sessions' \in Seq(Session) /\ DOMAIN sessions' = DOMAIN sessions
      /\ \A j \in DOMAIN sessions' : Accounted(sessions'[j])
      /\ OneActive(sessions')
      /\ poll' \in [Pollers -> Polling] /\ \A p \in Pollers : PollingOK(poll'[p], sessions')
 <2>1. i \in DOMAIN sessions /\ sessions' = [sessions EXCEPT ![i] = s] /\ poll' = Monitor!Touch(i)
   OBVIOUS
 <2>. HIDE DEF i
 <2>. QED BY <1>1, <2>1, Overwritten
<1>3. HandlingOK(l, sessions')
  BY <1>2 DEF HandlingOK
<1>4. handling' \in [Handlers -> Handling] /\ \A g \in Handlers : HandlingOK(handling'[g], sessions')
  BY <1>2, <1>3, HandlersKept
<1>. QED BY <1>2, <1>4 DEF MonitorInv

LEMMA SaveFirstKept ==
    ASSUME MonitorInv, NEW h \in Handlers, Monitor!SaveFirst(h)
    PROVE  MonitorInv'
<1>. DEFINE w == handling[h]
            s == [w.copy EXCEPT !.receipts = @ \union {w.event}]
            l == [w EXCEPT !.pc = "save", !.copy = s]
<1>1. w \in Handling /\ w.pc = "first" /\ HandlingOK(w, sessions) /\ UNCHANGED passed
  BY DEF Monitor!SaveFirst, MonitorInv
<1>2. /\ w.event \in Events /\ w.at \in DOMAIN sessions
      /\ w.copy \in Session /\ Accounted(w.copy) /\ w.copy.status = "monitoring"
  BY <1>1 DEF HandlingOK, Handling
<1>3. /\ s \in Session /\ s.status = "monitoring" /\ s.active = w.copy.active
      /\ s.receipts = w.copy.receipts \union {w.event} /\ s.resolved = w.copy.resolved
  BY <1>2 DEF Session
<1>4. CASE Monitor!Set(h, Monitor!Quiet) /\ UNCHANGED <<sessions, todo, poll>>
  BY <1>1, <1>4, RaisedKept
<1>5. ASSUME ~(s.active /\ Monitor!ActiveOnes \ {w.at} # {}),
             sessions' = [sessions EXCEPT ![w.at] = s], poll' = Monitor!Touch(w.at),
             \/ Monitor!Set(h, l) /\ UNCHANGED todo
             \/ Monitor!Handled(h, w.event)
      PROVE  MonitorInv'
 <2>. HIDE DEF s
 <2>1. Accounted(s)
   BY <1>2, <1>3 DEF Accounted
 <2>2. todo' \subseteq Events
   BY <1>5 DEF Monitor!Handled, MonitorInv
 <2>3. l \in Handling /\ l.pc = "save" /\ l.event = w.event /\ l.at = w.at /\ l.copy = s
   BY <1>1, <1>3 DEF Handling
 <2>. HIDE DEF l
 <2>4. HandlingOK(l, sessions)
   BY <1>2, <1>3, <2>1, <2>3 DEF HandlingOK
 <2>5. HandlingOK(Monitor!Quiet, sessions)
   BY SessionNew DEF HandlingOK
 <2>6. CASE Monitor!Set(h, l)
   BY <1>1, <1>2, <1>3, <1>5, <2>1, <2>2, <2>3, <2>4, <2>6, SavedKept
 <2>7. CASE Monitor!Set(h, Monitor!Quiet)
   BY <1>1, <1>2, <1>3, <1>5, <2>1, <2>2, <2>5, <2>7, SessionNew, SavedKept
 <2>. QED BY <1>5, <2>6, <2>7 DEF Monitor!Handled
<1>. QED BY <1>4, <1>5 DEF Monitor!SaveFirst, Monitor!Save

LEMMA SaveEventKept ==
    ASSUME At \in [Events -> Int], MonitorInv, NEW h \in Handlers, Monitor!SaveEvent(h)
    PROVE  MonitorInv'
<1>. DEFINE w == handling[h]
            s == Monitor!WithEvent(w.copy, w.event)
<1>1. w \in Handling /\ w.pc = "save" /\ HandlingOK(w, sessions) /\ UNCHANGED passed
  BY DEF Monitor!SaveEvent, MonitorInv
<1>2. /\ w.event \in Events /\ w.at \in DOMAIN sessions
      /\ w.copy \in Session /\ Accounted(w.copy) /\ w.copy.status \in {"awaiting", "monitoring"}
  BY <1>1 DEF HandlingOK, Handling
<1>3. s \in Session /\ Accounted(s)
  BY <1>2, WithEventAccounted
<1>4. CASE Monitor!Set(h, Monitor!Quiet) /\ UNCHANGED <<sessions, todo, poll>>
  BY <1>1, <1>4, RaisedKept
<1>5. ASSUME ~(s.active /\ Monitor!ActiveOnes \ {w.at} # {}),
             sessions' = [sessions EXCEPT ![w.at] = s], poll' = Monitor!Touch(w.at),
             Monitor!Handled(h, w.event)
      PROVE  MonitorInv'
 <2>. HIDE DEF s
 <2>1. todo' \subseteq Events /\ Monitor!Set(h, Monitor!Quiet)
   BY <1>5 DEF Monitor!Handled, MonitorInv
 <2>2. HandlingOK(Monitor!Quiet, sessions)
   BY SessionNew DEF HandlingOK
 <2>. QED BY <1>1, <1>2, <1>3, <1>5, <2>1, <2>2, SessionNew, SavedKept
<1>. QED BY <1>4, <1>5 DEF Monitor!SaveEvent, Monitor!Save

LEMMA HandlerLostKept ==
    ASSUME MonitorInv, NEW h \in Handlers, Monitor!HandlerLost(h)
    PROVE  MonitorInv'
  BY RaisedKept DEF Monitor!HandlerLost

LEMMA TimeOutKept ==
    ASSUME MonitorInv, NEW i \in DOMAIN sessions, Monitor!TimeOut(i)
    PROVE  MonitorInv'
<1>. DEFINE s == [Monitor!Ended(sessions[i]) EXCEPT !.due = FALSE]
<1>1. /\ sessions[i].status = "awaiting" /\ sessions' = [sessions EXCEPT ![i] = s]
      /\ poll' = Monitor!Touch(i) /\ UNCHANGED <<todo, handling, passed>>
  BY DEF Monitor!TimeOut
<1>2. sessions[i] \in Session /\ Accounted(sessions[i])
  BY DEF MonitorInv
<1>3. /\ s \in Session /\ s.status = "failed" /\ ~s.active
      /\ s.receipts = sessions[i].receipts /\ s.resolved = sessions[i].resolved
  BY <1>2 DEF Session, Monitor!Ended
<1>. HIDE DEF s
<1>4. Accounted(s)
  BY <1>1, <1>2, <1>3 DEF Accounted
<1>5. /\ sessions' \in Seq(Session) /\ DOMAIN sessions' = DOMAIN sessions
      /\ \A j \in DOMAIN sessions' : Accounted(sessions'[j])
      /\ OneActive(sessions')
      /\ poll' \in [Pollers -> Polling] /\ \A p \in Pollers : PollingOK(poll'[p], sessions')
  BY <1>1, <1>3, <1>4, Overwritten
<1>6. handling' \in [Handlers -> Handling] /\ \A g \in Handlers : HandlingOK(handling'[g], sessions')
  BY <1>1, <1>5, HandlersStay
<1>. QED BY <1>1, <1>5, <1>6 DEF MonitorInv

LEMMA ComeDueKept ==
    ASSUME MonitorInv, NEW i \in DOMAIN sessions, Monitor!ComeDue(i)
    PROVE  MonitorInv'
<1>1. sessions' = [sessions EXCEPT ![i].due = TRUE] /\ UNCHANGED <<todo, handling, poll, passed>>
  BY DEF Monitor!ComeDue
<1>2. /\ sessions' \in Seq(Session) /\ DOMAIN sessions' = DOMAIN sessions
      /\ \A j \in DOMAIN sessions' : Accounted(sessions'[j])
      /\ OneActive(sessions')
      /\ \A j \in DOMAIN sessions : Undue(sessions'[j]) = Undue(sessions[j])
  BY <1>1, Rescheduled
<1>3. handling' \in [Handlers -> Handling] /\ \A g \in Handlers : HandlingOK(handling'[g], sessions')
  BY <1>1, <1>2, HandlersStay
<1>4. \A p \in Pollers : PollingOK(poll[p], sessions')
  BY <1>2, PollsKept
<1>. QED BY <1>1, <1>2, <1>3, <1>4 DEF MonitorInv

LEMMA WindowPassesKept ==
    ASSUME MonitorInv, NEW i \in DOMAIN sessions, Monitor!WindowPasses(i)
    PROVE  MonitorInv'
<1>1. passed' = passed \union {sessions[i].window} /\ UNCHANGED <<sessions, todo, handling, poll>>
  BY DEF Monitor!WindowPasses
<1>2. sessions[i] \in Session
  BY DEF MonitorInv
<1>3. sessions[i].window \in Events \union {"none"}
  BY <1>2 DEF Session
<1>. QED BY <1>1, <1>3 DEF MonitorInv

LEMMA ClaimKept ==
    ASSUME MonitorInv, NEW p \in Pollers, NEW i \in DOMAIN sessions, Monitor!Claim(p, i)
    PROVE  MonitorInv'
<1>. DEFINE c == Undue(sessions[i])
            l == [Monitor!NoPoll EXCEPT !.pc = "write", !.at = i, !.late = passed, !.copy = c]
<1>1. /\ sessions' = [sessions EXCEPT ![i].due = FALSE] /\ sessions[i].status = "monitoring"
      /\ poll' = [poll EXCEPT ![p] = l] /\ UNCHANGED <<todo, handling, passed>>
  BY DEF Monitor!Claim, Undue
<1>2. /\ sessions' \in Seq(Session) /\ DOMAIN sessions' = DOMAIN sessions
      /\ \A j \in DOMAIN sessions' : Accounted(sessions'[j])
      /\ OneActive(sessions')
      /\ \A j \in DOMAIN sessions : Undue(sessions'[j]) = Undue(sessions[j])
  BY <1>1, Rescheduled
<1>3. handling' \in [Handlers -> Handling] /\ \A g \in Handlers : HandlingOK(handling'[g], sessions')
  BY <1>1, <1>2, HandlersStay
<1>4. sessions[i] \in Session /\ Accounted(sessions[i]) /\ i \in Nat
  BY DEF MonitorInv
<1>5. /\ c \in Session /\ c.status = "monitoring" /\ c.active = sessions[i].active
      /\ c.receipts = sessions[i].receipts /\ c.resolved = sessions[i].resolved /\ Undue(c) = c
  BY <1>1, <1>4 DEF Session, Undue
<1>6. Undue(c) = Undue(sessions'[i])
  BY <1>2, <1>5
<1>. HIDE DEF c
<1>7. Accounted(c)
  BY <1>1, <1>4, <1>5 DEF Accounted
<1>8. l \in Polling /\ l.at = i /\ l.copy = c
  BY <1>4, <1>5 DEF Polling, Monitor!NoPoll, MonitorInv
<1>. HIDE DEF l
<1>9. PollingOK(l, sessions')
  BY <1>2, <1>5, <1>6, <1>7, <1>8 DEF PollingOK
<1>10. \A q \in Pollers : PollingOK(poll[q], sessions')
  BY <1>2, PollsKept
<1>11. poll' \in [Pollers -> Polling] /\ \A q \in Pollers : PollingOK(poll'[q], sessions')
  BY <1>1, <1>8, <1>9, <1>10 DEF MonitorInv
<1>. QED BY <1>1, <1>2, <1>3, <1>11 DEF MonitorInv

\* What a poll writes accounts for itself, and is active only where it was.
LEMMA ScheduledAccounted ==
    ASSUME NEW p \in Pollers, poll[p].copy \in Session, Accounted(poll[p].copy),
           poll[p].copy.status = "monitoring"
    PROVE  /\ Monitor!Scheduled(p) \in Session /\ Accounted(Monitor!Scheduled(p))
           /\ Monitor!Scheduled(p).active => poll[p].copy.active
           /\ Monitor!Scheduled(p).receipts = poll[p].copy.receipts
<1>. DEFINE c == poll[p].copy
            done == [c EXCEPT !.status = "completed", !.active = FALSE, !.due = FALSE]
            going == Undue(c)
<1>1. Monitor!Scheduled(p) = done \/ Monitor!Scheduled(p) = going
  BY DEF Monitor!Scheduled, Undue
<1>2. /\ done \in Session /\ done.status = "completed" /\ ~done.active
      /\ done.receipts = c.receipts /\ done.resolved = c.resolved
  BY DEF Session
<1>3. /\ going \in Session /\ going.status = c.status /\ going.active = c.active
      /\ going.receipts = c.receipts /\ going.resolved = c.resolved
  BY DEF Session, Undue
<1>. HIDE DEF done, going
<1>4. Accounted(done) /\ Accounted(going)
  BY <1>2, <1>3 DEF Accounted
<1>. QED BY <1>1, <1>2, <1>3, <1>4

\* Polls after one of them ended on top of a write of session i.
LEMMA PollsWrote ==
    ASSUME MonitorInv, NEW p \in Pollers, NEW i \in DOMAIN sessions,
           DOMAIN sessions' = DOMAIN sessions,
           \A j \in DOMAIN sessions \ {i} : sessions'[j] = sessions[j],
           poll' = Monitor!Wrote(p, i)
    PROVE  poll' \in [Pollers -> Polling] /\ \A q \in Pollers : PollingOK(poll'[q], sessions')
<1>1. /\ Monitor!Touch(i) \in [Pollers -> Polling]
      /\ \A q \in Pollers : PollingOK(Monitor!Touch(i)[q], sessions')
  BY PollsTouched
<1>2. poll' = [Monitor!Touch(i) EXCEPT ![p] = Monitor!NoPoll]
  BY DEF Monitor!Wrote
<1>3. PollingOK(Monitor!NoPoll, sessions')
  BY SessionNew DEF PollingOK
<1>. QED BY <1>1, <1>2, <1>3, SessionNew

\* Polls after one of them changed its own locals.
LEMMA PollsMoved ==
    ASSUME MonitorInv, UNCHANGED sessions, NEW p \in Pollers, NEW l \in Polling,
           PollingOK(l, sessions), poll' = [poll EXCEPT ![p] = l]
    PROVE  poll' \in [Pollers -> Polling] /\ \A q \in Pollers : PollingOK(poll'[q], sessions')
  BY DEF MonitorInv

LEMMA WriteKept ==
    ASSUME MonitorInv, NEW p \in Pollers, Monitor!Write(p)
    PROVE  MonitorInv'
<1>. DEFINE i == poll[p].at
            s == Monitor!Scheduled(p)
<1>1. /\ poll[p].pc = "write" /\ poll[p].current
      /\ sessions' = [sessions EXCEPT ![i] = s] /\ poll' = Monitor!Wrote(p, i)
      /\ UNCHANGED <<todo, handling, passed>>
  BY DEF Monitor!Write
<1>2. poll[p] \in Polling /\ PollingOK(poll[p], sessions)
  BY DEF MonitorInv
<1>3. /\ i \in DOMAIN sessions /\ poll[p].copy \in Session /\ Accounted(poll[p].copy)
      /\ poll[p].copy.status = "monitoring" /\ Undue(poll[p].copy) = Undue(sessions[i])
  BY <1>1, <1>2 DEF PollingOK, Polling
<1>4. s \in Session /\ Accounted(s) /\ (s.active => poll[p].copy.active)
  BY <1>3, ScheduledAccounted
<1>5. sessions[i] \in Session
  BY <1>3 DEF MonitorInv
<1>6. poll[p].copy.active = sessions[i].active
 <2>1. Undue(poll[p].copy).active = poll[p].copy.active /\ Undue(sessions[i]).active = sessions[i].active
   BY <1>3, <1>5 DEF Undue, Session
 <2>. QED BY <1>3, <2>1
<1>. HIDE DEF s
<1>7. s.active => \A j \in DOMAIN sessions \ {i} : ~sessions[j].active
  BY <1>3, <1>4, <1>6 DEF MonitorInv, OneActive
<1>. HIDE DEF i
<1>8. /\ sessions' \in Seq(Session) /\ DOMAIN sessions' = DOMAIN sessions
      /\ \A j \in DOMAIN sessions' : Accounted(sessions'[j])
      /\ OneActive(sessions')
      /\ \A j \in DOMAIN sessions \ {i} : sessions'[j] = sessions[j]
  BY <1>1, <1>3, <1>4, <1>7, SessionWritten
<1>9. poll' \in [Pollers -> Polling] /\ \A q \in Pollers : PollingOK(poll'[q], sessions')
  BY <1>1, <1>3, <1>8, PollsWrote
<1>10. handling' \in [Handlers -> Handling] /\ \A g \in Handlers : HandlingOK(handling'[g], sessions')
  BY <1>1, <1>8, HandlersStay
<1>. QED BY <1>1, <1>8, <1>9, <1>10 DEF MonitorInv

LEMMA RereadKept ==
    ASSUME MonitorInv, NEW p \in Pollers, Monitor!Reread(p)
    PROVE  MonitorInv'
<1>. DEFINE now == sessions[poll[p].at]
            n == poll[p].tries + 1
            l == [poll[p] EXCEPT !.copy = now, !.current = TRUE, !.tries = n]
            stops == now.status # "monitoring" \/ n = Attempts
<1>1. /\ poll[p].pc = "write" /\ UNCHANGED <<sessions, todo, handling, passed>>
      /\ \/ poll' = [poll EXCEPT ![p] = Monitor!NoPoll]
         \/ now.status = "monitoring" /\ poll' = [poll EXCEPT ![p] = l]
 <2>1. poll[p].pc = "write" /\ UNCHANGED <<sessions, todo, handling, passed>>
   BY DEF Monitor!Reread
 <2>2. CASE stops
   BY <2>2 DEF Monitor!Reread
 <2>3. CASE ~stops
   BY <2>3 DEF Monitor!Reread
 <2>. QED BY <2>1, <2>2, <2>3
<1>2. poll[p] \in Polling /\ poll[p].at \in DOMAIN sessions
  BY <1>1 DEF MonitorInv, PollingOK
<1>3. now \in Session /\ Accounted(now)
  BY <1>2 DEF MonitorInv
<1>4. l \in Polling /\ l.at = poll[p].at /\ l.copy = now
 <2>1. n \in Nat
   BY <1>2 DEF Polling
 <2>. HIDE DEF n, now
 <2>. QED BY <1>2, <1>3, <2>1 DEF Polling
<1>. HIDE DEF l
<1>5. PollingOK(Monitor!NoPoll, sessions) /\ (now.status = "monitoring" => PollingOK(l, sessions))
  BY <1>2, <1>3, <1>4, SessionNew DEF PollingOK
<1>6. poll' \in [Pollers -> Polling] /\ \A q \in Pollers : PollingOK(poll'[q], sessions')
 <2>1. CASE poll' = [poll EXCEPT ![p] = Monitor!NoPoll]
   BY <1>1, <1>5, <2>1, SessionNew, PollsMoved
 <2>2. CASE now.status = "monitoring" /\ poll' = [poll EXCEPT ![p] = l]
   BY <1>1, <1>4, <1>5, <2>2, PollsMoved
 <2>. QED BY <1>1, <2>1, <2>2
<1>7. handling' \in [Handlers -> Handling] /\ \A g \in Handlers : HandlingOK(handling'[g], sessions')
  BY <1>1, HandlersStay
<1>. QED BY <1>1, <1>6, <1>7 DEF MonitorInv

LEMMA PollEndsKept ==
    ASSUME MonitorInv, NEW p \in Pollers, Monitor!PollFails(p) \/ Monitor!PollLost(p)
    PROVE  MonitorInv'
<1>1. UNCHANGED <<sessions, todo, handling, passed>>
  BY DEF Monitor!PollFails, Monitor!PollLost
<1>2. PollingOK(Monitor!NoPoll, sessions)
  BY SessionNew DEF PollingOK
<1>3. poll' \in [Pollers -> Polling] /\ \A q \in Pollers : PollingOK(poll'[q], sessions')
 <2>1. CASE poll' = [poll EXCEPT ![p] = Monitor!NoPoll]
   BY <1>1, <1>2, <2>1, SessionNew, PollsMoved
 <2>2. CASE poll[p].pc = "write" /\ poll' = Monitor!Wrote(p, poll[p].at)
  <3>1. poll[p].at \in DOMAIN sessions
    BY <2>2 DEF MonitorInv, PollingOK
  <3>. QED BY <1>1, <2>2, <3>1, PollsWrote
 <2>. QED BY <2>1, <2>2 DEF Monitor!PollFails, Monitor!PollLost
<1>4. handling' \in [Handlers -> Handling] /\ \A g \in Handlers : HandlingOK(handling'[g], sessions')
  BY <1>1, HandlersStay
<1>. QED BY <1>1, <1>3, <1>4 DEF MonitorInv

LEMMA MonitorStep ==
    ASSUME At \in [Events -> Int], MonitorInv, [Monitor!Next]_(Monitor!vars)
    PROVE  MonitorInv'
<1>1. ASSUME NEW h \in Handlers, Monitor!HandlerStep(h)
      PROVE  MonitorInv'
  BY <1>1, HandleKept, OpenKept, SaveFirstKept, SaveEventKept, HandlerLostKept DEF Monitor!HandlerStep
<1>2. ASSUME NEW p \in Pollers, Monitor!PollStep(p)
      PROVE  MonitorInv'
  BY <1>2, ClaimKept, WriteKept, RereadKept, PollEndsKept DEF Monitor!PollStep
<1>3. CASE UNCHANGED Monitor!vars
  BY <1>3 DEF Monitor!vars, MonitorInv, HandlingOK, PollingOK, OneActive
<1>. QED BY <1>1, <1>2, <1>3, TimeOutKept, ComeDueKept, WindowPassesKept DEF Monitor!Next

\* A poll moves when a session is next due, or writes on top of the session as
\* it is.
LEMMA PollErasesNothing ==
    ASSUME MonitorInv, NEW p \in Pollers, Monitor!PollStep(p), NEW i \in DOMAIN sessions
    PROVE  /\ sessions[i].receipts \subseteq sessions'[i].receipts
           /\ sessions[i].status = "failed" => sessions'[i] = sessions[i]
<1>. DEFINE Keeps == /\ sessions[i].receipts \subseteq sessions'[i].receipts
                     /\ sessions[i].status = "failed" => sessions'[i] = sessions[i]
<1>0. sessions \in Seq(Session) /\ sessions[i] \in Session
  BY DEF MonitorInv
<1>1. CASE UNCHANGED sessions
  BY <1>1
<1>2. ASSUME NEW j \in DOMAIN sessions, Monitor!Claim(p, j)
      PROVE  Keeps
 <2>1. sessions' = [sessions EXCEPT ![j].due = FALSE] /\ sessions[j].status = "monitoring"
   BY <1>2 DEF Monitor!Claim
 <2>2. CASE i = j
  <3>1. sessions'[i] = [sessions[i] EXCEPT !.due = FALSE]
    BY <1>0, <2>1, <2>2
  <3>. QED BY <1>0, <2>1, <2>2, <3>1 DEF Session
 <2>3. CASE i # j
   BY <1>0, <2>1, <2>3
 <2>. QED BY <2>2, <2>3
<1>3. CASE Monitor!Write(p)
 <2>. DEFINE j == poll[p].at
             s == Monitor!Scheduled(p)
             c == poll[p].copy
 <2>1. poll[p].pc = "write" /\ poll[p].current /\ sessions' = [sessions EXCEPT ![j] = s]
   BY <1>3 DEF Monitor!Write
 <2>2. poll[p] \in Polling /\ PollingOK(poll[p], sessions)
   BY DEF MonitorInv
 <2>3. /\ j \in DOMAIN sessions /\ c \in Session /\ Accounted(c) /\ c.status = "monitoring"
       /\ Undue(c) = Undue(sessions[j])
   BY <2>1, <2>2 DEF PollingOK, Polling
 <2>4. s.receipts = c.receipts
   BY <2>3, ScheduledAccounted
 <2>5. CASE i = j
  <3>1. /\ Undue(c).receipts = c.receipts /\ Undue(c).status = c.status
        /\ Undue(sessions[i]).receipts = sessions[i].receipts
        /\ Undue(sessions[i]).status = sessions[i].status
    BY <1>0, <2>3 DEF Undue, Session
  <3>2. sessions[i].receipts = c.receipts /\ sessions[i].status = "monitoring"
    BY <2>3, <2>5, <3>1
  <3>. HIDE DEF s, c, j
  <3>3. sessions'[i] = s
    BY <1>0, <2>1, <2>5
  <3>. QED BY <2>4, <3>2, <3>3
 <2>6. CASE i # j
  <3>. HIDE DEF s
  <3>. QED BY <1>0, <2>1, <2>6
 <2>. QED BY <2>5, <2>6
<1>4. CASE Monitor!Reread(p) \/ Monitor!PollFails(p) \/ Monitor!PollLost(p)
  BY <1>1, <1>4 DEF Monitor!Reread, Monitor!PollFails, Monitor!PollLost
<1>. QED BY <1>2, <1>3, <1>4 DEF Monitor!PollStep

LEMMA MonitorInvMeans ==
    ASSUME MonitorInv
    PROVE  Monitor!TypeOK /\ Monitor!FailedForAReason /\ Monitor!ResolvedByALaterEvent
<1>1. \A i \in DOMAIN sessions : sessions[i] \in Session /\ Accounted(sessions[i])
  BY DEF MonitorInv
<1>2. Monitor!FailedForAReason
  BY <1>1 DEF Monitor!FailedForAReason, Accounted
<1>3. Monitor!ResolvedByALaterEvent
  BY <1>1 DEF Monitor!ResolvedByALaterEvent, Accounted
<1>4. Cardinality(Monitor!ActiveOnes) <= 1
 <2>1. CASE Monitor!ActiveOnes = {}
   BY <2>1, FS_EmptySet
 <2>2. CASE Monitor!ActiveOnes # {}
  <3>1. PICK i : i \in Monitor!ActiveOnes
    BY <2>2
  <3>2. Monitor!ActiveOnes = {i}
    BY <3>1 DEF Monitor!ActiveOnes, MonitorInv, OneActive
  <3>3. Cardinality({i}) = 1
    BY FS_Singleton
  <3>. QED BY <3>2, <3>3
 <2>. QED BY <2>1, <2>2
<1>5. Monitor!TypeOK
 <2>1. todo \subseteq Events
   BY DEF MonitorInv
 <2>2. \A i \in DOMAIN sessions : sessions[i] \in Session
   BY <1>1
 <2>3. \A i \in DOMAIN sessions : sessions[i] \in
           [status : {"awaiting", "monitoring", "completed", "failed"},
            active : BOOLEAN, receipts : SUBSET Events, incidents : SUBSET Events,
            resolved : SUBSET Events, due : BOOLEAN, window : Events \union {"none"}]
   BY <2>2 DEF Session
 <2>4. Monitor!Cardinality(Monitor!ActiveOnes) = Cardinality(Monitor!ActiveOnes)
   BY Zenon DEF Monitor!Cardinality, Cardinality
 <2>. QED BY <1>4, <2>1, <2>3, <2>4 DEF Monitor!TypeOK
<1>. QED BY <1>2, <1>3, <1>5

\* For any events, in any order of arrival, and any number of webhook workers
\* and polls: a device has one active session at most, a session that failed has
\* a reason, and an incident is closed only by an event that happened after it
\* (monitoring.handle, poll_active, _resolve_incidents).
THEOREM SessionsEndForAReason ==
    ASSUME At \in [Events -> Int]
    PROVE  Monitor!Spec => []( /\ Monitor!TypeOK
                               /\ Monitor!FailedForAReason
                               /\ Monitor!ResolvedByALaterEvent )
<1>1. Monitor!Init => MonitorInv
  BY MonitorInit
<1>2. MonitorInv /\ [Monitor!Next]_(Monitor!vars) => MonitorInv'
  BY MonitorStep
<1>3. MonitorInv => /\ Monitor!TypeOK
                    /\ Monitor!FailedForAReason
                    /\ Monitor!ResolvedByALaterEvent
  BY MonitorInvMeans
<1>. QED BY <1>1, <1>2, <1>3, PTL DEF Monitor!Spec

\* A poll takes from no session an event that arrived while it read Mist, and
\* moves none that failed meanwhile (save_unless_changed, _poll_session).
THEOREM PollsEraseNothing ==
    ASSUME At \in [Events -> Int]
    PROVE  Monitor!Spec => Monitor!PollsEraseNothing
<1>1. Monitor!Init => MonitorInv
  BY MonitorInit
<1>2. MonitorInv /\ [Monitor!Next]_(Monitor!vars) => MonitorInv'
  BY MonitorStep
<1>3. MonitorInv /\ [Monitor!Next]_(Monitor!vars) => [Monitor!ErasesNothing]_(Monitor!vars)
  BY PollErasesNothing DEF Monitor!ErasesNothing
<1>. QED BY <1>1, <1>2, <1>3, PTL DEF Monitor!Spec, Monitor!PollsEraseNothing

\* The one snapshot in progress (SnapshotSlot).
CONSTANT Manifests
VARIABLES manifest, sending, messages, crawl, initial

Slot == INSTANCE SnapshotSlot

Manifest == [status : {"none", "pending", "running", "completed", "partial", "failed"},
             active : BOOLEAN, old : BOOLEAN]
Crawl == [pc : {"idle", "start", "crawl", "failing", "mark", "backup"},
          of : Manifests \union {"none"}, active : BOOLEAN]

OneInProgress == \A m, n \in Manifests : manifest[m].active /\ manifest[n].active => m = n

\* A worker crawls for a manifest that nobody else is to crawl for.
CrawlOK(w) ==
    LET l == crawl[w] IN
    /\ l.pc = "idle" => l = Slot!Idle
    /\ l.pc # "idle" =>
        /\ l.of \in Manifests /\ l.of \notin sending \union messages
        /\ manifest[l.of].status # "none"
        /\ \A v \in Workers \ {w} : crawl[v].pc # "idle" => crawl[v].of # l.of
        /\ l.pc = "mark" => manifest[l.of].status = "completed" /\ ~manifest[l.of].active

SlotInv ==
    /\ manifest \in [Manifests -> Manifest] /\ OneInProgress
    /\ sending \subseteq Manifests /\ messages \subseteq Manifests
    /\ sending \intersect messages = {}
    /\ \A m \in sending \union messages : manifest[m].status # "none"
    /\ crawl \in [Workers -> Crawl] /\ \A w \in Workers : CrawlOK(w)

LEMMA SlotValues ==
    /\ Slot!None \in Manifest /\ Slot!None.status = "none" /\ ~Slot!None.active
    /\ Slot!Pending \in Manifest /\ Slot!Pending.status = "pending" /\ Slot!Pending.active
    /\ Slot!Idle \in Crawl /\ Slot!Idle.pc = "idle"
  BY DEF Slot!None, Slot!Pending, Slot!Idle, Manifest, Crawl

LEMMA SlotInit ==
    ASSUME Slot!Init
    PROVE  SlotInv
  BY SlotValues DEF Slot!Init, SlotInv, OneInProgress, CrawlOK

\* One manifest is written.
LEMMA ManifestWritten ==
    ASSUME SlotInv, NEW m \in Manifests, NEW new \in Manifest, new.status # "none",
           new.active => \A n \in Manifests \ {m} : ~manifest[n].active,
           manifest' = [manifest EXCEPT ![m] = new]
    PROVE  /\ manifest' \in [Manifests -> Manifest] /\ OneInProgress'
           /\ \A n \in Manifests : manifest[n].status # "none" => manifest'[n].status # "none"
           /\ \A n \in Manifests \ {m} : manifest'[n] = manifest[n]
           /\ manifest'[m] = new
  BY DEF SlotInv, OneInProgress

\* No manifest a worker has completed is written.
LEMMA CrawlsStay ==
    ASSUME SlotInv, UNCHANGED crawl, manifest' \in [Manifests -> Manifest],
           \A n \in Manifests : manifest[n].status # "none" => manifest'[n].status # "none",
           \A n \in Manifests :
               manifest[n].status = "completed" /\ ~manifest[n].active =>
                   manifest'[n].status = "completed" /\ ~manifest'[n].active,
           \A w \in Workers : crawl[w].pc # "idle" => crawl[w].of \notin sending' \union messages'
    PROVE  crawl' \in [Workers -> Crawl] /\ \A w \in Workers : CrawlOK(w)'
  BY DEF SlotInv, CrawlOK

LEMMA TriggerKept ==
    ASSUME SlotInv, NEW m \in Manifests, Slot!Trigger(m)
    PROVE  SlotInv'
<1>1. /\ manifest[m] = Slot!None /\ manifest' = Slot!Opened(m, Slot!Pending)
      /\ sending' = sending \union {m} /\ UNCHANGED <<messages, crawl>>
  BY DEF Slot!Trigger
<1>2. manifest[m].status = "none"
  BY <1>1, SlotValues
<1>3. \A n \in Manifests : manifest[n] \in Manifest
  BY DEF SlotInv
<1>4. \A n \in Manifests : /\ Slot!Release(n) \in Manifest
                           /\ Slot!Release(n).status = "failed" /\ ~Slot!Release(n).active
  BY <1>3 DEF Slot!Release, Manifest
<1>5. manifest' = [n \in Manifests |-> IF n = m THEN Slot!Pending
                                       ELSE IF manifest[n].active THEN Slot!Release(n) ELSE manifest[n]]
  BY <1>1 DEF Slot!Opened
<1>6. manifest' \in [Manifests -> Manifest]
  BY <1>3, <1>4, <1>5, SlotValues
<1>7. /\ manifest'[m] = Slot!Pending
      /\ \A n \in Manifests \ {m} :
            manifest'[n] = IF manifest[n].active THEN Slot!Release(n) ELSE manifest[n]
  BY <1>5
<1>8. \A n \in Manifests \ {m} : ~manifest'[n].active
  BY <1>4, <1>7
<1>9. OneInProgress'
  BY <1>8 DEF OneInProgress
<1>10. \A n \in Manifests : manifest[n].status # "none" => manifest'[n].status # "none"
  BY <1>4, <1>7, SlotValues
<1>11. \A n \in Manifests :
             manifest[n].status = "completed" /\ ~manifest[n].active =>
                 manifest'[n].status = "completed" /\ ~manifest'[n].active
  BY <1>2, <1>7
<1>12. \A w \in Workers : crawl[w].pc # "idle" => crawl[w].of \notin sending' \union messages'
  BY <1>1, <1>2 DEF SlotInv, CrawlOK
<1>13. crawl' \in [Workers -> Crawl] /\ \A w \in Workers : CrawlOK(w)'
  BY <1>1, <1>6, <1>10, <1>11, <1>12, CrawlsStay
<1>14. sending' \intersect messages' = {} /\ \A n \in sending' \union messages' : manifest'[n].status # "none"
  BY <1>1, <1>2, <1>7, <1>10, SlotValues DEF SlotInv
<1>. QED BY <1>1, <1>6, <1>9, <1>13, <1>14 DEF SlotInv

LEMMA SendingKept ==
    ASSUME SlotInv, NEW m \in Manifests, Slot!Sent(m) \/ Slot!RequestLost(m) \/ Slot!GrowOld(m)
    PROVE  SlotInv'
<1>1. CASE Slot!Sent(m)
  BY <1>1 DEF Slot!Sent, SlotInv, OneInProgress, CrawlOK
<1>2. CASE Slot!RequestLost(m)
  BY <1>2 DEF Slot!RequestLost, SlotInv, OneInProgress, CrawlOK
<1>3. CASE Slot!GrowOld(m)
 <2>. DEFINE new == [manifest[m] EXCEPT !.old = TRUE]
 <2>1. manifest' = [manifest EXCEPT ![m] = new] /\ manifest[m].active /\ UNCHANGED <<sending, messages, crawl>>
   BY <1>3 DEF Slot!GrowOld
 <2>2. manifest[m] \in Manifest
   BY DEF SlotInv
 <2>3. new \in Manifest /\ new.status = manifest[m].status /\ new.active = manifest[m].active
   BY <2>2 DEF Manifest
 <2>. HIDE DEF new
 <2>4. manifest' \in [Manifests -> Manifest] /\ \A n \in Manifests :
         manifest'[n].status = manifest[n].status /\ manifest'[n].active = manifest[n].active
   BY <2>1, <2>3 DEF SlotInv
 <2>5. OneInProgress'
   BY <2>4 DEF OneInProgress, SlotInv
 <2>6. crawl' \in [Workers -> Crawl] /\ \A w \in Workers : CrawlOK(w)'
   BY <2>1, <2>4 DEF SlotInv, CrawlOK
 <2>. QED BY <2>1, <2>4, <2>5, <2>6 DEF SlotInv
<1>. QED BY <1>1, <1>2, <1>3

LEMMA UnsentKept ==
    ASSUME SlotInv, NEW m \in Manifests, Slot!Unsent(m)
    PROVE  SlotInv'
<1>. DEFINE new == [manifest[m] EXCEPT !.status = "failed", !.active = FALSE]
<1>1. /\ m \in sending /\ sending' = sending \ {m} /\ manifest' = [manifest EXCEPT ![m] = new]
      /\ UNCHANGED <<messages, crawl>>
  BY DEF Slot!Unsent
<1>2. manifest[m] \in Manifest
  BY DEF SlotInv
<1>3. new \in Manifest /\ new.status = "failed" /\ ~new.active
  BY <1>2 DEF Manifest
<1>. HIDE DEF new
<1>4. /\ manifest' \in [Manifests -> Manifest] /\ OneInProgress'
      /\ \A n \in Manifests : manifest[n].status # "none" => manifest'[n].status # "none"
      /\ \A n \in Manifests \ {m} : manifest'[n] = manifest[n]
  BY <1>1, <1>3, ManifestWritten
<1>5. crawl' \in [Workers -> Crawl] /\ \A w \in Workers : CrawlOK(w)'
  BY <1>1, <1>4 DEF SlotInv, CrawlOK
<1>. QED BY <1>1, <1>4, <1>5 DEF SlotInv

\* A worker moves, and writes no more than its own manifest.
LEMMA CrawlMoved ==
    ASSUME SlotInv, NEW w \in Workers, NEW m \in Manifests, NEW l \in Crawl, Slot!Set(w, l),
           UNCHANGED sending, messages' \subseteq messages, manifest' \in [Manifests -> Manifest],
           \A n \in Manifests : manifest[n].status # "none" => manifest'[n].status # "none",
           \A n \in Manifests \ {m} : manifest'[n] = manifest[n],
           \A v \in Workers \ {w} : crawl[v].pc # "idle" => crawl[v].of # m,
           l.pc = "idle" => l = Slot!Idle,
           l.pc # "idle" =>
               /\ l.of = m /\ m \notin sending \union messages' /\ manifest'[m].status # "none"
               /\ l.pc = "mark" => manifest'[m].status = "completed" /\ ~manifest'[m].active
    PROVE  /\ sending' \subseteq Manifests /\ messages' \subseteq Manifests
           /\ sending' \intersect messages' = {}
           /\ \A n \in sending' \union messages' : manifest'[n].status # "none"
           /\ crawl' \in [Workers -> Crawl] /\ \A v \in Workers : CrawlOK(v)'
<1>1. crawl' = [crawl EXCEPT ![w] = l]
  BY DEF Slot!Set
<1>2. crawl' \in [Workers -> Crawl] /\ crawl'[w] = l /\ \A v \in Workers \ {w} : crawl'[v] = crawl[v]
  BY <1>1 DEF SlotInv
<1>3. CrawlOK(w)'
  BY <1>2 DEF CrawlOK
<1>4. ASSUME NEW v \in Workers \ {w}
      PROVE  CrawlOK(v)'
  BY <1>2 DEF CrawlOK, SlotInv
<1>. QED BY <1>2, <1>3, <1>4 DEF SlotInv

LEMMA BackupKept ==
    ASSUME SlotInv, NEW w \in Workers, NEW m \in Manifests, Slot!Backup(w, m)
    PROVE  SlotInv'
<1>. DEFINE new == [Slot!Pending EXCEPT !.status = "running"]
            l == [pc |-> "backup", of |-> m, active |-> TRUE]
<1>1. /\ crawl[w] = Slot!Idle /\ manifest[m] = Slot!None /\ Slot!Active = {}
      /\ manifest' = [manifest EXCEPT ![m] = new] /\ Slot!Set(w, l) /\ UNCHANGED <<sending, messages>>
  BY DEF Slot!Backup
<1>2. new \in Manifest /\ new.status = "running"
  BY SlotValues DEF Manifest
<1>3. \A n \in Manifests \ {m} : ~manifest[n].active
  BY <1>1 DEF Slot!Active
<1>4. manifest[m].status = "none"
  BY <1>1, SlotValues
<1>. HIDE DEF new
<1>5. /\ manifest' \in [Manifests -> Manifest] /\ OneInProgress'
      /\ \A n \in Manifests : manifest[n].status # "none" => manifest'[n].status # "none"
      /\ \A n \in Manifests \ {m} : manifest'[n] = manifest[n]
      /\ manifest'[m] = new
  BY <1>1, <1>2, <1>3, ManifestWritten
<1>6. /\ l \in Crawl /\ l.pc = "backup" /\ l.of = m
      /\ m \notin sending \union messages
      /\ \A v \in Workers \ {w} : crawl[v].pc # "idle" => crawl[v].of # m
  BY <1>4 DEF Crawl, SlotInv, CrawlOK
<1>. HIDE DEF l
<1>7. crawl[w].pc = "idle"
  BY <1>1, SlotValues
<1>8. /\ sending' \subseteq Manifests /\ messages' \subseteq Manifests
      /\ sending' \intersect messages' = {}
      /\ \A n \in sending' \union messages' : manifest'[n].status # "none"
      /\ crawl' \in [Workers -> Crawl] /\ \A v \in Workers : CrawlOK(v)'
  BY <1>1, <1>2, <1>5, <1>6, <1>7, CrawlMoved
<1>. QED BY <1>5, <1>8 DEF SlotInv

LEMMA TakeKept ==
    ASSUME SlotInv, NEW w \in Workers, NEW m \in Manifests, Slot!Take(w, m)
    PROVE  SlotInv'
<1>. DEFINE l == [pc |-> "start", of |-> m, active |-> manifest[m].active]
<1>1. /\ crawl[w].pc = "idle" /\ m \in messages /\ messages' = messages \ {m} /\ Slot!Set(w, l)
      /\ UNCHANGED <<manifest, sending>>
  BY SlotValues DEF Slot!Take
<1>2. manifest[m] \in Manifest /\ manifest[m].status # "none"
  BY <1>1 DEF SlotInv
<1>3. /\ l \in Crawl /\ l.pc = "start" /\ l.of = m
      /\ m \notin sending
      /\ \A v \in Workers \ {w} : crawl[v].pc # "idle" => crawl[v].of # m
  BY <1>1, <1>2 DEF Crawl, Manifest, SlotInv, CrawlOK
<1>. HIDE DEF l
<1>4. manifest' \in [Manifests -> Manifest] /\ OneInProgress'
  BY <1>1 DEF SlotInv, OneInProgress
<1>5. /\ sending' \subseteq Manifests /\ messages' \subseteq Manifests
      /\ sending' \intersect messages' = {}
      /\ \A n \in sending' \union messages' : manifest'[n].status # "none"
      /\ crawl' \in [Workers -> Crawl] /\ \A v \in Workers : CrawlOK(v)'
  BY <1>1, <1>2, <1>3, <1>4, CrawlMoved
<1>. QED BY <1>4, <1>5 DEF SlotInv

LEMMA StartKept ==
    ASSUME SlotInv, NEW w \in Workers, Slot!Start(w)
    PROVE  SlotInv'
<1>. DEFINE l == crawl[w]
            new == [status |-> "running", active |-> l.active, old |-> FALSE]
            f == [l EXCEPT !.pc = "failing"]
            c == [l EXCEPT !.pc = "crawl"]
<1>1. l.pc = "start" /\ l \in Crawl /\ CrawlOK(w) /\ UNCHANGED <<sending, messages>>
  BY DEF Slot!Start, SlotInv
<1>2. /\ l.of \in Manifests /\ l.of \notin sending \union messages /\ manifest[l.of].status # "none"
      /\ \A v \in Workers \ {w} : crawl[v].pc # "idle" => crawl[v].of # l.of
  BY <1>1 DEF CrawlOK
<1>3. /\ f \in Crawl /\ f.pc = "failing" /\ f.of = l.of
      /\ c \in Crawl /\ c.pc = "crawl" /\ c.of = l.of
  BY <1>1 DEF Crawl
<1>. HIDE DEF f, c
<1>4. CASE Slot!Set(w, f) /\ UNCHANGED manifest
 <2>1. manifest' \in [Manifests -> Manifest] /\ OneInProgress'
   BY <1>4 DEF SlotInv, OneInProgress
 <2>2. /\ sending' \subseteq Manifests /\ messages' \subseteq Manifests
       /\ sending' \intersect messages' = {}
       /\ \A n \in sending' \union messages' : manifest'[n].status # "none"
       /\ crawl' \in [Workers -> Crawl] /\ \A v \in Workers : CrawlOK(v)'
   BY <1>1, <1>2, <1>3, <1>4, <2>1, CrawlMoved
 <2>. QED BY <2>1, <2>2 DEF SlotInv
<1>5. CASE /\ ~(l.active /\ Slot!Active \ {l.of} # {})
           /\ manifest' = [manifest EXCEPT ![l.of] = new] /\ Slot!Set(w, c)
 <2>1. new \in Manifest /\ new.status = "running" /\ new.active = l.active
   BY <1>1 DEF Manifest, Crawl
 <2>2. l.active => \A n \in Manifests \ {l.of} : ~manifest[n].active
   BY <1>5 DEF Slot!Active
 <2>. HIDE DEF new
 <2>3. /\ manifest' \in [Manifests -> Manifest] /\ OneInProgress'
       /\ \A n \in Manifests : manifest[n].status # "none" => manifest'[n].status # "none"
       /\ \A n \in Manifests \ {l.of} : manifest'[n] = manifest[n]
       /\ manifest'[l.of] = new
   BY <1>2, <1>5, <2>1, <2>2, ManifestWritten
 <2>4. /\ sending' \subseteq Manifests /\ messages' \subseteq Manifests
       /\ sending' \intersect messages' = {}
       /\ \A n \in sending' \union messages' : manifest'[n].status # "none"
       /\ crawl' \in [Workers -> Crawl] /\ \A v \in Workers : CrawlOK(v)'
   BY <1>1, <1>2, <1>3, <1>5, <2>1, <2>3, CrawlMoved
 <2>. QED BY <2>3, <2>4 DEF SlotInv
<1>. QED BY <1>4, <1>5 DEF Slot!Start, f, c

LEMMA FinishKept ==
    ASSUME SlotInv, NEW w \in Workers, NEW status \in {"completed", "partial", "failed"},
           crawl[w].pc # "idle", Slot!Finish(w, status)
    PROVE  SlotInv'
<1>. DEFINE l == crawl[w]
            m == l.of
            new == [manifest[m] EXCEPT !.status = status, !.active = FALSE]
            k == [l EXCEPT !.pc = "mark"]
<1>1. l \in Crawl /\ CrawlOK(w) /\ UNCHANGED <<sending, messages>>
  BY DEF Slot!Finish, SlotInv
<1>2. /\ m \in Manifests /\ m \notin sending \union messages /\ manifest[m].status # "none"
      /\ \A v \in Workers \ {w} : crawl[v].pc # "idle" => crawl[v].of # m
  BY <1>1 DEF CrawlOK
<1>3. manifest[m] \in Manifest
  BY <1>2 DEF SlotInv
<1>4. manifest' = [manifest EXCEPT ![m] = new]
  BY <1>2 DEF Slot!Finish, SlotInv
<1>5. new \in Manifest /\ new.status = status /\ ~new.active
  BY <1>3 DEF Manifest
<1>6. k \in Crawl /\ k.pc = "mark" /\ k.of = m
  BY <1>1 DEF Crawl
<1>7. (status = "completed" /\ Slot!Set(w, k)) \/ Slot!Set(w, Slot!Idle)
  BY DEF Slot!Finish
<1>. HIDE DEF new, k
<1>8. /\ manifest' \in [Manifests -> Manifest] /\ OneInProgress'
      /\ \A n \in Manifests : manifest[n].status # "none" => manifest'[n].status # "none"
      /\ \A n \in Manifests \ {m} : manifest'[n] = manifest[n]
      /\ manifest'[m] = new
  BY <1>2, <1>4, <1>5, ManifestWritten
<1>9. /\ sending' \subseteq Manifests /\ messages' \subseteq Manifests
      /\ sending' \intersect messages' = {}
      /\ \A n \in sending' \union messages' : manifest'[n].status # "none"
      /\ crawl' \in [Workers -> Crawl] /\ \A v \in Workers : CrawlOK(v)'
 <2>1. CASE status = "completed" /\ Slot!Set(w, k)
   BY <1>1, <1>2, <1>5, <1>6, <1>8, <2>1, CrawlMoved
 <2>2. CASE Slot!Set(w, Slot!Idle)
   BY <1>1, <1>2, <1>8, <2>2, SlotValues, CrawlMoved
 <2>. QED BY <1>7, <2>1, <2>2
<1>. QED BY <1>8, <1>9 DEF SlotInv

LEMMA WorkerEndsKept ==
    ASSUME SlotInv, NEW w \in Workers, Slot!Mark(w) \/ Slot!WorkerLost(w)
    PROVE  SlotInv'
<1>1. crawl[w] # Slot!Idle /\ Slot!Set(w, Slot!Idle) /\ UNCHANGED <<manifest, sending>>
  BY SlotValues DEF Slot!Mark, Slot!WorkerLost
<1>2. crawl' = [crawl EXCEPT ![w] = Slot!Idle]
  BY <1>1 DEF Slot!Set
<1>3. crawl' \in [Workers -> Crawl] /\ crawl'[w] = Slot!Idle /\ \A v \in Workers \ {w} : crawl'[v] = crawl[v]
  BY <1>2, SlotValues DEF SlotInv
<1>4. CASE UNCHANGED messages
  BY <1>1, <1>3, <1>4, SlotValues DEF SlotInv, OneInProgress, CrawlOK
<1>5. CASE crawl[w].pc # "idle" /\ messages' = messages \union {crawl[w].of}
 <2>1. CrawlOK(w)
   BY DEF SlotInv
 <2>2. /\ crawl[w].of \in Manifests /\ crawl[w].of \notin sending
       /\ manifest[crawl[w].of].status # "none"
       /\ \A v \in Workers \ {w} : crawl[v].pc # "idle" => crawl[v].of # crawl[w].of
   BY <1>5, <2>1 DEF CrawlOK
 <2>3. \A v \in Workers : CrawlOK(v)'
   BY <1>1, <1>3, <1>5, <2>2, SlotValues DEF SlotInv, CrawlOK
 <2>. QED BY <1>1, <1>3, <1>5, <2>2, <2>3 DEF SlotInv, OneInProgress
<1>6. crawl[w].pc # "idle"
  BY <1>1 DEF SlotInv, CrawlOK
<1>. QED BY <1>1, <1>4, <1>5, <1>6 DEF Slot!Mark, Slot!WorkerLost

LEMMA SlotStep ==
    ASSUME SlotInv, [Slot!Next]_(Slot!vars)
    PROVE  SlotInv'
<1>1. ASSUME NEW w \in Workers, Slot!End(w)
      PROVE  SlotInv'
  BY <1>1, FinishKept DEF Slot!End
<1>2. CASE UNCHANGED Slot!vars
  BY <1>2 DEF Slot!vars, SlotInv, OneInProgress, CrawlOK
<1>. QED BY <1>1, <1>2, TriggerKept, SendingKept, UnsentKept, BackupKept, TakeKept, StartKept,
            WorkerEndsKept DEF Slot!Next

LEMMA SlotInvMeans ==
    ASSUME SlotInv
    PROVE  Slot!TypeOK
<1>1. Cardinality(Slot!Active) <= 1
 <2>1. CASE Slot!Active = {}
   BY <2>1, FS_EmptySet
 <2>2. CASE Slot!Active # {}
  <3>1. PICK m : m \in Slot!Active
    BY <2>2
  <3>2. Slot!Active = {m}
    BY <3>1 DEF Slot!Active, SlotInv, OneInProgress
  <3>3. Cardinality({m}) = 1
    BY FS_Singleton
  <3>. QED BY <3>2, <3>3
 <2>. QED BY <2>1, <2>2
<1>2. Slot!Cardinality(Slot!Active) = Cardinality(Slot!Active)
  BY Zenon DEF Slot!Cardinality, Cardinality
<1>3. \A m \in Manifests : manifest[m] \in Manifest
  BY DEF SlotInv
<1>4. \A m \in Manifests : manifest[m].status \in
            {"none", "pending", "running", "completed", "partial", "failed"}
  BY <1>3 DEF Manifest
<1>5. sending \subseteq Manifests /\ messages \subseteq Manifests
  BY DEF SlotInv
<1>. QED BY <1>1, <1>2, <1>4, <1>5 DEF Slot!TypeOK

\* An organization has one snapshot in progress at most, and its history is said
\* to hold a complete one only after a snapshot was completed, though messages
\* are redelivered, workers and requests lost, and a stale snapshot released
\* while its worker still crawls (open_manifest, run, _mark_initial_snapshot).
THEOREM OneSnapshotAtATime ==
    Slot!Spec => []Slot!TypeOK /\ Slot!InitialIsComplete
<1>1. SlotInv /\ [Slot!Next]_(Slot!vars) => [Slot!MarkedWhenComplete]_(Slot!vars)
 <2>. SUFFICES ASSUME SlotInv, [Slot!Next]_(Slot!vars), initial' # initial
               PROVE  Slot!MarkedWhenComplete
   BY DEF Slot!MarkedWhenComplete, Slot!vars
 <2>1. PICK w \in Workers : Slot!Mark(w)
   BY DEF Slot!Next, Slot!vars, Slot!Trigger, Slot!Sent, Slot!Unsent, Slot!RequestLost,
          Slot!GrowOld, Slot!Take, Slot!Backup, Slot!Start, Slot!End, Slot!Finish, Slot!WorkerLost
 <2>2. crawl[w].pc = "mark" /\ CrawlOK(w)
   BY <2>1 DEF Slot!Mark, SlotInv
 <2>. QED BY <2>2 DEF CrawlOK, Slot!MarkedWhenComplete
<1>2. SlotInv => Slot!TypeOK
  BY SlotInvMeans
<1>3. Slot!Init => SlotInv
  BY SlotInit
<1>4. SlotInv /\ [Slot!Next]_(Slot!vars) => SlotInv'
  BY SlotStep
<1>. QED BY <1>1, <1>2, <1>3, <1>4, PTL DEF Slot!Spec, Slot!InitialIsComplete

\* Second factors and browser sessions of one account (SignIn).
CONSTANTS Challenges, Sessions, MaxStep, MaxSecrets
VARIABLES user, pending, issued, challenge, session, accepted, completed

Signing == INSTANCE SignIn

Steps == 1 .. MaxStep
Recovery(g) == <<"recovery", g>>
Codes == {<<"step", s>> : s \in Steps} \union {Recovery(g) : g \in 1 .. MaxSecrets}
Account == [secret : Nat, codes : SUBSET Codes, step : Nat]
Signer == [pc : {"idle", "first", "load", "verify", "consume", "start", "mark", "confirm", "code",
                 "disable", "regenerate"},
           of : Challenges \union Sessions \union {"none"}, code : Codes \union {<<"step", 0>>},
           copy : Account]
Challenge == [status : {"none", "open", "gone"}, attempts : Nat]
Browser == [status : {"none", "live", "revoked"}, fresh : BOOLEAN]

\* What a request works on where it is.
PlaceOK(l) ==
    /\ l.pc \in {"load", "consume", "start"} => l.of \in Challenges
    /\ l.pc = "verify" => l.of \in Challenges \union Sessions
    /\ l.pc = "mark" => l.of \in Sessions
    /\ l.pc \in {"load", "verify"} => l.code \in Codes

Starts(r, c) == request[r].pc = "start" /\ request[r].of = c

\* One request at most completes a challenge, none while it is open.
ChallengesOK ==
    \A c \in Challenges :
        /\ completed[c] <= 1
        /\ \A r \in Requests : Starts(r, c) => completed[c] = 0
        /\ \A q, r \in Requests : Starts(q, c) /\ Starts(r, c) => q = r
        /\ challenge[c].status \in {"none", "open"} =>
               completed[c] = 0 /\ \A r \in Requests : ~Starts(r, c)

\* Secrets and sets of codes are numbered as they are issued; one that waits to
\* be confirmed is with the store or with one request, and is not enrolled.
Confirms(r) == request[r].pc = "code"
SecretsOK ==
    /\ issued \in 1 .. MaxSecrets /\ pending \in 0 .. issued
    /\ \A k \in user.codes : \E g \in 1 .. issued : k = Recovery(g)
    /\ Recovery(pending) \notin user.codes
    /\ \A r \in Requests : Confirms(r) =>
          LET n == request[r].copy.secret IN
          n \in 1 .. issued /\ n # pending /\ Recovery(n) \notin user.codes
    /\ \A q, r \in Requests :
          Confirms(q) /\ Confirms(r) /\ q # r => request[q].copy.secret # request[r].copy.secret

\* A code that may still be accepted has not been.
Unused(k) == accepted[k] = 0
CodesOK ==
    /\ \A k \in Codes : accepted[k] <= 1
    /\ \A k \in user.codes : Unused(k)
    /\ \A s \in Steps : s > user.step => Unused(<<"step", s>>)
    /\ \A g \in 1 .. MaxSecrets : g > issued \/ g = pending => Unused(Recovery(g))
    /\ \A r \in Requests : Confirms(r) => Unused(Recovery(request[r].copy.secret))

SignInv ==
    /\ user \in Account
    /\ challenge \in [Challenges -> Challenge]
    /\ session \in [Sessions -> Browser]
    /\ request \in [Requests -> Signer] /\ \A r \in Requests : PlaceOK(request[r])
    /\ accepted \in [Codes -> Nat] /\ completed \in [Challenges -> Nat]
    /\ ChallengesOK /\ SecretsOK /\ CodesOK

LEMMA SignValues ==
    /\ Signing!NoUser \in Account /\ Signing!Idle \in Signer
    /\ Signing!Idle.pc = "idle"
    /\ Signing!Steps = Steps /\ Signing!Codes = Codes
  BY DEF Signing!NoUser, Signing!Idle, Account, Signer, Signing!Steps, Steps, Signing!Codes, Codes, Recovery

LEMMA SignInit ==
    ASSUME MaxStep \in Nat, MaxSecrets \in Nat \ {0}, Signing!Init
    PROVE  SignInv
<1>1. /\ user = [secret |-> 1, codes |-> {Recovery(1)}, step |-> 0]
      /\ pending = 0 /\ issued = 1
      /\ challenge = [c \in Challenges |-> [status |-> "none", attempts |-> 0]]
      /\ session = [s \in Sessions |-> [status |-> "none", fresh |-> FALSE]]
      /\ request = [r \in Requests |-> Signing!Idle]
      /\ accepted = [k \in Codes |-> 0]
      /\ completed = [c \in Challenges |-> 0]
  BY SignValues DEF Signing!Init, Recovery
<1>2. Recovery(1) \in Codes /\ Recovery(0) # Recovery(1)
  BY DEF Codes, Recovery
<1>3. user \in Account
  BY <1>1, <1>2 DEF Account
<1>4. /\ challenge \in [Challenges -> Challenge] /\ session \in [Sessions -> Browser]
      /\ accepted \in [Codes -> Nat] /\ completed \in [Challenges -> Nat]
  BY <1>1 DEF Challenge, Browser
<1>5. request \in [Requests -> Signer] /\ \A r \in Requests : request[r].pc = "idle" /\ PlaceOK(request[r])
  BY <1>1, SignValues DEF PlaceOK
<1>6. ChallengesOK
  BY <1>1, <1>5 DEF ChallengesOK, Starts
<1>7. SecretsOK
  BY <1>1, <1>2, <1>5 DEF SecretsOK, Confirms
<1>8. \A k \in Codes : accepted[k] = 0
  BY <1>1
<1>9. CodesOK
  BY <1>1, <1>2, <1>5, <1>8 DEF CodesOK, Confirms, Unused, Codes
<1>. QED BY <1>3, <1>4, <1>5, <1>6, <1>7, <1>9 DEF SignInv

\* A request that goes where it neither confirms a secret nor completes a
\* challenge, and reopens none.
LEMMA SignMoved ==
    ASSUME SignInv, NEW r \in Requests, NEW l \in Signer, Signing!Set(r, l), PlaceOK(l),
           l.pc \notin {"code", "start"},
           UNCHANGED <<user, pending, issued, accepted, completed>>,
           session' \in [Sessions -> Browser], challenge' \in [Challenges -> Challenge],
           \A c \in Challenges : challenge'[c].status \in {"none", "open"} =>
                                     challenge[c].status \in {"none", "open"}
    PROVE  SignInv'
<1>1. request' = [request EXCEPT ![r] = l]
  BY DEF Signing!Set
<1>2. request' \in [Requests -> Signer] /\ request'[r] = l
      /\ \A q \in Requests \ {r} : request'[q] = request[q]
  BY <1>1 DEF SignInv
<1>3. \A q \in Requests : PlaceOK(request'[q])
  BY <1>2 DEF SignInv
<1>4. \A q \in Requests : /\ Confirms(q)' => q # r /\ Confirms(q)
                          /\ \A c : Starts(q, c)' => q # r /\ Starts(q, c)
  BY <1>2 DEF Confirms, Starts
<1>5. ChallengesOK'
  BY <1>4 DEF SignInv, ChallengesOK
<1>6. SecretsOK'
  BY <1>2, <1>4 DEF SignInv, SecretsOK
<1>7. CodesOK'
  BY <1>2, <1>4 DEF SignInv, CodesOK, Unused
<1>. QED BY <1>2, <1>3, <1>5, <1>6, <1>7 DEF SignInv

\* Sessions change, the rest stays.
LEMMA SessionsMoved ==
    ASSUME SignInv, session' \in [Sessions -> Browser],
           UNCHANGED <<user, pending, issued, challenge, request, accepted, completed>>
    PROVE  SignInv'
  BY DEF SignInv, ChallengesOK, Starts, SecretsOK, Confirms, CodesOK, Unused

LEMMA SessionsTyped ==
    ASSUME SignInv, NEW s \in Sessions
    PROVE  /\ \A fresh \in BOOLEAN : Signing!NewSession(s, fresh) => session' \in [Sessions -> Browser]
           /\ Signing!Revoke({s}) \/ Signing!WindowEnds(s) => session' \in [Sessions -> Browser]
           /\ [session EXCEPT ![s].fresh = TRUE] \in [Sessions -> Browser]
<1>1. session \in [Sessions -> Browser] /\ session[s] \in Browser
  BY DEF SignInv
<1>2. \A fresh \in BOOLEAN : Signing!NewSession(s, fresh) => session' \in [Sessions -> Browser]
  BY <1>1 DEF Signing!NewSession, Browser
<1>3. \A b \in BOOLEAN : [session EXCEPT ![s].fresh = b] \in [Sessions -> Browser]
  BY <1>1 DEF Browser
<1>4. [session[s] EXCEPT !.status = "revoked"] \in Browser
  BY <1>1 DEF Browser
<1>. QED BY <1>1, <1>2, <1>3, <1>4 DEF Signing!Revoke, Signing!WindowEnds

LEMMA RevokeKept ==
    ASSUME SignInv, NEW gone \in SUBSET Sessions, Signing!Revoke(gone)
    PROVE  SignInv'
<1>1. \A s \in Sessions : session[s] \in Browser /\ [session[s] EXCEPT !.status = "revoked"] \in Browser
  BY DEF SignInv, Browser
<1>2. session' \in [Sessions -> Browser]
  BY <1>1 DEF Signing!Revoke
<1>. QED BY <1>2, SessionsMoved DEF Signing!Revoke, Signing!account

LEMMA WindowEndsKept ==
    ASSUME SignInv, NEW s \in Sessions, Signing!WindowEnds(s)
    PROVE  SignInv'
  BY SessionsTyped, SessionsMoved DEF Signing!WindowEnds, Signing!account

LEMMA FirstFactorKept ==
    ASSUME SignInv, NEW r \in Requests,
           Signing!Authenticate(r) \/ \E op \in {"confirm", "disable", "regenerate"} : Signing!Read(r, op)
    PROVE  SignInv'
<1>1. PICK op \in {"first", "confirm", "disable", "regenerate"} :
          /\ Signing!Set(r, [Signing!Idle EXCEPT !.pc = op, !.copy = user])
          /\ UNCHANGED <<user, pending, issued, challenge, session, accepted, completed>>
  BY DEF Signing!Authenticate, Signing!Read, Signing!account
<1>. DEFINE l == [Signing!Idle EXCEPT !.pc = op, !.copy = user]
<1>2. l \in Signer /\ l.pc = op
  BY SignValues DEF Signer, SignInv
<1>. HIDE DEF l
<1>3. PlaceOK(l)
  BY <1>2 DEF PlaceOK
<1>4. session' \in [Sessions -> Browser] /\ challenge' \in [Challenges -> Challenge]
  BY <1>1 DEF SignInv
<1>. QED BY <1>1, <1>2, <1>3, <1>4, SignMoved DEF l

LEMMA AnswerKept ==
    ASSUME SignInv, NEW r \in Requests, Signing!Answer(r)
    PROVE  SignInv'
<1>1. Signing!Set(r, Signing!Idle) /\ UNCHANGED <<user, pending, issued, accepted, completed>>
  BY DEF Signing!Answer, Signing!Done, Signing!account
<1>2. PlaceOK(Signing!Idle)
  BY SignValues DEF PlaceOK
<1>3. ASSUME NEW c \in Challenges, challenge[c].status = "none",
             challenge' = [challenge EXCEPT ![c].status = "open"], UNCHANGED session
      PROVE  SignInv'
 <2>1. challenge[c] \in Challenge
   BY DEF SignInv
 <2>2. challenge' \in [Challenges -> Challenge]
   BY <1>3, <2>1 DEF SignInv, Challenge
 <2>3. \A d \in Challenges : challenge'[d].status \in {"none", "open"} =>
                                  challenge[d].status \in {"none", "open"}
   BY <1>3 DEF SignInv
 <2>. QED BY <1>1, <1>2, <1>3, <2>2, <2>3, SignValues, SignMoved DEF SignInv
<1>4. ASSUME NEW s \in Sessions, Signing!NewSession(s, FALSE), UNCHANGED challenge
      PROVE  SignInv'
 <2>1. session' \in [Sessions -> Browser]
   BY <1>4, SessionsTyped
 <2>. QED BY <1>1, <1>2, <1>4, <2>1, SignValues, SignMoved DEF SignInv
<1>. QED BY <1>3, <1>4 DEF Signing!Answer

LEMMA AttemptKept ==
    ASSUME SignInv, NEW r \in Requests, NEW c \in Challenges, NEW k \in Codes, Signing!Attempt(r, c, k)
    PROVE  SignInv'
<1>. DEFINE n == challenge[c].attempts + 1
            l == [Signing!Idle EXCEPT !.pc = "load", !.of = c, !.code = k]
            b == IF n > MaxAttempts THEN "gone" ELSE "open"
            new == [challenge[c] EXCEPT !.attempts = n, !.status = b]
<1>1. challenge[c] \in Challenge /\ challenge[c].status = "open" /\ request[r] = Signing!Idle
  BY DEF SignInv, Signing!Attempt
<1>2. new \in Challenge
 <2>1. n \in Nat /\ b \in {"gone", "open"}
   BY <1>1 DEF Challenge
 <2>. HIDE DEF n, b
 <2>. QED BY <1>1, <2>1 DEF Challenge
<1>3. challenge' = [challenge EXCEPT ![c] = new]
  BY <1>1 DEF Signing!Attempt, SignInv, Challenge
<1>. HIDE DEF new
<1>4. challenge' \in [Challenges -> Challenge] /\ \A d \in Challenges \ {c} : challenge'[d] = challenge[d]
  BY <1>2, <1>3 DEF SignInv
<1>5. \A d \in Challenges : challenge'[d].status \in {"none", "open"} =>
                                 challenge[d].status \in {"none", "open"}
  BY <1>1, <1>4
<1>6. l \in Signer /\ l.pc = "load" /\ l.of = c /\ l.code = k
  BY SignValues DEF Signer
<1>. HIDE DEF l
<1>7. PlaceOK(l)
  BY <1>6 DEF PlaceOK
<1>8. UNCHANGED <<user, pending, issued, session, accepted, completed>>
  BY DEF Signing!Attempt, Signing!account
<1>9. CASE UNCHANGED request
 <2>1. Signing!Set(r, Signing!Idle)
   BY <1>1, <1>9 DEF SignInv, Signing!Set
 <2>2. PlaceOK(Signing!Idle)
   BY SignValues DEF PlaceOK
 <2>. QED BY <1>4, <1>5, <1>8, <2>1, <2>2, SignValues, SignMoved DEF SignInv
<1>10. CASE Signing!Set(r, l)
  BY <1>4, <1>5, <1>6, <1>7, <1>8, <1>10, SignMoved DEF SignInv
<1>. QED BY <1>9, <1>10 DEF Signing!Attempt, l

LEMMA PassKept ==
    ASSUME SignInv, NEW r \in Requests,
           \/ Signing!Load(r) \/ Signing!MarkVerified(r)
           \/ \E s \in Sessions, k \in Codes : Signing!StepUp(r, s, k)
    PROVE  SignInv'
<1>1. request[r] \in Signer /\ PlaceOK(request[r])
  BY DEF SignInv
<1>2. session \in [Sessions -> Browser] /\ challenge \in [Challenges -> Challenge] /\ user \in Account
  BY DEF SignInv
<1>3. CASE Signing!Load(r)
 <2>. DEFINE l == [request[r] EXCEPT !.pc = "verify", !.copy = user]
 <2>1. /\ request[r].pc = "load" /\ Signing!Set(r, l)
       /\ UNCHANGED <<user, pending, issued, challenge, session, accepted, completed>>
   BY <1>3 DEF Signing!Load, Signing!account
 <2>2. l \in Signer /\ l.pc = "verify" /\ l.of = request[r].of /\ l.code = request[r].code
   BY <1>1, <1>2 DEF Signer
 <2>. HIDE DEF l
 <2>3. PlaceOK(l)
   BY <1>1, <2>1, <2>2 DEF PlaceOK
 <2>. QED BY <1>2, <2>1, <2>2, <2>3, SignMoved
<1>4. ASSUME NEW s \in Sessions, NEW k \in Codes, Signing!StepUp(r, s, k)
      PROVE  SignInv'
 <2>. DEFINE l == [pc |-> "verify", of |-> s, code |-> k, copy |-> user]
 <2>1. /\ Signing!Set(r, l)
       /\ UNCHANGED <<user, pending, issued, challenge, session, accepted, completed>>
   BY <1>4 DEF Signing!StepUp, Signing!account
 <2>2. l \in Signer /\ l.pc = "verify" /\ l.of = s /\ l.code = k
   BY <1>2 DEF Signer
 <2>. HIDE DEF l
 <2>3. PlaceOK(l)
   BY <2>2 DEF PlaceOK
 <2>. QED BY <1>2, <2>1, <2>2, <2>3, SignMoved
<1>5. CASE Signing!MarkVerified(r)
 <2>1. /\ request[r].pc = "mark" /\ Signing!Set(r, Signing!Idle)
       /\ session' = session \/ session' = [session EXCEPT ![request[r].of].fresh = TRUE]
       /\ UNCHANGED <<user, pending, issued, challenge, accepted, completed>>
   BY <1>5 DEF Signing!MarkVerified, Signing!Done, Signing!account
 <2>2. request[r].of \in Sessions
   BY <1>1, <2>1 DEF PlaceOK
 <2>3. session' \in [Sessions -> Browser]
   BY <1>2, <2>1, <2>2, SessionsTyped
 <2>4. PlaceOK(Signing!Idle)
   BY SignValues DEF PlaceOK
 <2>. QED BY <1>2, <2>1, <2>3, <2>4, SignValues, SignMoved
<1>. QED BY <1>3, <1>4, <1>5

\* A request that goes where it starts no session leaves what the challenges say.
LEMMA ChallengesKept ==
    ASSUME SignInv, NEW r \in Requests, NEW l \in Signer, Signing!Set(r, l), l.pc # "start",
           UNCHANGED <<challenge, completed>>
    PROVE  /\ challenge' \in [Challenges -> Challenge] /\ completed' \in [Challenges -> Nat]
           /\ ChallengesOK'
  BY DEF SignInv, ChallengesOK, Starts, Signing!Set

\* What the requests are once one of them moved.
LEMMA RequestMoved ==
    ASSUME SignInv, NEW r \in Requests, NEW l \in Signer, Signing!Set(r, l), PlaceOK(l)
    PROVE  /\ request' \in [Requests -> Signer] /\ request'[r] = l
           /\ \A q \in Requests \ {r} : request'[q] = request[q]
           /\ \A q \in Requests : PlaceOK(request'[q])
<1>1. request' = [request EXCEPT ![r] = l]
  BY DEF Signing!Set
<1>. QED BY <1>1 DEF SignInv

LEMMA CodeNames ==
    /\ \A g \in 1 .. MaxSecrets : Recovery(g) \in Codes
    /\ \A s \in Steps : <<"step", s>> \in Codes
    /\ \A g, h : Recovery(g) = Recovery(h) => g = h
    /\ \A g, s : Recovery(g) # <<"step", s>>
    /\ \A s, t : <<"step", s>> = <<"step", t>> => s = t
    /\ \A k \in Codes : k[1] = "step" => k[2] \in Steps /\ k = <<"step", k[2]>>
  BY DEF Codes, Recovery

LEMMA VerifyKept ==
    ASSUME MaxStep \in Nat, MaxSecrets \in Nat, SignInv, NEW r \in Requests, Signing!Verify(r)
    PROVE  SignInv'
<1>. DEFINE l == request[r]
            k == l.code
            b == IF l.of \in Challenges THEN "consume" ELSE "mark"
            t == [l EXCEPT !.pc = b]
<1>1. l \in Signer /\ PlaceOK(l) /\ l.pc = "verify"
  BY DEF SignInv, Signing!Verify
<1>2. k \in Codes /\ l.of \in Challenges \union Sessions
  BY <1>1 DEF PlaceOK
<1>3. UNCHANGED <<pending, issued, challenge, session, completed>>
  BY DEF Signing!Verify
<1>4. CASE UNCHANGED <<user, accepted>> /\ Signing!Set(r, Signing!Idle)
 <2>1. PlaceOK(Signing!Idle)
   BY SignValues DEF PlaceOK
 <2>. QED BY <1>3, <1>4, <2>1, SignValues, SignMoved DEF SignInv
<1>5. CASE /\ \/ Signing!ClaimsStep(l) /\ user' = [user EXCEPT !.step = k[2]]
              \/ k \in user.codes /\ user' = [user EXCEPT !.codes = @ \ {k}]
           /\ accepted' = [accepted EXCEPT ![k] = @ + 1] /\ Signing!Set(r, t)
 <2>1. t \in Signer /\ t.pc = b /\ t.of = l.of /\ b \in {"consume", "mark"}
  <3>1. b \in {"consume", "mark"}
    OBVIOUS
  <3>. HIDE DEF b
  <3>. QED BY <1>1, <3>1 DEF Signer
 <2>2. PlaceOK(t)
   BY <1>2, <2>1 DEF PlaceOK
 <2>. HIDE DEF t, b
 <2>3. /\ request' \in [Requests -> Signer] /\ request'[r] = t
       /\ \A q \in Requests \ {r} : request'[q] = request[q]
       /\ \A q \in Requests : PlaceOK(request'[q])
   BY <1>5, <2>1, <2>2, RequestMoved
 <2>4. /\ challenge' \in [Challenges -> Challenge] /\ completed' \in [Challenges -> Nat]
       /\ ChallengesOK'
   BY <1>3, <1>5, <2>1, ChallengesKept
 <2>5. user \in Account /\ accepted \in [Codes -> Nat] /\ SecretsOK /\ CodesOK
   BY DEF SignInv
 <2>6. \A q \in Requests : Confirms(q)' <=> q # r /\ Confirms(q)
   BY <1>1, <2>1, <2>3 DEF Confirms
 <2>7. Unused(k)
  <3>1. CASE Signing!ClaimsStep(l)
   <4>1. k[1] = "step" /\ k[2] > user.step
     BY <3>1 DEF Signing!ClaimsStep
   <4>2. k[2] \in Steps /\ k = <<"step", k[2]>>
     BY <1>2, <4>1, CodeNames
   <4>. QED BY <2>5, <4>1, <4>2 DEF CodesOK
  <3>2. CASE k \in user.codes
    BY <2>5, <3>2 DEF CodesOK
  <3>. QED BY <1>5, <3>1, <3>2
 <2>8. accepted' \in [Codes -> Nat] /\ accepted'[k] = 1 /\ \A c \in Codes \ {k} : accepted'[c] = accepted[c]
   BY <1>2, <1>5, <2>5, <2>7 DEF Unused
 <2>9. CASE Signing!ClaimsStep(l) /\ user' = [user EXCEPT !.step = k[2]]
  <3>1. k[1] = "step" /\ k[2] > user.step
    BY <2>9 DEF Signing!ClaimsStep
  <3>2. k[2] \in Steps /\ k[2] \in Nat /\ k = <<"step", k[2]>>
    BY <1>2, <3>1, CodeNames DEF Steps
  <3>3. user' \in Account /\ user'.step = k[2] /\ user'.codes = user.codes
    BY <2>5, <2>9, <3>2 DEF Account
  <3>4. SecretsOK'
    BY <1>3, <2>3, <2>5, <2>6, <3>3 DEF SecretsOK
  <3>5. \A g : Recovery(g) # k
    BY <3>2 DEF Recovery
  <3>6. \A c \in user.codes : c \in Codes /\ c # k
    BY <2>5, <3>5 DEF SecretsOK, Account
  <3>7. \A s \in Steps : s > k[2] => <<"step", s>> # k /\ s > user.step /\ <<"step", s>> \in Codes
    BY <2>5, <3>1, <3>2, CodeNames DEF Steps, Account
  <3>8. \A g \in 1 .. MaxSecrets : Recovery(g) \in Codes /\ Recovery(g) # k
    BY <3>5, CodeNames
  <3>9. \A q \in Requests : Confirms(q) => request[q].copy.secret \in 1 .. MaxSecrets
    BY <2>5 DEF SecretsOK
  <3>10. CodesOK'
    BY <1>3, <2>3, <2>5, <2>6, <2>8, <3>3, <3>6, <3>7, <3>8, <3>9 DEF CodesOK, Unused
  <3>. QED BY <1>3, <2>3, <2>4, <2>8, <3>3, <3>4, <3>10 DEF SignInv
 <2>10. CASE k \in user.codes /\ user' = [user EXCEPT !.codes = @ \ {k}]
  <3>1. user' \in Account /\ user'.step = user.step /\ user'.codes = user.codes \ {k}
    BY <2>5, <2>10 DEF Account
  <3>2. PICK h \in 1 .. issued : k = Recovery(h)
    BY <2>5, <2>10 DEF SecretsOK
  <3>3. SecretsOK'
    BY <1>3, <2>3, <2>5, <2>6, <3>1 DEF SecretsOK
  <3>4. \A s \in Steps : <<"step", s>> # k /\ <<"step", s>> \in Codes
    BY <3>2, CodeNames
  <3>5. /\ h # pending /\ issued \in Nat /\ pending \in Nat
        /\ \A q \in Requests : Confirms(q) => /\ request[q].copy.secret # h
                                               /\ request[q].copy.secret \in 1 .. MaxSecrets
    BY <2>5, <2>10, <3>2 DEF SecretsOK
  <3>6. \A g \in 1 .. MaxSecrets : g # h => Recovery(g) \in Codes /\ Recovery(g) # k
    BY <3>2, CodeNames
  <3>7. \A c \in user.codes \ {k} : c \in Codes
    BY <2>5 DEF Account
  <3>8. CodesOK'
    BY <1>3, <2>3, <2>5, <2>6, <2>8, <3>1, <3>2, <3>4, <3>5, <3>6, <3>7 DEF CodesOK, Unused
  <3>. QED BY <1>3, <2>3, <2>4, <2>8, <3>1, <3>3, <3>8 DEF SignInv
 <2>. QED BY <1>5, <2>9, <2>10
<1>. QED BY <1>4, <1>5 DEF Signing!Verify, Signing!TakesCode, Signing!Done, Signing!Goto

LEMMA ConsumeKept ==
    ASSUME SignInv, NEW r \in Requests, Signing!Consume(r)
    PROVE  SignInv'
<1>. DEFINE l == request[r]
            c == l.of
            new == [challenge[c] EXCEPT !.status = "gone"]
            t == [l EXCEPT !.pc = "start"]
<1>1. l \in Signer /\ PlaceOK(l) /\ l.pc = "consume" /\ c \in Challenges
  BY DEF SignInv, Signing!Consume, PlaceOK
<1>2. UNCHANGED <<user, pending, issued, session, accepted, completed>>
  BY DEF Signing!Consume, Signing!account
<1>3. challenge[c] \in Challenge
  BY <1>1 DEF SignInv
<1>4. new \in Challenge /\ new.status = "gone"
  BY <1>3 DEF Challenge
<1>5. challenge' = [challenge EXCEPT ![c] = new]
  BY <1>1 DEF Signing!Consume, SignInv
<1>6. /\ challenge' \in [Challenges -> Challenge] /\ challenge'[c].status = "gone"
      /\ \A d \in Challenges \ {c} : challenge'[d] = challenge[d]
  BY <1>1, <1>4, <1>5 DEF SignInv
<1>7. CASE Signing!Set(r, Signing!Idle)
 <2>1. PlaceOK(Signing!Idle)
   BY SignValues DEF PlaceOK
 <2>2. \A d \in Challenges : challenge'[d].status \in {"none", "open"} =>
                                  challenge[d].status \in {"none", "open"}
   BY <1>6
 <2>. QED BY <1>2, <1>6, <1>7, <2>1, <2>2, SignValues, SignMoved DEF SignInv
<1>8. CASE challenge[c].status = "open" /\ Signing!Set(r, t)
 <2>1. t \in Signer /\ t.pc = "start" /\ t.of = c
   BY <1>1 DEF Signer
 <2>. HIDE DEF t
 <2>2. PlaceOK(t)
   BY <1>1, <2>1 DEF PlaceOK
 <2>3. /\ request' \in [Requests -> Signer] /\ request'[r] = t
       /\ \A q \in Requests \ {r} : request'[q] = request[q]
       /\ \A q \in Requests : PlaceOK(request'[q])
   BY <1>8, <2>1, <2>2, RequestMoved
 <2>4. \A q \in Requests : Confirms(q)' => q # r /\ Confirms(q)
   BY <2>1, <2>3 DEF Confirms
 <2>5. SecretsOK' /\ CodesOK'
   BY <1>2, <2>3, <2>4 DEF SignInv, SecretsOK, CodesOK, Unused
 <2>6. \A q \in Requests, d \in Challenges : Starts(q, d)' <=> (q = r /\ d = c) \/ (q # r /\ Starts(q, d))
   BY <2>1, <2>3 DEF Starts
 <2>7. completed[c] = 0 /\ \A q \in Requests : ~Starts(q, c)
   BY <1>1, <1>8 DEF SignInv, ChallengesOK
 <2>8. ChallengesOK'
   BY <1>2, <1>6, <2>6, <2>7 DEF SignInv, ChallengesOK
 <2>. QED BY <1>2, <1>6, <2>3, <2>5, <2>8 DEF SignInv
<1>. QED BY <1>7, <1>8 DEF Signing!Consume, Signing!Goto, Signing!Done

LEMMA SignStartKept ==
    ASSUME SignInv, NEW r \in Requests, Signing!Start(r)
    PROVE  SignInv'
<1>. DEFINE c == request[r].of
<1>1. /\ request[r].pc = "start" /\ Signing!Set(r, Signing!Idle)
      /\ completed' = [completed EXCEPT ![c] = @ + 1]
      /\ UNCHANGED <<user, pending, issued, challenge, accepted>>
  BY DEF Signing!Start, Signing!Done, Signing!account
<1>2. c \in Challenges
  BY <1>1 DEF SignInv, PlaceOK
<1>3. session' \in [Sessions -> Browser]
  BY SessionsTyped DEF Signing!Start
<1>4. PlaceOK(Signing!Idle)
  BY SignValues DEF PlaceOK
<1>5. /\ request' \in [Requests -> Signer] /\ request'[r] = Signing!Idle
      /\ \A q \in Requests \ {r} : request'[q] = request[q]
      /\ \A q \in Requests : PlaceOK(request'[q])
  BY <1>1, <1>4, SignValues, RequestMoved
<1>6. \A q \in Requests : /\ Confirms(q)' => q # r /\ Confirms(q)
                          /\ \A d \in Challenges : Starts(q, d)' => q # r /\ Starts(q, d)
  BY <1>5, SignValues DEF Confirms, Starts
<1>7. SecretsOK' /\ CodesOK'
  BY <1>1, <1>5, <1>6 DEF SignInv, SecretsOK, CodesOK, Unused
<1>8. Starts(r, c)
  BY <1>1 DEF Starts
<1>9. completed[c] = 0 /\ challenge[c].status \notin {"none", "open"}
      /\ \A q \in Requests : Starts(q, c) => q = r
  BY <1>2, <1>8 DEF SignInv, ChallengesOK
<1>10. /\ completed' \in [Challenges -> Nat] /\ completed'[c] = 1
       /\ \A d \in Challenges \ {c} : completed'[d] = completed[d]
  BY <1>1, <1>2, <1>9 DEF SignInv
<1>11. ChallengesOK'
 <2>1. ASSUME NEW d \in Challenges
       PROVE  /\ completed'[d] <= 1
              /\ \A q \in Requests : Starts(q, d)' => completed'[d] = 0
              /\ \A p, q \in Requests : Starts(p, d)' /\ Starts(q, d)' => p = q
              /\ challenge'[d].status \in {"none", "open"} =>
                     completed'[d] = 0 /\ \A q \in Requests : ~Starts(q, d)'
  <3>1. CASE d = c
    BY <1>1, <1>6, <1>9, <1>10, <3>1
  <3>2. CASE d # c
    BY <1>1, <1>6, <1>10, <3>2 DEF SignInv, ChallengesOK
  <3>. QED BY <3>1, <3>2
 <2>. QED BY <2>1 DEF ChallengesOK
<1>. QED BY <1>1, <1>3, <1>5, <1>7, <1>10, <1>11 DEF SignInv

LEMMA BeginKept ==
    ASSUME MaxSecrets \in Nat, SignInv, NEW r \in Requests, Signing!Begin(r)
    PROVE  SignInv'
<1>1. /\ issued < MaxSecrets /\ pending' = issued + 1 /\ issued' = issued + 1
      /\ UNCHANGED <<user, challenge, session, request, accepted, completed>>
  BY DEF Signing!Begin
<1>2. SecretsOK /\ CodesOK /\ issued \in 1 .. MaxSecrets
  BY DEF SignInv, SecretsOK
<1>3. \A g \in 1 .. issued : Recovery(issued + 1) # Recovery(g)
  BY <1>2, CodeNames
<1>4. SecretsOK'
 <2>1. issued' \in 1 .. MaxSecrets /\ pending' \in 0 .. issued'
   BY <1>1, <1>2
 <2>2. Recovery(pending') \notin user.codes
   BY <1>1, <1>2, <1>3 DEF SecretsOK
 <2>3. \A g \in 1 .. issued : g \in 1 .. issued' /\ g # pending'
   BY <1>1, <1>2
 <2>. QED BY <1>1, <1>2, <2>1, <2>2, <2>3 DEF SecretsOK, Confirms
<1>5. CodesOK'
  BY <1>1, <1>2 DEF CodesOK, Confirms, Unused
<1>6. ChallengesOK'
  BY <1>1 DEF SignInv, ChallengesOK, Starts
<1>. QED BY <1>1, <1>4, <1>5, <1>6 DEF SignInv

LEMMA ConfirmKept ==
    ASSUME MaxSecrets \in Nat, SignInv, NEW r \in Requests, Signing!Confirm(r)
    PROVE  SignInv'
<1>. DEFINE l == [request[r] EXCEPT !.pc = "code", !.copy.secret = pending]
<1>1. request[r] \in Signer /\ PlaceOK(request[r]) /\ request[r].pc = "confirm"
  BY DEF SignInv, Signing!Confirm
<1>2. UNCHANGED <<user, issued, challenge, session, accepted, completed>>
  BY DEF Signing!Confirm
<1>3. SecretsOK /\ CodesOK /\ issued \in Nat /\ pending \in Nat /\ issued <= MaxSecrets
  BY DEF SignInv, SecretsOK
<1>4. CASE UNCHANGED pending /\ Signing!Set(r, Signing!Idle)
 <2>1. PlaceOK(Signing!Idle)
   BY SignValues DEF PlaceOK
 <2>. QED BY <1>2, <1>4, <2>1, SignValues, SignMoved DEF SignInv
<1>5. CASE pending # 0 /\ pending' = 0 /\ Signing!Set(r, l)
 <2>1. l \in Signer /\ l.pc = "code" /\ l.copy.secret = pending
   BY <1>1, <1>3 DEF Signer, Account
 <2>. HIDE DEF l
 <2>2. PlaceOK(l)
   BY <2>1 DEF PlaceOK
 <2>3. /\ request' \in [Requests -> Signer] /\ request'[r] = l
       /\ \A q \in Requests \ {r} : request'[q] = request[q]
       /\ \A q \in Requests : PlaceOK(request'[q])
   BY <1>5, <2>1, <2>2, RequestMoved
 <2>4. /\ challenge' \in [Challenges -> Challenge] /\ completed' \in [Challenges -> Nat]
       /\ ChallengesOK'
   BY <1>2, <1>5, <2>1, ChallengesKept
 <2>5. Confirms(r)' /\ ~Confirms(r) /\ \A q \in Requests \ {r} : Confirms(q)' <=> Confirms(q)
   BY <1>1, <2>1, <2>3 DEF Confirms
 <2>6. Recovery(0) \notin user.codes
   BY <1>3, CodeNames DEF SecretsOK
 <2>7. \A q \in Requests : Confirms(q)' =>
           /\ request'[q].copy.secret \in 1 .. issued /\ Recovery(request'[q].copy.secret) \notin user.codes
           /\ Unused(Recovery(request'[q].copy.secret))
   BY <1>3, <1>5, <2>1, <2>3, <2>5 DEF SecretsOK, CodesOK
 <2>8. \A p, q \in Requests : Confirms(p)' /\ Confirms(q)' /\ p # q =>
           request'[p].copy.secret # request'[q].copy.secret
   BY <1>3, <2>1, <2>3, <2>5 DEF SecretsOK
 <2>9. SecretsOK'
   BY <1>2, <1>3, <1>5, <2>6, <2>7, <2>8 DEF SecretsOK
 <2>10. CodesOK'
   BY <1>2, <1>3, <1>5, <2>7 DEF CodesOK, Unused
 <2>. QED BY <1>2, <2>3, <2>4, <2>9, <2>10 DEF SignInv
<1>. QED BY <1>4, <1>5 DEF Signing!Confirm, Signing!Done

\* A request that is done, once it changed the account.
LEMMA AccountWritten ==
    ASSUME SignInv, NEW r \in Requests, Signing!Set(r, Signing!Idle),
           UNCHANGED <<challenge, session, accepted, completed>>,
           user' \in Account, issued' \in 1 .. MaxSecrets, pending' \in 0 .. issued', issued' >= issued,
           \A k \in user'.codes : (\E g \in 1 .. issued' : k = Recovery(g)) /\ Unused(k),
           Recovery(pending') \notin user'.codes,
           \A q \in Requests \ {r} : Confirms(q) =>
               request[q].copy.secret # pending' /\ Recovery(request[q].copy.secret) \notin user'.codes,
           user'.step = user.step,
           \A g \in 1 .. MaxSecrets : g = pending' => Unused(Recovery(g))
    PROVE  SignInv'
<1>1. PlaceOK(Signing!Idle)
  BY SignValues DEF PlaceOK
<1>2. /\ request' \in [Requests -> Signer] /\ request'[r] = Signing!Idle
      /\ \A q \in Requests \ {r} : request'[q] = request[q]
      /\ \A q \in Requests : PlaceOK(request'[q])
  BY <1>1, SignValues, RequestMoved
<1>3. \A q \in Requests : Confirms(q)' => q # r /\ Confirms(q)
  BY <1>2, SignValues DEF Confirms
<1>4. /\ challenge' \in [Challenges -> Challenge] /\ completed' \in [Challenges -> Nat]
      /\ ChallengesOK'
  BY SignValues, ChallengesKept
<1>5. SecretsOK /\ CodesOK
  BY DEF SignInv
<1>6. \A g \in 1 .. issued : g \in 1 .. issued'
  BY <1>5 DEF SecretsOK
<1>7. SecretsOK'
  BY <1>2, <1>3, <1>5, <1>6 DEF SecretsOK
<1>8. CodesOK'
  BY <1>2, <1>3, <1>5 DEF CodesOK, Unused, SecretsOK
<1>. QED BY <1>2, <1>4, <1>7, <1>8 DEF SignInv

LEMMA CheckCodeKept ==
    ASSUME MaxSecrets \in Nat, SignInv, NEW r \in Requests, NEW right \in BOOLEAN,
           Signing!CheckCode(r, right)
    PROVE  SignInv'
<1>. DEFINE n == request[r].copy.secret
<1>1. /\ Confirms(r) /\ Signing!Set(r, Signing!Idle)
      /\ UNCHANGED <<issued, challenge, session, accepted, completed>>
      /\ \/ user' = [user EXCEPT !.secret = n, !.codes = {Recovery(n)}] /\ UNCHANGED pending
         \/ pending' = n /\ UNCHANGED user
  BY DEF Signing!CheckCode, Signing!Done, Confirms, Recovery
<1>2. SecretsOK /\ CodesOK /\ user \in Account
  BY DEF SignInv
<1>3. /\ issued \in 1 .. MaxSecrets /\ pending \in 0 .. issued /\ n \in 1 .. issued /\ n \in 1 .. MaxSecrets
      /\ n # pending /\ Unused(Recovery(n)) /\ Recovery(n) \notin user.codes
      /\ \A q \in Requests \ {r} : Confirms(q) => request[q].copy.secret # n
  BY <1>1, <1>2 DEF SecretsOK, CodesOK
<1>. HIDE DEF n
<1>4. CASE user' = [user EXCEPT !.secret = n, !.codes = {Recovery(n)}] /\ UNCHANGED pending
 <2>1. user' \in Account /\ user'.codes = {Recovery(n)} /\ user'.step = user.step
  <3>1. n \in Nat /\ {Recovery(n)} \in SUBSET Codes
    BY <1>3, CodeNames
  <3>. QED BY <1>2, <1>4, <3>1 DEF Account
 <2>2. \A q \in Requests \ {r} : Confirms(q) =>
           request[q].copy.secret # pending' /\ Recovery(request[q].copy.secret) \notin user'.codes
   BY <1>2, <1>3, <1>4, <2>1, CodeNames DEF SecretsOK
 <2>3. \A g \in 1 .. MaxSecrets : g = pending' => Unused(Recovery(g))
   BY <1>2, <1>4 DEF CodesOK
 <2>4. Recovery(pending') \notin user'.codes
   BY <1>3, <1>4, <2>1, CodeNames
 <2>. QED BY <1>1, <1>3, <1>4, <2>1, <2>2, <2>3, <2>4, AccountWritten
<1>5. CASE pending' = n /\ UNCHANGED user
 <2>1. \A k \in user'.codes : (\E g \in 1 .. issued' : k = Recovery(g)) /\ Unused(k)
   BY <1>1, <1>2, <1>5 DEF SecretsOK, CodesOK
 <2>2. \A q \in Requests \ {r} : Confirms(q) =>
           request[q].copy.secret # pending' /\ Recovery(request[q].copy.secret) \notin user'.codes
   BY <1>2, <1>3, <1>5 DEF SecretsOK
 <2>. QED BY <1>1, <1>2, <1>3, <1>5, <2>1, <2>2, AccountWritten
<1>. QED BY <1>1, <1>4, <1>5

LEMMA DisableKept ==
    ASSUME MaxSecrets \in Nat, SignInv, NEW r \in Requests, Signing!Disable(r)
    PROVE  SignInv'
<1>1. /\ Signing!Set(r, Signing!Idle) /\ UNCHANGED <<issued, challenge, session, accepted, completed>>
      /\ user' = [user EXCEPT !.secret = 0, !.codes = {}] /\ pending' = 0
  BY DEF Signing!Disable, Signing!Done
<1>2. SecretsOK /\ user \in Account
  BY DEF SignInv
<1>3. user' \in Account /\ user'.codes = {} /\ user'.step = user.step
  BY <1>1, <1>2 DEF Account
<1>4. issued \in 1 .. MaxSecrets /\ \A q \in Requests : Confirms(q) => request[q].copy.secret # 0
  BY <1>2 DEF SecretsOK
<1>. QED BY <1>1, <1>3, <1>4, AccountWritten

LEMMA RegenerateKept ==
    ASSUME MaxSecrets \in Nat, SignInv, NEW r \in Requests, Signing!Regenerate(r)
    PROVE  SignInv'
<1>. DEFINE n == issued + 1
            secret == request[r].copy.secret
<1>1. /\ Signing!Set(r, Signing!Idle) /\ UNCHANGED <<pending, challenge, session, accepted, completed>>
      /\ issued < MaxSecrets /\ issued' = n
      /\ user' = [user EXCEPT !.secret = secret, !.codes = {Recovery(n)}]
  BY DEF Signing!Regenerate, Signing!Done, Recovery
<1>2. SecretsOK /\ CodesOK /\ user \in Account /\ request[r] \in Signer
  BY DEF SignInv
<1>3. secret \in Nat
  BY <1>2 DEF Signer, Account
<1>4. issued \in 1 .. MaxSecrets /\ pending \in 0 .. issued
  BY <1>2 DEF SecretsOK
<1>5. n \in 1 .. MaxSecrets /\ n > issued /\ n \in 1 .. n /\ pending \in 0 .. n
  BY <1>1, <1>4
<1>6. Unused(Recovery(n))
  BY <1>2, <1>5 DEF CodesOK
<1>7. \A q \in Requests : Confirms(q) => request[q].copy.secret \in 1 .. issued
                                          /\ request[q].copy.secret # pending
  BY <1>2 DEF SecretsOK
<1>8. \A q \in Requests : Confirms(q) => request[q].copy.secret # n
  BY <1>4, <1>7
<1>9. pending # n
  BY <1>4
<1>. HIDE DEF n, secret
<1>10. user' \in Account /\ user'.codes = {Recovery(n)} /\ user'.step = user.step
  BY <1>1, <1>2, <1>3, <1>5, CodeNames DEF Account
<1>11. \A g \in 1 .. MaxSecrets : g = pending' => Unused(Recovery(g))
  BY <1>1, <1>2 DEF CodesOK
<1>12. Recovery(pending') \notin user'.codes
  BY <1>1, <1>9, <1>10, CodeNames
<1>13. \A q \in Requests \ {r} : Confirms(q) =>
            request[q].copy.secret # pending' /\ Recovery(request[q].copy.secret) \notin user'.codes
  BY <1>1, <1>7, <1>8, <1>10, CodeNames
<1>14. n >= issued
  BY <1>4, <1>5
<1>. QED BY <1>1, <1>5, <1>6, <1>10, <1>11, <1>12, <1>13, <1>14, AccountWritten

LEMMA SignStep ==
    ASSUME MaxStep \in Nat, MaxSecrets \in Nat, SignInv, [Signing!Next]_(Signing!vars)
    PROVE  SignInv'
<1>1. ASSUME NEW r \in Requests, NEW c \in Challenges, NEW k \in Signing!Codes, Signing!Attempt(r, c, k)
      PROVE  SignInv'
  BY <1>1, SignValues, AttemptKept
<1>2. ASSUME NEW r \in Requests, NEW s \in Sessions, NEW k \in Signing!Codes, Signing!StepUp(r, s, k)
      PROVE  SignInv'
  BY <1>2, SignValues, PassKept
<1>3. CASE UNCHANGED Signing!vars
  BY <1>3 DEF Signing!vars, Signing!account, SignInv, ChallengesOK, Starts, SecretsOK, Confirms,
     CodesOK, Unused
<1>4. ASSUME NEW r \in Requests,
             \/ Signing!Authenticate(r) \/ Signing!Answer(r) \/ Signing!Load(r) \/ Signing!Verify(r)
             \/ Signing!Consume(r) \/ Signing!Start(r) \/ Signing!MarkVerified(r)
      PROVE  SignInv'
  BY <1>4, FirstFactorKept, AnswerKept, PassKept, VerifyKept, ConsumeKept, SignStartKept
<1>5. ASSUME NEW r \in Requests,
             \/ Signing!Begin(r) \/ Signing!Confirm(r) \/ Signing!Disable(r) \/ Signing!Regenerate(r)
             \/ \E op \in {"confirm", "disable", "regenerate"} : Signing!Read(r, op)
             \/ \E right \in BOOLEAN : Signing!CheckCode(r, right)
      PROVE  SignInv'
  BY <1>5, BeginKept, ConfirmKept, DisableKept, RegenerateKept, FirstFactorKept, CheckCodeKept
<1>6. ASSUME NEW s \in Sessions, Signing!Revoke({s}) \/ Signing!WindowEnds(s)
      PROVE  SignInv'
 <2>1. {s} \in SUBSET Sessions
   OBVIOUS
 <2>. QED BY <1>6, <2>1, RevokeKept, WindowEndsKept
<1>. QED BY <1>1, <1>2, <1>3, <1>4, <1>5, <1>6, RevokeKept DEF Signing!Next

\* Only Revoke, a new session, a confirmed step-up and the end of its window
\* write a session.
LEMMA RevocationsKept ==
    ASSUME SignInv, [Signing!Next]_(Signing!vars)
    PROVE  Signing!KeepsRevocations
<1>. DEFINE Keeps == \A s \in Sessions : session[s].status = "revoked" =>
                session'[s].status = "revoked" /\ (session'[s].fresh => session[s].fresh)
<1>1. session \in [Sessions -> Browser] /\ \A s \in Sessions : session[s] \in Browser
  BY DEF SignInv
<1>2. ASSUME UNCHANGED session
      PROVE  Keeps
  BY <1>2
<1>3. ASSUME NEW s \in Sessions, NEW fresh \in BOOLEAN, Signing!NewSession(s, fresh)
      PROVE  Keeps
  BY <1>1, <1>3 DEF Signing!NewSession
<1>4. ASSUME NEW r \in Requests, Signing!MarkVerified(r)
      PROVE  Keeps
 <2>. DEFINE s == request[r].of
 <2>1. s \in Sessions
   BY <1>4 DEF SignInv, PlaceOK, Signing!MarkVerified
 <2>2. CASE session[s].status = "live" /\ session' = [session EXCEPT ![s].fresh = TRUE]
  <3>. HIDE DEF s
  <3>. QED BY <1>1, <2>1, <2>2
 <2>. QED BY <1>2, <1>4, <2>2 DEF Signing!MarkVerified
<1>5. ASSUME NEW gone \in SUBSET Sessions, Signing!Revoke(gone)
      PROVE  Keeps
 <2>1. \A s \in Sessions : session'[s] = IF s \in gone THEN [session[s] EXCEPT !.status = "revoked"]
                                         ELSE session[s]
   BY <1>5 DEF Signing!Revoke
 <2>. QED BY <1>1, <2>1 DEF Browser
<1>6. ASSUME NEW s \in Sessions, Signing!WindowEnds(s)
      PROVE  Keeps
  BY <1>1, <1>6 DEF Signing!WindowEnds, Browser
<1>7. ASSUME NEW r \in Requests, Signing!Answer(r)
      PROVE  Keeps
  BY <1>2, <1>3, <1>7 DEF Signing!Answer
<1>8. ASSUME NEW r \in Requests, Signing!Start(r)
      PROVE  Keeps
  BY <1>3, <1>8 DEF Signing!Start
<1>. HIDE DEF Keeps
<1>9. ASSUME NEW s \in Sessions, Signing!Revoke({s})
      PROVE  Keeps
 <2>1. {s} \in SUBSET Sessions
   OBVIOUS
 <2>. QED BY <1>5, <1>9, <2>1
<1>10. ASSUME NEW r \in Requests, NEW k, NEW c, NEW s, NEW op, NEW right,
              \/ Signing!Authenticate(r) \/ Signing!Load(r) \/ Signing!Verify(r) \/ Signing!Consume(r)
              \/ Signing!Attempt(r, c, k) \/ Signing!StepUp(r, s, k) \/ Signing!Begin(r)
              \/ Signing!Confirm(r) \/ Signing!Disable(r) \/ Signing!Regenerate(r) \/ Signing!Read(r, op)
              \/ Signing!CheckCode(r, right)
       PROVE  UNCHANGED session
  BY <1>10 DEF Signing!Authenticate, Signing!Load, Signing!Verify, Signing!Consume, Signing!Attempt,
     Signing!StepUp, Signing!Begin, Signing!Confirm, Signing!Disable, Signing!Regenerate, Signing!Read,
     Signing!CheckCode
<1>11. ASSUME UNCHANGED Signing!vars
       PROVE  Keeps
  BY <1>2, <1>11 DEF Signing!vars
<1>12. Keeps
  BY <1>2, <1>4, <1>5, <1>6, <1>7, <1>8, <1>9, <1>10, <1>11 DEF Signing!Next
<1>. QED BY <1>12 DEF Keeps, Signing!KeepsRevocations

\* However requests race on one account, a challenge completes one sign-in, no
\* code is accepted twice and each secret is enrolled by one confirmation
\* (complete_mfa_login, claim_totp_step, consume_user_recovery_code,
\* PendingEnrollmentStore.take); a revoked session stays revoked and gains no
\* step-up (mark_mfa_verified).
THEOREM FactorsWorkOnce ==
    ASSUME MaxStep \in Nat, MaxSecrets \in Nat \ {0}
    PROVE  Signing!Spec =>
              /\ []( /\ Signing!OneSignInPerChallenge
                     /\ Signing!CodesWorkOnce
                     /\ Signing!OneConfirmationAtATime )
              /\ Signing!RevokedStaysRevoked
<1>1. SignInv => /\ Signing!OneSignInPerChallenge
                 /\ Signing!CodesWorkOnce
                 /\ Signing!OneConfirmationAtATime
  BY SignValues DEF SignInv, ChallengesOK, CodesOK, SecretsOK, Confirms, Signing!OneSignInPerChallenge,
     Signing!CodesWorkOnce, Signing!OneConfirmationAtATime
<1>2. Signing!Init => SignInv
  BY SignInit
<1>3. SignInv /\ [Signing!Next]_(Signing!vars) => SignInv'
  BY SignStep
<1>4. SignInv /\ [Signing!Next]_(Signing!vars) => [Signing!KeepsRevocations]_(Signing!vars)
  BY RevocationsKept
<1>. QED BY <1>1, <1>2, <1>3, <1>4, PTL DEF Signing!Spec, Signing!RevokedStaysRevoked

\* Counted attempts of one credential (Throttle).
CONSTANTS Scopes, Cleared, Limit, MaxFailures
VARIABLES count, failed
Throttled == INSTANCE Throttle

Place == [pc : {"idle", "reserve", "check", "refused", "release"}, held : SUBSET Throttled!Keys]

\* What is counted of an attempt where it is.
HeldOK(l) ==
    /\ l.pc = "idle" => l.held = {}
    /\ l.pc = "reserve" => l.held = {Scopes[1]}
    /\ l.pc = "check" => l.held = Throttled!Keys
    /\ l.pc = "release" => l.held = Throttled!Keys \ {Cleared}

Holding(k) == {r \in Requests : k \in attempt[r].held}
\* The attempts counted within the limit.
Within(k) == {r \in Requests : k \in attempt[r].held /\ attempt[r].pc \in {"reserve", "check"}}

ThrottleInv ==
    /\ count \in [Throttled!Keys -> Nat] /\ failed \in [Throttled!Keys -> Nat]
    /\ attempt \in [Requests -> Place] /\ \A r \in Requests : HeldOK(attempt[r])
    /\ \A k \in Throttled!Keys \ {Cleared} :
           /\ count[k] = failed[k] + Cardinality(Holding(k))
           /\ failed[k] + Cardinality(Within(k)) <= Limit[k]

\* The address counts beside the account: two scopes.
TwoScopes ==
    /\ DOMAIN Scopes = 1 .. 2 /\ Scopes[1] # Scopes[2]
    /\ Cleared \in Throttled!Keys
    /\ Limit \in [Throttled!Keys -> Nat]
    /\ IsFiniteSet(Requests)

LEMMA ScopesAre == TwoScopes => Throttled!Keys = {Scopes[1], Scopes[2]}
  BY DEF TwoScopes, Throttled!Keys

LEMMA ThrottledCount == \A S : Throttled!Cardinality(S) = Cardinality(S)
  BY Zenon DEF Throttled!Cardinality, Cardinality

LEMMA HeldSizes ==
    ASSUME TwoScopes
    PROVE  Cardinality({}) = 0 /\ Cardinality({Scopes[1]}) = 1
  BY FS_EmptySet, FS_Singleton

LEMMA ThrottleInit == TwoScopes /\ Throttled!Init => ThrottleInv
<1>. SUFFICES ASSUME TwoScopes, Throttled!Init PROVE ThrottleInv
  OBVIOUS
<1>1. attempt \in [Requests -> Place] /\ \A r \in Requests : HeldOK(attempt[r]) /\ attempt[r].held = {}
  BY DEF Throttled!Init, Throttled!Idle, Place, HeldOK
<1>2. \A k : Holding(k) = {} /\ Within(k) = {}
  BY <1>1 DEF Holding, Within
<1>3. ASSUME NEW k \in Throttled!Keys \ {Cleared}
      PROVE  /\ count[k] = failed[k] + Cardinality(Holding(k))
             /\ failed[k] + Cardinality(Within(k)) <= Limit[k]
 <2>1. Cardinality(Holding(k)) = 0 /\ Cardinality(Within(k)) = 0
   BY <1>2, FS_EmptySet
 <2>2. count[k] = 0 /\ failed[k] = 0 /\ Limit[k] \in Nat
   BY DEF Throttled!Init, TwoScopes
 <2>. QED BY <2>1, <2>2
<1>. QED BY <1>1, <1>3 DEF ThrottleInv, Throttled!Init

\* How many hold a scope after one attempt moved.
LEMMA HoldersMove ==
    ASSUME TwoScopes, ThrottleInv, NEW r \in Requests, NEW l \in Place, HeldOK(l),
           attempt' = [attempt EXCEPT ![r] = l]
    PROVE  /\ attempt' \in [Requests -> Place] /\ \A q \in Requests : HeldOK(attempt'[q])
           /\ \A k : LET held == k \in attempt[r].held
                         within == held /\ attempt[r].pc \in {"reserve", "check"}
                         holds == k \in l.held
                         stays == holds /\ l.pc \in {"reserve", "check"} IN
                 /\ Cardinality(Holding(k)) \in Nat /\ Cardinality(Within(k)) \in Nat
                 /\ Cardinality(Within(k)') <= Cardinality(Holding(k)')
                 /\ held => Cardinality(Holding(k)) > 0
                 /\ Cardinality(Holding(k)') = Cardinality(Holding(k)) + (IF holds /\ ~held THEN 1 ELSE 0)
                                               - (IF held /\ ~holds THEN 1 ELSE 0)
                 /\ Cardinality(Within(k)') = Cardinality(Within(k)) + (IF stays /\ ~within THEN 1 ELSE 0)
                                              - (IF within /\ ~stays THEN 1 ELSE 0)
<1>1. attempt' \in [Requests -> Place] /\ \A q \in Requests : HeldOK(attempt'[q])
  BY DEF ThrottleInv
<1>2. ASSUME NEW k
      PROVE  /\ IsFiniteSet(Holding(k)) /\ IsFiniteSet(Within(k)) /\ Within(k) \subseteq Holding(k)
             /\ Cardinality(Holding(k)) \in Nat /\ Cardinality(Within(k)) \in Nat
             /\ Cardinality(Within(k)) <= Cardinality(Holding(k))
 <2>1. Holding(k) \subseteq Requests /\ Within(k) \subseteq Holding(k)
   BY DEF Holding, Within
 <2>2. IsFiniteSet(Holding(k))
   BY <2>1, FS_Subset DEF TwoScopes
 <2>. QED BY <2>1, <2>2, FS_Subset, FS_CardinalityType
<1>3. ASSUME NEW k
      PROVE  /\ Holding(k)' = IF k \in l.held THEN Holding(k) \union {r} ELSE Holding(k) \ {r}
             /\ Within(k)' = IF k \in l.held /\ l.pc \in {"reserve", "check"} THEN Within(k) \union {r}
                             ELSE Within(k) \ {r}
             /\ r \in Holding(k) <=> k \in attempt[r].held
             /\ r \in Within(k) <=> k \in attempt[r].held /\ attempt[r].pc \in {"reserve", "check"}
  BY DEF Holding, Within, ThrottleInv
<1>4. ASSUME NEW k, k \in attempt[r].held
      PROVE  Cardinality(Holding(k)) > 0
  BY <1>2, <1>3, <1>4, FS_EmptySet
<1>5. ASSUME NEW k
      PROVE  /\ Cardinality(Holding(k) \union {r}) = Cardinality(Holding(k)) + (IF r \in Holding(k) THEN 0 ELSE 1)
             /\ Cardinality(Holding(k) \ {r}) = Cardinality(Holding(k)) - (IF r \in Holding(k) THEN 1 ELSE 0)
             /\ Cardinality(Within(k) \union {r}) = Cardinality(Within(k)) + (IF r \in Within(k) THEN 0 ELSE 1)
             /\ Cardinality(Within(k) \ {r}) = Cardinality(Within(k)) - (IF r \in Within(k) THEN 1 ELSE 0)
 <2>1. \A S : IsFiniteSet(S) =>
          /\ Cardinality(S) \in Nat
          /\ Cardinality(S \union {r}) = Cardinality(S) + (IF r \in S THEN 0 ELSE 1)
          /\ Cardinality(S \ {r}) = Cardinality(S) - (IF r \in S THEN 1 ELSE 0)
  <3>. SUFFICES ASSUME NEW S, IsFiniteSet(S)
                PROVE  /\ Cardinality(S) \in Nat
                       /\ Cardinality(S \union {r}) = Cardinality(S) + (IF r \in S THEN 0 ELSE 1)
                       /\ Cardinality(S \ {r}) = Cardinality(S) - (IF r \in S THEN 1 ELSE 0)
    OBVIOUS
  <3>. QED BY FS_CardinalityType, FS_AddElement, FS_RemoveElement
 <2>. QED BY <1>2, <2>1
<1>6. ASSUME NEW k
      PROVE  LET held == k \in attempt[r].held
                 within == held /\ attempt[r].pc \in {"reserve", "check"}
                 holds == k \in l.held
                 stays == holds /\ l.pc \in {"reserve", "check"} IN
             /\ Cardinality(Holding(k)') = Cardinality(Holding(k)) + (IF holds /\ ~held THEN 1 ELSE 0)
                                           - (IF held /\ ~holds THEN 1 ELSE 0)
             /\ Cardinality(Within(k)') = Cardinality(Within(k)) + (IF stays /\ ~within THEN 1 ELSE 0)
                                          - (IF within /\ ~stays THEN 1 ELSE 0)
 <2>1. PICK H, W, H1, W1 : H = Holding(k) /\ W = Within(k) /\ H1 = Holding(k)' /\ W1 = Within(k)'
   OBVIOUS
 <2>2. /\ H1 = IF k \in l.held THEN H \union {r} ELSE H \ {r}
       /\ W1 = IF k \in l.held /\ l.pc \in {"reserve", "check"} THEN W \union {r} ELSE W \ {r}
       /\ r \in H <=> k \in attempt[r].held
       /\ r \in W <=> k \in attempt[r].held /\ attempt[r].pc \in {"reserve", "check"}
   BY <1>3, <2>1
 <2>3. /\ Cardinality(H \union {r}) = Cardinality(H) + (IF r \in H THEN 0 ELSE 1)
       /\ Cardinality(H \ {r}) = Cardinality(H) - (IF r \in H THEN 1 ELSE 0)
       /\ Cardinality(W \union {r}) = Cardinality(W) + (IF r \in W THEN 0 ELSE 1)
       /\ Cardinality(W \ {r}) = Cardinality(W) - (IF r \in W THEN 1 ELSE 0)
       /\ Cardinality(H) \in Nat /\ Cardinality(W) \in Nat
   BY <1>2, <1>5, <2>1
 <2>4. /\ Cardinality(H1) = Cardinality(H) + (IF k \in l.held /\ ~(k \in attempt[r].held) THEN 1 ELSE 0)
                            - (IF k \in attempt[r].held /\ ~(k \in l.held) THEN 1 ELSE 0)
   BY <2>2, <2>3
 <2>. QED BY <2>1, <2>2, <2>3, <2>4
<1>7. ASSUME NEW k
      PROVE  Cardinality(Within(k)') <= Cardinality(Holding(k)')
 <2>1. Holding(k)' \subseteq Requests /\ Within(k)' \subseteq Holding(k)'
   BY DEF Holding, Within
 <2>. QED BY <2>1, FS_Subset DEF TwoScopes
<1>. QED BY <1>1, <1>2, <1>4, <1>6, <1>7

\* An attempt moved and the counts of the shared scopes moved with it.
LEMMA CountsFollow ==
    ASSUME TwoScopes, ThrottleInv, NEW r \in Requests, NEW l \in Place, HeldOK(l),
           attempt' = [attempt EXCEPT ![r] = l],
           count' \in [Throttled!Keys -> Nat], failed' \in [Throttled!Keys -> Nat],
           \A k \in Throttled!Keys \ {Cleared} :
               LET held == k \in attempt[r].held
                   holds == k \in l.held
                   stays == holds /\ l.pc \in {"reserve", "check"} IN
               /\ count'[k] - failed'[k] = count[k] - failed[k] + (IF holds /\ ~held THEN 1 ELSE 0)
                                           - (IF held /\ ~holds THEN 1 ELSE 0)
               /\ \/ failed'[k] = failed[k] /\ ~stays
                  \/ failed'[k] = failed[k] /\ held /\ attempt[r].pc \in {"reserve", "check"}
                  \/ failed'[k] = failed[k] /\ count'[k] <= Limit[k]
                  \/ failed'[k] = failed[k] + 1 /\ held /\ attempt[r].pc = "check" /\ ~stays
    PROVE  ThrottleInv'
<1>1. attempt' \in [Requests -> Place] /\ \A q \in Requests : HeldOK(attempt'[q])
  BY HoldersMove
<1>2. ASSUME NEW k \in Throttled!Keys \ {Cleared}
      PROVE  /\ count'[k] = failed'[k] + Cardinality(Holding(k)')
             /\ failed'[k] + Cardinality(Within(k)') <= Limit[k]
 <2>1. PICK h, w, h1, w1 : /\ h = Cardinality(Holding(k)) /\ w = Cardinality(Within(k))
                           /\ h1 = Cardinality(Holding(k)') /\ w1 = Cardinality(Within(k)')
   OBVIOUS
 <2>2. LET held == k \in attempt[r].held
           within == held /\ attempt[r].pc \in {"reserve", "check"}
           holds == k \in l.held
           stays == holds /\ l.pc \in {"reserve", "check"} IN
       /\ h \in Nat /\ w \in Nat /\ w1 <= h1
       /\ h1 = h + (IF holds /\ ~held THEN 1 ELSE 0) - (IF held /\ ~holds THEN 1 ELSE 0)
       /\ w1 = w + (IF stays /\ ~within THEN 1 ELSE 0) - (IF within /\ ~stays THEN 1 ELSE 0)
   BY <2>1, HoldersMove
 <2>3. /\ count[k] = failed[k] + h /\ failed[k] + w <= Limit[k]
       /\ count[k] \in Nat /\ failed[k] \in Nat /\ Limit[k] \in Nat /\ count'[k] \in Nat /\ failed'[k] \in Nat
   BY <2>1 DEF ThrottleInv, TwoScopes
 <2>4. h1 \in Int /\ w1 \in Int
   BY <2>2
 <2>5. count'[k] - failed'[k] = count[k] - failed[k] + (h1 - h)
   BY <2>2, <2>3
 <2>6. count'[k] = failed'[k] + h1
   BY <2>2, <2>3, <2>4, <2>5
 <2>7. failed'[k] + w1 <= Limit[k]
  <3>1. CASE failed'[k] = failed[k] /\ w1 <= w
    BY <2>2, <2>3, <2>4, <3>1
  <3>2. CASE failed'[k] = failed[k] /\ count'[k] <= Limit[k]
    BY <2>2, <2>3, <2>4, <2>6, <3>2
  <3>3. CASE failed'[k] = failed[k] + 1 /\ w1 = w - 1
    BY <2>2, <2>3, <2>4, <3>3
  <3>. QED BY <2>2, <3>1, <3>2, <3>3
 <2>. QED BY <2>1, <2>6, <2>7
<1>. QED BY <1>1, <1>2 DEF ThrottleInv

LEMMA ReserveKept ==
    ASSUME TwoScopes, ThrottleInv, NEW r \in Requests, Throttled!Reserve(r)
    PROVE  ThrottleInv'
<1>. DEFINE k == Throttled!Next_(r)
            held == attempt[r].held \union {k}
            pc == IF count'[k] > Limit[k] THEN "refused" ELSE IF held = Throttled!Keys THEN "check" ELSE "reserve"
            l == [pc |-> pc, held |-> held]
<1>1. /\ attempt[r] \in Place /\ HeldOK(attempt[r])
      /\ attempt[r].pc = "idle" \/ (attempt[r].pc = "reserve" /\ attempt[r].held # Throttled!Keys)
      /\ count' = [count EXCEPT ![k] = @ + 1] /\ failed' = failed /\ attempt' = [attempt EXCEPT ![r] = l]
  BY DEF Throttled!Reserve, Throttled!Move, ThrottleInv
<1>2. /\ attempt[r].pc = "idle" => attempt[r].held = {} /\ k = Scopes[1]
      /\ attempt[r].pc = "reserve" => attempt[r].held = {Scopes[1]} /\ k = Scopes[2]
 <2>1. k = Scopes[Cardinality(attempt[r].held) + 1]
   BY ThrottledCount DEF Throttled!Next_
 <2>. HIDE DEF k
 <2>2. Cardinality({}) = 0 /\ Cardinality({Scopes[1]}) = 1
   BY HeldSizes
 <2>3. Scopes[0 + 1] = Scopes[1] /\ Scopes[1 + 1] = Scopes[2]
   OBVIOUS
 <2>. QED BY <1>1, <2>1, <2>2, <2>3 DEF HeldOK
<1>. HIDE DEF k
<1>3. k \in Throttled!Keys /\ k \notin attempt[r].held /\ held \subseteq Throttled!Keys
  BY <1>1, <1>2, ScopesAre DEF TwoScopes
<1>4. l \in Place /\ HeldOK(l)
  BY <1>1, <1>2, <1>3, ScopesAre DEF Place, HeldOK, TwoScopes
<1>5. count' \in [Throttled!Keys -> Nat] /\ failed' \in [Throttled!Keys -> Nat]
 <2>1. count \in [Throttled!Keys -> Nat] /\ count[k] + 1 \in Nat
   BY <1>3 DEF ThrottleInv
 <2>. QED BY <1>1, <1>3, <2>1 DEF ThrottleInv
<1>6. ASSUME NEW c \in Throttled!Keys \ {Cleared}
      PROVE  LET was == c \in attempt[r].held
                 holds == c \in l.held
                 stays == holds /\ l.pc \in {"reserve", "check"} IN
             /\ count'[c] - failed'[c] = count[c] - failed[c] + (IF holds /\ ~was THEN 1 ELSE 0)
                                         - (IF was /\ ~holds THEN 1 ELSE 0)
             /\ failed'[c] = failed[c]
             /\ \/ ~stays
                \/ was /\ attempt[r].pc \in {"reserve", "check"}
                \/ count'[c] <= Limit[c]
 <2>1. count[c] \in Nat /\ failed[c] \in Nat /\ Limit[c] \in Nat
   BY DEF ThrottleInv, TwoScopes
 <2>2. CASE c = k
   BY <1>1, <1>3, <2>1, <2>2 DEF ThrottleInv
 <2>3. CASE c # k
   BY <1>1, <1>2, <1>3, <2>1, <2>3 DEF ThrottleInv
 <2>. QED BY <2>2, <2>3
<1>. HIDE DEF l
<1>. QED BY <1>1, <1>4, <1>5, <1>6, CountsFollow

\* Giving back what is held.
LEMMA GiveKept ==
    ASSUME TwoScopes, ThrottleInv, NEW r \in Requests, NEW k \in attempt[r].held, NEW l \in Place, HeldOK(l),
           Throttled!Give(r, k), attempt' = [attempt EXCEPT ![r] = l], failed' = failed,
           l.held = attempt[r].held \ {k}, l.pc \notin {"reserve", "check"}
    PROVE  ThrottleInv'
<1>1. k \in Throttled!Keys
  BY DEF ThrottleInv, Place
<1>2. count' \in [Throttled!Keys -> Nat] /\ failed' \in [Throttled!Keys -> Nat]
 <2>1. count \in [Throttled!Keys -> Nat] /\ (IF count[k] > 0 THEN count[k] - 1 ELSE 0) \in Nat
   BY <1>1 DEF ThrottleInv
 <2>. QED BY <1>1, <2>1 DEF ThrottleInv, Throttled!Give
<1>3. attempt[r] \in Place /\ HeldOK(attempt[r])
  BY DEF ThrottleInv
<1>4. ASSUME NEW c \in Throttled!Keys \ {Cleared}
      PROVE  LET held == c \in attempt[r].held
                 holds == c \in l.held IN
             /\ count'[c] - failed'[c] = count[c] - failed[c] + (IF holds /\ ~held THEN 1 ELSE 0)
                                         - (IF held /\ ~holds THEN 1 ELSE 0)
 <2>1. c \in attempt[r].held => Cardinality(Holding(c)) > 0 /\ Cardinality(Holding(c)) \in Nat
   BY HoldersMove
 <2>2. count[c] \in Nat /\ failed[c] \in Nat /\ count[c] = failed[c] + Cardinality(Holding(c))
   BY DEF ThrottleInv
 <2>3. CASE c = k
   BY <1>1, <2>1, <2>2, <2>3 DEF Throttled!Give, ThrottleInv
 <2>4. CASE c # k
   BY <1>1, <2>2, <2>4 DEF Throttled!Give, ThrottleInv
 <2>. QED BY <2>3, <2>4
<1>. QED BY <1>2, <1>4, CountsFollow

LEMMA SuccessKept ==
    ASSUME TwoScopes, ThrottleInv, NEW r \in Requests,
           Throttled!GiveBack(r) \/ Throttled!Fail(r) \/ Throttled!Succeed(r) \/ Throttled!Release(r)
    PROVE  ThrottleInv'
<1>1. attempt[r] \in Place /\ HeldOK(attempt[r])
  BY DEF ThrottleInv
<1>2. CASE Throttled!GiveBack(r)
 <2>1. PICK k \in attempt[r].held :
           /\ Throttled!Give(r, k)
           /\ Throttled!Move(r, IF attempt[r].held = {k} THEN "idle" ELSE "refused", attempt[r].held \ {k})
   BY <1>2 DEF Throttled!GiveBack
 <2>. DEFINE l == [pc |-> IF attempt[r].held = {k} THEN "idle" ELSE "refused", held |-> attempt[r].held \ {k}]
 <2>2. l \in Place /\ HeldOK(l)
   BY <1>1 DEF Place, HeldOK
 <2>3. attempt' = [attempt EXCEPT ![r] = l] /\ failed' = failed
   BY <1>2, <2>1 DEF Throttled!GiveBack, Throttled!Move
 <2>4. l.held = attempt[r].held \ {k} /\ l.pc \notin {"reserve", "check"}
   OBVIOUS
 <2>. HIDE DEF l
 <2>. QED BY <2>1, <2>2, <2>3, <2>4, GiveKept
<1>3. CASE Throttled!Release(r)
 <2>1. PICK k \in attempt[r].held : Throttled!Give(r, k) /\ Throttled!Move(r, "idle", {})
   BY <1>3 DEF Throttled!Release
 <2>. DEFINE l == [pc |-> "idle", held |-> {}]
 <2>2. l \in Place /\ HeldOK(l)
   BY DEF Place, HeldOK
 <2>3. attempt' = [attempt EXCEPT ![r] = l] /\ failed' = failed
   BY <1>3, <2>1 DEF Throttled!Release, Throttled!Move
 <2>4. l.held = attempt[r].held \ {k} /\ l.pc \notin {"reserve", "check"}
   BY <1>1, <1>3, ScopesAre DEF HeldOK, TwoScopes, Throttled!Release
 <2>. HIDE DEF l
 <2>. QED BY <2>1, <2>2, <2>3, <2>4, GiveKept
<1>4. CASE Throttled!Fail(r)
 <2>. DEFINE l == [pc |-> "idle", held |-> {}]
 <2>1. l \in Place /\ HeldOK(l) /\ l.held = {} /\ l.pc = "idle"
   BY DEF Place, HeldOK
 <2>2. /\ attempt' = [attempt EXCEPT ![r] = l] /\ count' = count
       /\ failed' = [k \in Throttled!Keys |-> failed[k] + 1]
       /\ attempt[r].pc = "check" /\ attempt[r].held = Throttled!Keys
   BY <1>1, <1>4 DEF Throttled!Fail, Throttled!Move, HeldOK
 <2>3. count' \in [Throttled!Keys -> Nat] /\ failed' \in [Throttled!Keys -> Nat]
   BY <2>2 DEF ThrottleInv
 <2>4. \A k \in Throttled!Keys : count[k] \in Nat /\ failed[k] \in Nat
   BY DEF ThrottleInv
 <2>. HIDE DEF l
 <2>5. ASSUME NEW k \in Throttled!Keys \ {Cleared}
       PROVE  /\ k \in attempt[r].held /\ k \notin l.held
              /\ failed'[k] = failed[k] + 1 /\ count'[k] = count[k]
              /\ count'[k] - failed'[k] = count[k] - failed[k] + 0 - 1
   BY <2>1, <2>2, <2>4
 <2>. QED BY <2>1, <2>2, <2>3, <2>5, CountsFollow
<1>5. CASE Throttled!Succeed(r)
 <2>. DEFINE l == [pc |-> "release", held |-> attempt[r].held \ {Cleared}]
 <2>1. /\ attempt' = [attempt EXCEPT ![r] = l] /\ count' = [count EXCEPT ![Cleared] = 0]
       /\ failed' = [failed EXCEPT ![Cleared] = 0]
       /\ attempt[r].pc = "check" /\ attempt[r].held = Throttled!Keys
   BY <1>1, <1>5 DEF Throttled!Succeed, Throttled!Move, HeldOK
 <2>2. l \in Place /\ HeldOK(l) /\ l.held = attempt[r].held \ {Cleared} /\ l.pc = "release"
   BY <2>1 DEF Place, HeldOK
 <2>3. count' \in [Throttled!Keys -> Nat] /\ failed' \in [Throttled!Keys -> Nat]
   BY <2>1 DEF ThrottleInv
 <2>4. \A k \in Throttled!Keys : count[k] \in Nat /\ failed[k] \in Nat
   BY DEF ThrottleInv
 <2>5. \A k \in Throttled!Keys \ {Cleared} : count'[k] = count[k] /\ failed'[k] = failed[k]
   BY <2>1 DEF ThrottleInv
 <2>. HIDE DEF l
 <2>6. ASSUME NEW k \in Throttled!Keys \ {Cleared}
       PROVE  /\ k \in attempt[r].held <=> k \in l.held
              /\ failed'[k] = failed[k]
              /\ count'[k] - failed'[k] = count[k] - failed[k] + 0 - 0
   BY <2>1, <2>2, <2>4, <2>5
 <2>. QED BY <2>1, <2>2, <2>3, <2>6, CountsFollow
<1>. QED BY <1>2, <1>3, <1>4, <1>5

LEMMA ThrottleStep ==
    ASSUME TwoScopes, ThrottleInv, [Throttled!Next]_(Throttled!vars)
    PROVE  ThrottleInv'
<1>1. CASE UNCHANGED Throttled!vars
 <2>1. \A k : Holding(k)' = Holding(k) /\ Within(k)' = Within(k)
   BY <1>1 DEF Holding, Within, Throttled!vars
 <2>. QED BY <1>1, <2>1 DEF ThrottleInv, Throttled!vars
<1>2. CASE Throttled!Next
  BY <1>2, ReserveKept, SuccessKept DEF Throttled!Next
<1>. QED BY <1>1, <1>2

\* A count that attempts share is the failures it saw and the attempts in
\* progress, and attempts being checked never exceed its limit, however
\* attempts, refusals and successes interleave (ThrottleService.reserve, release).
THEOREM SharedCountsAreExact ==
    ASSUME TwoScopes
    PROVE  Throttled!Spec => [](Throttled!TypeOK /\ Throttled!SharedCountIsExact)
<1>1. ThrottleInv => Throttled!TypeOK /\ Throttled!SharedCountIsExact
 <2>. SUFFICES ASSUME ThrottleInv PROVE Throttled!TypeOK /\ Throttled!SharedCountIsExact
   OBVIOUS
 <2>1. Throttled!TypeOK
   BY DEF ThrottleInv, Throttled!TypeOK, Place, HeldOK
 <2>2. ASSUME NEW k \in Throttled!Keys \ {Cleared}
       PROVE  /\ count[k] = failed[k] + Throttled!Cardinality({r \in Requests : k \in attempt[r].held})
              /\ failed[k] + Throttled!Cardinality({r \in Requests : attempt[r].pc = "check"}) <= Limit[k]
  <3>. DEFINE Checked == {r \in Requests : attempt[r].pc = "check"}
  <3>1. Checked \subseteq Within(k) /\ Within(k) \subseteq Requests
    BY DEF ThrottleInv, HeldOK, Within
  <3>2. Cardinality(Checked) <= Cardinality(Within(k)) /\ Cardinality(Checked) \in Nat
        /\ Cardinality(Within(k)) \in Nat
   <4>1. IsFiniteSet(Within(k))
     BY <3>1, FS_Subset DEF TwoScopes
   <4>. HIDE DEF Checked
   <4>2. IsFiniteSet(Checked) /\ Cardinality(Checked) <= Cardinality(Within(k))
     BY <3>1, <4>1, FS_Subset
   <4>. QED BY <4>1, <4>2, FS_CardinalityType
  <3>3. failed[k] \in Nat /\ Limit[k] \in Nat /\ count[k] = failed[k] + Cardinality(Holding(k))
        /\ failed[k] + Cardinality(Within(k)) <= Limit[k]
    BY DEF ThrottleInv, TwoScopes
  <3>4. failed[k] + Cardinality(Checked) <= Limit[k]
   <4>. HIDE DEF Checked
   <4>. QED BY <3>2, <3>3
  <3>5. /\ Throttled!Cardinality({r \in Requests : k \in attempt[r].held}) = Cardinality(Holding(k))
        /\ Throttled!Cardinality(Checked) = Cardinality(Checked)
    BY ThrottledCount DEF Holding
  <3>. QED BY <3>3, <3>4, <3>5
 <2>. QED BY <2>1, <2>2 DEF Throttled!SharedCountIsExact
<1>. QED BY <1>1, ThrottleInit, ThrottleStep, PTL DEF Throttled!Spec

\* What each member has read (Notifications).
CONSTANTS Members, Alerts, MaxFeed
VARIABLES feed, acked
Notices == INSTANCE Notifications

Notice == [key : {a.key : a \in Alerts}, to : {a.to : a \in Alerts}, read_by : Seq(Members)]
Reader == [pc : {"idle", "mark"}, of : Members \union {"none"}, left : SUBSET Nat, shown : SUBSET Nat]

Reads(m, n) == \E i \in DOMAIN feed[n].read_by : feed[n].read_by[i] = m

\* A member is pushed once, only where the notice is shown to them, and a request
\* of theirs is there to tell them.
ReceiptsOK(n) ==
    /\ \A i, j \in DOMAIN feed[n].read_by : feed[n].read_by[i] = feed[n].read_by[j] => i = j
    /\ \A m \in Members : Reads(m, n) =>
           /\ Notices!Visible(m, n)
           /\ <<m, n>> \in acked \/ \E r \in Requests : request[r].of = m /\ n \in request[r].shown

\* A request has marked what it shows and has not left.
MarkingOK(l) ==
    /\ l.pc = "idle" => l = Notices!Idle
    /\ l.pc = "mark" => /\ l.of \in Members /\ l.left \subseteq l.shown /\ l.shown \subseteq DOMAIN feed
                        /\ \A n \in l.shown \ l.left : Notices!Visible(l.of, n) => Reads(l.of, n)

NoticesInv ==
    /\ feed \in Seq(Notice) /\ \A n \in DOMAIN feed : ReceiptsOK(n)
    /\ request \in [Requests -> Reader] /\ \A r \in Requests : MarkingOK(request[r])
    /\ \A m, n : <<m, n>> \in acked => n \in DOMAIN feed /\ Reads(m, n)

LEMMA NoticesIdle ==
    Notices!Idle \in Reader /\ Notices!Idle.pc = "idle" /\ Notices!Idle.of = "none" /\ Notices!Idle.shown = {}
  BY DEF Notices!Idle, Reader

LEMMA NoticesInit == Notices!Init => NoticesInv
  BY NoticesIdle DEF Notices!Init, NoticesInv, MarkingOK

\* A new notice is read by nobody, and the others are as they were.
LEMMA EmitKept ==
    ASSUME NoticesInv, NEW a \in Alerts, Notices!Emit(a)
    PROVE  NoticesInv'
<1>. DEFINE e == [key |-> a.key, to |-> a.to, read_by |-> <<>>]
<1>1. e \in Notice /\ feed' = Append(feed, e) /\ request' = request /\ acked' = acked /\ e.read_by = <<>>
  BY DEF Notices!Emit, Notice
<1>0. \A i : i \notin DOMAIN e.read_by
 <2>1. DOMAIN e.read_by = 1 .. 0
   OBVIOUS
 <2>. QED BY <2>1
<1>. HIDE DEF e
<1>2. /\ feed' \in Seq(Notice) /\ DOMAIN feed' = 1 .. Len(feed) + 1 /\ DOMAIN feed = 1 .. Len(feed)
      /\ Len(feed) \in Nat /\ \A n \in DOMAIN feed : feed'[n] = feed[n]
      /\ feed'[Len(feed) + 1] = e
  BY <1>1 DEF NoticesInv
<1>3. \A n \in DOMAIN feed : \A m :
          /\ Reads(m, n)' <=> Reads(m, n)
          /\ Notices!Visible(m, n)' <=> Notices!Visible(m, n)
  BY <1>2 DEF Reads, Notices!Visible
<1>4. \A m, n : n = Len(feed) + 1 => ~Reads(m, n)'
  BY <1>0, <1>2 DEF Reads
<1>5. ASSUME NEW n \in DOMAIN feed'
      PROVE  ReceiptsOK(n)'
 <2>1. CASE n \in DOMAIN feed
   BY <1>1, <1>2, <1>3, <2>1 DEF ReceiptsOK, NoticesInv
 <2>2. CASE n = Len(feed) + 1
   BY <1>0, <1>2, <1>4, <2>2 DEF ReceiptsOK
 <2>. QED BY <1>2, <2>1, <2>2
<1>6. ASSUME NEW r \in Requests
      PROVE  MarkingOK(request[r])'
  BY <1>1, <1>2, <1>3 DEF MarkingOK, NoticesInv
<1>7. ASSUME NEW m, NEW n, <<m, n>> \in acked
      PROVE  n \in DOMAIN feed' /\ Reads(m, n)'
  BY <1>2, <1>3, <1>7 DEF NoticesInv
<1>. QED BY <1>1, <1>2, <1>5, <1>6, <1>7 DEF NoticesInv

LEMMA AskKept ==
    ASSUME NoticesInv, NEW r \in Requests, NEW m \in Members, NEW asked, asked \subseteq DOMAIN feed,
           Notices!Ask(r, m, asked)
    PROVE  NoticesInv'
<1>. DEFINE l == [pc |-> "mark", of |-> m, left |-> asked, shown |-> asked]
<1>1. l \in Reader /\ MarkingOK(l)
  BY DEF Reader, MarkingOK, NoticesInv
<1>2. /\ request' = [request EXCEPT ![r] = l] /\ feed' = feed /\ acked' = acked
      /\ request[r].shown = {}
  BY NoticesIdle DEF Notices!Ask, Notices!Set
<1>. HIDE DEF l
<1>3. request' \in [Requests -> Reader] /\ \A q \in Requests : MarkingOK(request'[q])
  BY <1>1, <1>2 DEF NoticesInv
<1>4. \A q \in Requests : MarkingOK(request[q])'
  BY <1>2, <1>3 DEF MarkingOK, Reads, Notices!Visible, Notices!Idle
<1>5. ASSUME NEW n \in DOMAIN feed
      PROVE  ReceiptsOK(n)'
  BY <1>2 DEF ReceiptsOK, NoticesInv, Reads, Notices!Visible
<1>. QED BY <1>2, <1>3, <1>4, <1>5 DEF NoticesInv, Reads

\* Whoever is pushed was not there, and is told by the request that pushed.
LEMMA MarkKept ==
    ASSUME NoticesInv, NEW r \in Requests, NEW n \in DOMAIN feed, Notices!Mark(r, n)
    PROVE  NoticesInv'
<1>0. PICK m : m = request[r].of
  OBVIOUS
<1>. DEFINE l == [request[r] EXCEPT !.left = @ \ {n}]
            pushed == Append(feed[n].read_by, m)
<1>1. /\ request[r] \in Reader /\ request[r].pc = "mark" /\ m \in Members /\ n \in request[r].left
      /\ request[r].left \subseteq request[r].shown /\ request[r].shown \subseteq DOMAIN feed
      /\ \A k \in request[r].shown \ request[r].left : Notices!Visible(m, k) => Reads(m, k)
  BY <1>0 DEF NoticesInv, MarkingOK, Notices!Mark
<1>2. /\ l \in Reader /\ l.pc = "mark" /\ l.of = m /\ l.shown = request[r].shown
      /\ l.left = request[r].left \ {n}
  BY <1>0, <1>1 DEF Reader
<1>3. request' = [request EXCEPT ![r] = l] /\ acked' = acked
  BY DEF Notices!Mark, Notices!Set
<1>4. Notices!visibility_criteria(m, n) <=> Notices!Visible(m, n) /\ ~Reads(m, n)
  BY DEF Notices!visibility_criteria, Notices!Receipts, Reads
<1>. DEFINE pushes == Notices!Visible(m, n) /\ ~Reads(m, n)
<1>5. feed[n].read_by \in Seq(Members) /\ feed[n] \in Notice
 <2>1. feed[n] \in Notice
   BY DEF NoticesInv
 <2>. QED BY <2>1 DEF Notice
<1>6. /\ pushed \in Seq(Members) /\ DOMAIN pushed = DOMAIN feed[n].read_by \union {Len(feed[n].read_by) + 1}
      /\ Len(feed[n].read_by) + 1 \notin DOMAIN feed[n].read_by
      /\ \A i \in DOMAIN feed[n].read_by : pushed[i] = feed[n].read_by[i]
      /\ pushed[Len(feed[n].read_by) + 1] = m
  BY <1>1, <1>5
<1>7. /\ feed' \in Seq(Notice) /\ DOMAIN feed' = DOMAIN feed
      /\ \A k \in DOMAIN feed : feed'[k].to = feed[k].to
      /\ \A k \in DOMAIN feed \ {n} : feed'[k] = feed[k]
      /\ feed'[n].read_by = IF pushes THEN pushed ELSE feed[n].read_by
 <2>1. CASE pushes
  <3>1. feed' = [feed EXCEPT ![n] = [@ EXCEPT !.read_by = pushed]]
    BY <1>0, <1>4, <2>1 DEF Notices!Mark, Notices!Pushed
  <3>. HIDE DEF pushed, pushes
  <3>2. [feed[n] EXCEPT !.read_by = pushed] \in Notice
        /\ [feed[n] EXCEPT !.read_by = pushed].to = feed[n].to
        /\ [feed[n] EXCEPT !.read_by = pushed].read_by = pushed
    BY <1>5, <1>6 DEF Notice
  <3>3. \A x \in Notice : /\ [feed EXCEPT ![n] = x] \in Seq(Notice)
                         /\ DOMAIN [feed EXCEPT ![n] = x] = DOMAIN feed
                         /\ [feed EXCEPT ![n] = x][n] = x
                         /\ \A k \in DOMAIN feed \ {n} : [feed EXCEPT ![n] = x][k] = feed[k]
    BY DEF NoticesInv
  <3>. QED BY <2>1, <3>1, <3>2, <3>3
 <2>2. CASE ~pushes
   BY <1>0, <1>4, <1>5, <2>2 DEF Notices!Mark, NoticesInv
 <2>. QED BY <2>1, <2>2
<1>. HIDE DEF l, pushed, pushes
<1>8. \A k \in DOMAIN feed : \A u :
          /\ Notices!Visible(u, k)' <=> Notices!Visible(u, k)
          /\ Reads(u, k)' <=> Reads(u, k) \/ (pushes /\ k = n /\ u = m)
  BY <1>6, <1>7, ZenonT(40) DEF Notices!Visible, Reads
<1>9. pushes => m \in Members /\ Notices!Visible(m, n) /\ ~Reads(m, n)
  BY <1>1 DEF pushes
<1>10. ASSUME NEW k \in DOMAIN feed
       PROVE  ReceiptsOK(k)'
 <2>1. ReceiptsOK(k)
   BY DEF NoticesInv
 <2>2. \A i, j \in DOMAIN feed'[k].read_by : feed'[k].read_by[i] = feed'[k].read_by[j] => i = j
  <3>1. CASE k = n /\ pushes
    BY <1>6, <1>7, <1>9, <2>1, <3>1 DEF ReceiptsOK, Reads
  <3>2. CASE ~(k = n /\ pushes)
    BY <1>7, <2>1, <3>2 DEF ReceiptsOK
  <3>. QED BY <3>1, <3>2
 <2>3. ASSUME NEW u \in Members, Reads(u, k)'
       PROVE  /\ Notices!Visible(u, k)'
              /\ <<u, k>> \in acked' \/ \E q \in Requests : request'[q].of = u /\ k \in request'[q].shown
  <3>1. request[r].of = m /\ request'[r].of = m /\ request'[r].shown = request[r].shown /\ n \in request[r].shown
        /\ \A q \in Requests : request'[q].of = request[q].of /\ request'[q].shown = request[q].shown
    BY <1>0, <1>1, <1>2, <1>3 DEF NoticesInv
  <3>2. CASE Reads(u, k)
    BY <1>3, <1>8, <2>1, <3>1, <3>2 DEF ReceiptsOK
  <3>3. CASE pushes /\ k = n /\ u = m
    BY <1>8, <1>9, <3>1, <3>3
  <3>4. Reads(u, k) \/ (pushes /\ k = n /\ u = m)
    BY <1>8, <2>3
  <3>. QED BY <3>2, <3>3, <3>4
 <2>. QED BY <2>2, <2>3 DEF ReceiptsOK
<1>11. ASSUME NEW q \in Requests
       PROVE  MarkingOK(request[q])'
 <2>1. CASE q = r
  <3>1. request'[q] = l
    BY <1>3, <2>1 DEF NoticesInv
  <3>2. ASSUME NEW k \in l.shown \ l.left, Notices!Visible(m, k)'
        PROVE  Reads(m, k)'
    BY <1>1, <1>2, <1>8, <3>2 DEF pushes
  <3>. QED BY <1>1, <1>2, <1>7, <3>1, <3>2 DEF MarkingOK
 <2>2. CASE q # r
  <3>1. request'[q] = request[q] /\ MarkingOK(request[q])
    BY <1>3, <2>2 DEF NoticesInv
  <3>. QED BY <1>7, <1>8, <3>1 DEF MarkingOK, Notices!Idle
 <2>. QED BY <2>1, <2>2
<1>12. request' \in [Requests -> Reader]
  BY <1>2, <1>3 DEF NoticesInv
<1>13. \A u, k : <<u, k>> \in acked' => k \in DOMAIN feed' /\ Reads(u, k)'
  BY <1>3, <1>7, <1>8 DEF NoticesInv
<1>. QED BY <1>7, <1>10, <1>11, <1>12, <1>13 DEF NoticesInv

LEMMA FeedAnswerKept ==
    ASSUME NoticesInv, NEW r \in Requests, Notices!Answer(r)
    PROVE  NoticesInv'
<1>1. /\ request[r] \in Reader /\ request[r].pc = "mark" /\ request[r].shown \subseteq DOMAIN feed
      /\ \A k \in request[r].shown : Notices!Visible(request[r].of, k) => Reads(request[r].of, k)
      /\ request' = [request EXCEPT ![r] = Notices!Idle] /\ feed' = feed
      /\ acked' = acked
             \union {<<request[r].of, k>> : k \in {k \in request[r].shown : Notices!Visible(request[r].of, k)}}
  BY DEF NoticesInv, MarkingOK, Notices!Answer, Notices!Set
<1>2. request' \in [Requests -> Reader] /\ \A q \in Requests : MarkingOK(request'[q])
  BY <1>1, NoticesIdle DEF NoticesInv, MarkingOK
<1>3. \A u, k : /\ Notices!Visible(u, k)' <=> Notices!Visible(u, k)
                /\ Reads(u, k)' <=> Reads(u, k)
  BY <1>1 DEF Notices!Visible, Reads
<1>4. \A q \in Requests : MarkingOK(request[q])'
  BY <1>1, <1>2 DEF MarkingOK, Reads, Notices!Visible, Notices!Idle
<1>5. \A u, k : <<u, k>> \in acked' =>
          \/ <<u, k>> \in acked
          \/ u = request[r].of /\ k \in request[r].shown /\ Notices!Visible(u, k)
  BY <1>1
<1>6. \A u, k : <<u, k>> \in acked' => k \in DOMAIN feed' /\ Reads(u, k)'
  BY <1>1, <1>3, <1>5 DEF NoticesInv
<1>7. ASSUME NEW k \in DOMAIN feed
      PROVE  ReceiptsOK(k)'
 <2>1. ReceiptsOK(k)
   BY DEF NoticesInv
 <2>2. ASSUME NEW u \in Members, Reads(u, k)
       PROVE  /\ Notices!Visible(u, k)'
              /\ <<u, k>> \in acked' \/ \E q \in Requests : request'[q].of = u /\ k \in request'[q].shown
  <3>1. Notices!Visible(u, k) /\ Notices!Visible(u, k)'
    BY <1>3, <2>1, <2>2 DEF ReceiptsOK
  <3>2. CASE <<u, k>> \in acked
    BY <1>1, <3>1, <3>2
  <3>3. ASSUME NEW q \in Requests, request[q].of = u, k \in request[q].shown
        PROVE  <<u, k>> \in acked' \/ \E p \in Requests : request'[p].of = u /\ k \in request'[p].shown
   <4>1. CASE q = r
     BY <1>1, <3>1, <3>3, <4>1
   <4>2. CASE q # r
     BY <1>1, <3>3, <4>2 DEF NoticesInv
   <4>. QED BY <4>1, <4>2
  <3>. QED BY <2>1, <2>2, <3>1, <3>2, <3>3 DEF ReceiptsOK
 <2>. QED BY <1>1, <1>3, <2>1, <2>2 DEF ReceiptsOK
<1>. QED BY <1>1, <1>2, <1>4, <1>6, <1>7 DEF NoticesInv

LEMMA NoticesStep ==
    ASSUME NoticesInv, [Notices!Next]_(Notices!vars)
    PROVE  NoticesInv'
<1>1. CASE UNCHANGED Notices!vars
  BY <1>1 DEF NoticesInv, ReceiptsOK, MarkingOK, Reads, Notices!Visible, Notices!Idle, Notices!vars
<1>2. ASSUME NEW r \in Requests, NEW m \in Members, Notices!MarkAll(r, m)
      PROVE  NoticesInv'
 <2>1. PICK asked \in SUBSET DOMAIN feed : Notices!Ask(r, m, asked)
   BY <1>2 DEF Notices!MarkAll
 <2>. QED BY <2>1, AskKept
<1>3. ASSUME NEW r \in Requests, NEW m \in Members, NEW n \in DOMAIN feed, Notices!MarkOne(r, m, n)
      PROVE  NoticesInv'
 <2>1. {n} \subseteq DOMAIN feed
   OBVIOUS
 <2>. QED BY <1>3, <2>1, AskKept DEF Notices!MarkOne
<1>. QED BY <1>1, <1>2, <1>3, EmitKept, MarkKept, FeedAnswerKept DEF Notices!Next

\* A member's unread count is what the member sees and was not told is read, once
\* no request of theirs is in progress, however emitters and requests overlap;
\* nobody is pushed twice or as reader of another's notice (mark_read,
\* visibility_criteria).
THEOREM UnreadCountsAreExact == Notices!Spec => []Notices!UnreadIsExact
<1>1. NoticesInv => Notices!UnreadIsExact
 <2>. SUFFICES ASSUME NoticesInv PROVE Notices!UnreadIsExact
   OBVIOUS
 <2>1. \A S : Notices!Cardinality(S) = Cardinality(S)
   BY Zenon DEF Notices!Cardinality, Cardinality
 <2>2. ASSUME NEW n \in DOMAIN feed, NEW m \in Members
       PROVE  /\ Notices!Cardinality(Notices!Receipts(m, n)) <= 1
              /\ Notices!Receipts(m, n) # {} => Notices!Visible(m, n)
  <3>1. ReceiptsOK(n) /\ (Notices!Receipts(m, n) # {} <=> Reads(m, n))
    BY DEF NoticesInv, Reads, Notices!Receipts
  <3>2. \A i, j \in Notices!Receipts(m, n) : i = j
    BY <3>1 DEF ReceiptsOK, Notices!Receipts
  <3>3. ASSUME Notices!Receipts(m, n) = {}
        PROVE  Cardinality(Notices!Receipts(m, n)) = 0
    BY <3>3, FS_EmptySet
  <3>4. ASSUME NEW i \in Notices!Receipts(m, n)
        PROVE  Cardinality(Notices!Receipts(m, n)) = 1
   <4>1. Notices!Receipts(m, n) = {i}
     BY <3>2
   <4>. QED BY <4>1, FS_Singleton
  <3>5. Cardinality(Notices!Receipts(m, n)) \in {0, 1}
    BY <3>3, <3>4
  <3>6. Notices!Cardinality(Notices!Receipts(m, n)) <= 1
    BY <2>1, <3>5
  <3>. QED BY <3>1, <3>6 DEF ReceiptsOK
 <2>3. ASSUME NEW m \in Members, \A r \in Requests : request[r].of # m
       PROVE  Notices!unread_count(m) =
                  Notices!Cardinality({n \in DOMAIN feed : Notices!Visible(m, n) /\ <<m, n>> \notin acked})
  <3>1. \A n \in DOMAIN feed : Notices!visibility_criteria(m, n) <=> Notices!Visible(m, n) /\ <<m, n>> \notin acked
   <4>1. \A n : Notices!Receipts(m, n) # {} <=> Reads(m, n)
     BY DEF Reads, Notices!Receipts
   <4>2. \A n \in DOMAIN feed : Reads(m, n) <=> <<m, n>> \in acked
     BY <2>3 DEF NoticesInv, ReceiptsOK
   <4>. QED BY <4>1, <4>2 DEF Notices!visibility_criteria
  <3>2. {n \in DOMAIN feed : Notices!visibility_criteria(m, n)} =
        {n \in DOMAIN feed : Notices!Visible(m, n) /\ <<m, n>> \notin acked}
    BY <3>1
  <3>. QED BY <3>2 DEF Notices!unread_count
 <2>. QED BY <2>2, <2>3 DEF Notices!UnreadIsExact
<1>. QED BY <1>1, NoticesInit, NoticesStep, PTL DEF Notices!Spec

\* Accounts and the last administrator (Accounts).
CONSTANTS Users, Founders, Granted, Operations
People == INSTANCE Accounts

Person == [role : People!Roles, status : {"none", "active", "invited", "deactivated"}, active : BOOLEAN,
           token : Nat, issued : Nat, revoked : BOOLEAN, chosen : BOOLEAN]
Editor == [pc : Operations \union {"idle", "accept", "write", "recount", "undo"},
           op : Operations \union {"none"}, of : Users \union {"none"}, actor : Users \union {"none"},
           role : People!Roles, token : Nat, copy : Person]

\* Whoever is active, or was and is not revoked, has chosen a password.
Honest(a) ==
    /\ a.active \/ (a.status \in {"active", "deactivated"} /\ ~a.revoked) => a.chosen
    /\ a.status = "none" => ~a.chosen

\* What a request that read an account knows of it later.
CopyOK(l) ==
    /\ l.pc # "idle" => l.of \in Users
    /\ l.pc \notin {"idle", "accept"} =>
           /\ Honest(l.copy) /\ l.copy.status # "none"
           /\ l.copy.chosen => user[l.of].chosen
    /\ l.pc \in {"write", "recount", "undo"} =>
           \/ l.op = "deactivate" /\ l.copy.active
           \/ l.op = "role" /\ l.role # l.copy.role
    /\ l.pc \in {"recount", "undo"} => l.copy.role = "administrator"
    /\ l.pc \in {"role", "deactivate"} => l.op = l.pc
    /\ l.pc = "accept" => l.token # 0

\* Operations are those of the module, and what is granted is a role.
AccountsAssumed ==
    /\ Operations \subseteq {"role", "deactivate", "activate", "resend"}
    /\ Granted \subseteq People!Roles
    /\ Founders \subseteq Users

PeopleInv ==
    /\ user \in [Users -> Person] /\ \A u \in Users : Honest(user[u])
    /\ request \in [Requests -> Editor] /\ \A r \in Requests : CopyOK(request[r])

LEMMA PeopleValues ==
    /\ People!NoAccount \in Person /\ Honest(People!NoAccount)
    /\ \A role \in People!Roles : People!Account(role) \in Person /\ Honest(People!Account(role))
    /\ People!Idle \in Editor /\ People!Idle.pc = "idle"
<1>1. \A role \in People!Roles : People!Account(role) \in Person /\ Honest(People!Account(role))
  BY DEF People!Account, Person, Honest
<1>2. "operator" \in People!Roles
  BY DEF People!Roles
<1>3. People!NoAccount \in Person /\ Honest(People!NoAccount)
  BY <1>2 DEF People!NoAccount, People!Account, Person, Honest
<1>. QED BY <1>1, <1>2, <1>3 DEF People!Idle, Editor

LEMMA PeopleInit == AccountsAssumed /\ People!Init => PeopleInv
<1>. SUFFICES ASSUME AccountsAssumed, People!Init PROVE PeopleInv
  OBVIOUS
<1>1. "administrator" \in People!Roles
  BY DEF People!Roles
<1>2. user \in [Users -> Person] /\ \A u \in Users : Honest(user[u])
  BY <1>1, PeopleValues DEF People!Init
<1>3. request \in [Requests -> Editor] /\ \A r \in Requests : CopyOK(request[r])
  BY PeopleValues DEF People!Init, CopyOK
<1>. QED BY <1>2, <1>3 DEF PeopleInv

\* One request moves, or ends, and one account at most changes under it.
LEMMA RequestMoves ==
    ASSUME PeopleInv, NEW r \in Requests, NEW l \in Editor, CopyOK(l)',
           request' = [request EXCEPT ![r] = l],
           user' \in [Users -> Person], \A u \in Users : Honest(user'[u]) /\ (user[u].chosen => user'[u].chosen)
    PROVE  PeopleInv'
<1>1. request' \in [Requests -> Editor]
  BY DEF PeopleInv
<1>2. ASSUME NEW q \in Requests
      PROVE  CopyOK(request[q])'
 <2>1. CASE q = r
   BY <2>1 DEF PeopleInv, CopyOK
 <2>2. CASE q # r
  <3>1. request'[q] = request[q] /\ CopyOK(request[q])
    BY <2>2 DEF PeopleInv
  <3>. QED BY <3>1 DEF CopyOK
 <2>. QED BY <2>1, <2>2
<1>. QED BY <1>1, <1>2 DEF PeopleInv

LEMMA RequestEnds ==
    ASSUME PeopleInv, NEW r \in Requests, People!Done(r),
           user' \in [Users -> Person], \A u \in Users : Honest(user'[u]) /\ (user[u].chosen => user'[u].chosen)
    PROVE  PeopleInv'
<1>1. People!Idle \in Editor /\ CopyOK(People!Idle)'
  BY PeopleValues DEF CopyOK
<1>. QED BY <1>1, RequestMoves DEF People!Done, People!Set

\* One account changes, and keeps what was chosen.
LEMMA AccountChanges ==
    ASSUME PeopleInv, NEW u \in Users, NEW a \in Person, Honest(a), user[u].chosen => a.chosen,
           user' = [user EXCEPT ![u] = a]
    PROVE  user' \in [Users -> Person]
           /\ \A v \in Users : Honest(user'[v]) /\ (user[v].chosen => user'[v].chosen)
  BY DEF PeopleInv

LEMMA AccountStays ==
    ASSUME PeopleInv, user' = user
    PROVE  user' \in [Users -> Person]
           /\ \A v \in Users : Honest(user'[v]) /\ (user[v].chosen => user'[v].chosen)
  BY DEF PeopleInv

LEMMA InviteKept ==
    ASSUME AccountsAssumed, PeopleInv, NEW u \in Users, NEW role \in Granted, People!Invite(u, role)
    PROVE  PeopleInv'
<1>. DEFINE a == [People!NoAccount EXCEPT !.role = role, !.status = "invited", !.token = 1, !.issued = 1]
<1>1. a \in Person /\ Honest(a)
  BY DEF AccountsAssumed, People!NoAccount, People!Account, Person, Honest
<1>2. user' = [user EXCEPT ![u] = a] /\ request' = request /\ user[u].status = "none"
  BY DEF People!Invite
<1>3. user[u].chosen => a.chosen
  BY <1>2 DEF PeopleInv, Honest
<1>. HIDE DEF a
<1>4. user' \in [Users -> Person]
      /\ \A v \in Users : Honest(user'[v]) /\ (user[v].chosen => user'[v].chosen)
  BY <1>1, <1>2, <1>3, AccountChanges
<1>5. ASSUME NEW q \in Requests
      PROVE  CopyOK(request[q])'
  BY <1>2, <1>4 DEF CopyOK, PeopleInv
<1>. QED BY <1>2, <1>4, <1>5 DEF PeopleInv

LEMMA ReadKept ==
    ASSUME AccountsAssumed, PeopleInv, NEW r \in Requests, NEW actor \in Users, NEW op \in Operations,
           NEW u \in Users, NEW role \in Granted, People!Read(r, actor, op, u, role)
    PROVE  PeopleInv'
<1>0. PICK l : l = [pc |-> op, op |-> op, of |-> u, actor |-> actor, role |-> role, token |-> 0, copy |-> user[u]]
  OBVIOUS
<1>1. user[u] \in Person /\ Honest(user[u])
  BY DEF PeopleInv
<1>2. l \in Editor
  BY <1>0, <1>1 DEF Editor, AccountsAssumed
<1>3. request' = [request EXCEPT ![r] = l] /\ user' = user /\ user[u].status # "none"
  BY <1>0 DEF People!Read, People!Set
<1>4. CopyOK(l)'
  BY <1>0, <1>1, <1>3 DEF CopyOK, AccountsAssumed
<1>. QED BY <1>2, <1>3, <1>4, AccountStays, RequestMoves

LEMMA PresentKept ==
    ASSUME PeopleInv, NEW r \in Requests, NEW u \in Users, People!Present(r, u)
    PROVE  PeopleInv'
<1>0. PICK l : l = [People!Idle EXCEPT !.pc = "accept", !.of = u, !.token = user[u].token]
  OBVIOUS
<1>1. user[u] \in Person
  BY DEF PeopleInv
<1>2. l \in Editor /\ l.pc = "accept" /\ l.of = u /\ l.token = user[u].token
  BY <1>0, <1>1, PeopleValues DEF Editor, Person
<1>3. request' = [request EXCEPT ![r] = l] /\ user' = user /\ user[u].token # 0
  BY <1>0 DEF People!Present, People!Set
<1>4. CopyOK(l)'
  BY <1>2, <1>3 DEF CopyOK
<1>. QED BY <1>2, <1>3, <1>4, AccountStays, RequestMoves

LEMMA AcceptKept ==
    ASSUME PeopleInv, NEW r \in Requests, People!Accept(r)
    PROVE  PeopleInv'
<1>. DEFINE u == request[r].of
            a == [user[u] EXCEPT !.token = 0, !.status = "active", !.active = TRUE, !.chosen = TRUE]
<1>1. u \in Users /\ user[u] \in Person
  BY DEF PeopleInv, CopyOK, People!Accept
<1>2. a \in Person /\ Honest(a) /\ a.chosen
  BY <1>1 DEF Person, Honest
<1>3. user' = user \/ user' = [user EXCEPT ![u] = a]
  BY DEF People!Accept
<1>4. People!Done(r)
  BY DEF People!Accept
<1>. HIDE DEF a, u
<1>. QED BY <1>1, <1>2, <1>3, <1>4, AccountChanges, AccountStays, RequestEnds

LEMMA ResendKept ==
    ASSUME PeopleInv, NEW r \in Requests, People!Resend(r)
    PROVE  PeopleInv'
<1>. DEFINE u == request[r].of
            a == [user[u] EXCEPT !.token = user[u].issued + 1, !.issued = @ + 1]
            b == [user[u] EXCEPT !.token = user[u].issued + 1, !.issued = @ + 1, !.revoked = FALSE,
                                 !.status = "invited", !.active = FALSE]
<1>1. u \in Users /\ user[u] \in Person /\ Honest(user[u])
  BY DEF PeopleInv, CopyOK, People!Resend
<1>2. a \in Person /\ Honest(a) /\ (user[u].chosen => a.chosen)
 <2>1. user[u].issued \in Nat /\ user[u].issued + 1 \in Nat
   BY <1>1 DEF Person
 <2>2. a \in Person
   BY <1>1, <2>1 DEF Person
 <2>. QED BY <1>1, <2>2 DEF Person, Honest
<1>3. b \in Person /\ Honest(b) /\ (user[u].chosen => b.chosen)
 <2>1. user[u].issued \in Nat /\ user[u].issued + 1 \in Nat
   BY <1>1 DEF Person
 <2>2. b \in Person
   BY <1>1, <2>1 DEF Person
 <2>. QED BY <1>1, <2>2 DEF Person, Honest
<1>4. People!Done(r) /\ (user' = user \/ user' = [user EXCEPT ![u] = a] \/ user' = [user EXCEPT ![u] = b])
  BY DEF People!Resend
<1>. HIDE DEF a, b, u
<1>. QED BY <1>1, <1>2, <1>3, <1>4, AccountChanges, AccountStays, RequestEnds

LEMMA ActivateKept ==
    ASSUME PeopleInv, NEW r \in Requests, People!Activate(r)
    PROVE  PeopleInv'
<1>. DEFINE u == request[r].of
            a == [user[u] EXCEPT !.active = TRUE, !.status = "active"]
<1>1. u \in Users /\ user[u] \in Person /\ Honest(user[u]) /\ request[r].pc = "activate"
      /\ request[r] \in Editor /\ CopyOK(request[r])
  BY DEF PeopleInv, CopyOK, People!Activate
<1>2. CASE request[r].copy.status = "invited" \/ request[r].copy.revoked
  BY <1>2, AccountStays, RequestEnds DEF People!Activate
<1>3. CASE ~(request[r].copy.status = "invited" \/ request[r].copy.revoked)
 <2>1. user' = [user EXCEPT ![u] = a] /\ People!Done(r)
   BY <1>1, <1>3 DEF People!Activate, PeopleInv
 <2>2. CASE user[u].chosen
  <3>1. a \in Person /\ Honest(a) /\ a.chosen
    BY <1>1, <2>2 DEF Person, Honest
  <3>. HIDE DEF a, u
  <3>. QED BY <1>1, <2>1, <3>1, AccountChanges, RequestEnds
 <2>. QED BY <1>1, <1>3, <2>2 DEF CopyOK, Honest, Editor, Person
<1>. QED BY <1>2, <1>3

\* A request goes on to another place of the same operation.
LEMMA GotoKept ==
    ASSUME PeopleInv, NEW r \in Requests, NEW pc \in {"write", "recount", "undo"},
           People!Goto(r, pc), request[r].pc \notin {"idle", "accept"},
           \/ request[r].op = "deactivate" /\ request[r].copy.active
           \/ request[r].op = "role" /\ request[r].role # request[r].copy.role,
           pc = "write" \/ request[r].copy.role = "administrator",
           user' \in [Users -> Person], \A u \in Users : Honest(user'[u]) /\ (user[u].chosen => user'[u].chosen)
    PROVE  PeopleInv'
<1>1. PICK l : l = [request[r] EXCEPT !.pc = pc]
  OBVIOUS
<1>2. request[r] \in Editor /\ CopyOK(request[r])
  BY DEF PeopleInv
<1>3. l \in Editor /\ l.pc = pc /\ l.op = request[r].op /\ l.of = request[r].of /\ l.copy = request[r].copy
      /\ l.role = request[r].role
  BY <1>1, <1>2 DEF Editor
<1>4. CopyOK(l)'
  BY <1>2, <1>3 DEF CopyOK
<1>. QED BY <1>1, <1>3, <1>4, RequestMoves DEF People!Goto, People!Set

LEMMA RemovalKept ==
    ASSUME PeopleInv, NEW r \in Requests, People!Role(r) \/ People!Deactivate(r) \/ People!Recount(r)
    PROVE  PeopleInv'
<1>1. request[r] \in Editor /\ CopyOK(request[r])
  BY DEF PeopleInv
<1>2. CASE People!Role(r)
  BY <1>1, <1>2, AccountStays, RequestEnds, GotoKept DEF People!Role, CopyOK
<1>3. CASE People!Deactivate(r)
 <2>. DEFINE u == request[r].of
             a == [user[u] EXCEPT !.active = FALSE, !.status = "deactivated", !.token = 0, !.revoked = TRUE]
 <2>1. u \in Users /\ user[u] \in Person /\ Honest(user[u]) /\ request[r].pc = "deactivate"
       /\ request[r].op = "deactivate"
   BY <1>1, <1>3 DEF PeopleInv, CopyOK, People!Deactivate
 <2>2. CASE request[r].copy.status = "invited"
  <3>1. a \in Person /\ Honest(a) /\ (user[u].chosen => a.chosen)
    BY <2>1 DEF Person, Honest
  <3>2. user' = [user EXCEPT ![u] = a] /\ People!Done(r)
    BY <1>3, <2>1, <2>2 DEF People!Deactivate
  <3>. HIDE DEF a, u
  <3>. QED BY <2>1, <3>1, <3>2, AccountChanges, RequestEnds
 <2>3. CASE request[r].copy.status # "invited"
   BY <1>3, <2>1, <2>3, AccountStays, RequestEnds, GotoKept DEF People!Deactivate
 <2>. QED BY <2>2, <2>3
<1>4. CASE People!Recount(r)
 <2>1. request[r].pc = "recount"
   BY <1>4 DEF People!Recount
 <2>2. \/ request[r].op = "deactivate" /\ request[r].copy.active
       \/ request[r].op = "role" /\ request[r].role # request[r].copy.role
   BY <1>1, <2>1 DEF CopyOK
 <2>3. request[r].copy.role = "administrator"
   BY <1>1, <2>1 DEF CopyOK
 <2>. QED BY <1>4, <2>1, <2>2, <2>3, AccountStays, RequestEnds, GotoKept DEF People!Recount
<1>. QED BY <1>2, <1>3, <1>4

\* The write and its undoing change one account, and keep what was chosen.
LEMMA WriteIsHonest ==
    ASSUME PeopleInv, NEW r \in Requests, People!Write(r) \/ People!Undo(r)
    PROVE  user' \in [Users -> Person]
           /\ \A v \in Users : Honest(user'[v]) /\ (user[v].chosen => user'[v].chosen)
<1>. DEFINE l == request[r]
            u == l.of
            given == [user[u] EXCEPT !.role = l.role]
            off == [user[u] EXCEPT !.active = FALSE, !.status = "deactivated"]
            back == [user[u] EXCEPT !.role = l.copy.role]
            on == [user[u] EXCEPT !.active = TRUE, !.status = l.copy.status]
<1>1. /\ l \in Editor /\ u \in Users /\ user[u] \in Person /\ Honest(user[u]) /\ l.copy \in Person
      /\ l.op = "role" \/ (l.op = "deactivate" /\ user[u].chosen)
      /\ l.copy.status # "none" /\ Honest(l.copy)
 <2>1. l \in Editor /\ CopyOK(l) /\ l.pc \in {"write", "undo"}
   BY DEF PeopleInv, People!Write, People!Undo
 <2>2. l.copy \in Person /\ u \in Users
   BY <2>1 DEF Editor, CopyOK
 <2>3. l.op = "role" \/ (l.op = "deactivate" /\ user[u].chosen)
   BY <2>1 DEF CopyOK, Honest
 <2>. QED BY <2>1, <2>2, <2>3 DEF CopyOK, PeopleInv
<1>2. given \in Person /\ Honest(given) /\ (user[u].chosen => given.chosen)
  BY <1>1 DEF Person, Honest, Editor
<1>3. back \in Person /\ Honest(back) /\ (user[u].chosen => back.chosen)
  BY <1>1 DEF Person, Honest
<1>4. l.op = "deactivate" =>
          /\ off \in Person /\ Honest(off) /\ (user[u].chosen => off.chosen)
          /\ on \in Person /\ Honest(on) /\ (user[u].chosen => on.chosen)
  BY <1>1 DEF Person, Honest
<1>5. \/ user' = user
      \/ user' = [user EXCEPT ![u] = given] \/ user' = [user EXCEPT ![u] = back]
      \/ l.op = "deactivate" /\ user' = [user EXCEPT ![u] = off]
      \/ l.op = "deactivate" /\ user' = [user EXCEPT ![u] = on]
 <2>1. CASE People!Write(r)
   BY <1>1, <2>1 DEF People!Write, PeopleInv
 <2>2. CASE People!Undo(r)
   BY <1>1, <2>2 DEF People!Undo, PeopleInv
 <2>. QED BY <2>1, <2>2
<1>. HIDE DEF given, back, off, on, u, l
<1>. QED BY <1>1, <1>2, <1>3, <1>4, <1>5, AccountChanges, AccountStays

LEMMA AccountWriteKept ==
    ASSUME PeopleInv, NEW r \in Requests, People!Write(r) \/ People!Undo(r)
    PROVE  PeopleInv'
<1>1. request[r] \in Editor /\ CopyOK(request[r])
  BY DEF PeopleInv
<1>2. CASE People!Write(r)
 <2>1. \/ request[r].op = "deactivate" /\ request[r].copy.active
       \/ request[r].op = "role" /\ request[r].role # request[r].copy.role
   BY <1>1, <1>2 DEF CopyOK, People!Write
 <2>2. CASE People!Done(r)
   BY <2>2, WriteIsHonest, RequestEnds
 <2>3. CASE People!Goto(r, "recount") /\ request[r].copy.role = "administrator"
   BY <1>2, <2>1, <2>3, WriteIsHonest, GotoKept DEF People!Write
 <2>. QED BY <1>2, <2>2, <2>3 DEF People!Write, People!Removal
<1>3. CASE People!Undo(r)
  BY <1>3, WriteIsHonest, RequestEnds DEF People!Undo
<1>. QED BY <1>2, <1>3

LEMMA PeopleStep ==
    ASSUME AccountsAssumed, PeopleInv, [People!Next]_(People!vars)
    PROVE  PeopleInv'
<1>1. CASE UNCHANGED People!vars
  BY <1>1 DEF PeopleInv, CopyOK, People!vars
<1>2. CASE People!Next
  BY <1>2, InviteKept, ReadKept, PresentKept, AcceptKept, ResendKept, ActivateKept, RemovalKept, AccountWriteKept
     DEF People!Next
<1>. QED BY <1>1, <1>2

\* Removals of administrators by role alone.
\* A request that will put back a removal that left nobody.
PutsBackRole(r) ==
    LET l == request[r] IN
    /\ l.pc \in {"recount", "undo"} /\ l.op = "role" /\ l.role = "operator"
    /\ user[l.of].active /\ user[l.of].role = "operator"

RolesInv ==
    /\ PeopleInv
    /\ \A u \in Users : ~user[u].revoked
    /\ \A r \in Requests :
           /\ request[r].pc \notin {"idle", "accept"} => ~request[r].copy.revoked
           /\ request[r].op # "deactivate"
    /\ People!Administrators = {} => \E r \in Requests : PutsBackRole(r)

LEMMA RolesInit ==
    ASSUME AccountsAssumed, Founders # {}, People!Init
    PROVE  RolesInv
<1>1. PeopleInv
  BY PeopleInit
<1>2. \A u \in Users : ~user[u].revoked
  BY DEF People!Init, People!NoAccount, People!Account
<1>3. PICK u \in Founders : u \in Users
  BY DEF AccountsAssumed
<1>4. u \in People!Administrators
  BY <1>3 DEF People!Administrators, People!Init, People!Account
<1>. QED BY <1>1, <1>2, <1>4, PeopleValues DEF RolesInv, People!Init, People!Idle

\* Steps that leave the roles of active accounts alone, without a deactivation.
LEMMA RolesQuiet ==
    ASSUME RolesInv, NEW r \in Requests,
           \/ \E a, u \in Users, op \in Operations, role \in Granted : People!Read(r, a, op, u, role)
           \/ \E u \in Users : People!Present(r, u)
           \/ People!Accept(r) \/ People!Resend(r) \/ People!Activate(r) \/ People!Role(r) \/ People!Recount(r)
    PROVE  \A v \in Users : /\ ~user'[v].revoked
                            /\ user[v].active => user'[v].active /\ user'[v].role = user[v].role
<1>1. /\ user \in [Users -> Person]
      /\ \A u \in Users : user[u] \in Person /\ ~user[u].revoked /\ Honest(user[u])
  BY DEF RolesInv, PeopleInv
<1>2. ASSUME NEW u \in Users, NEW a, user' = [user EXCEPT ![u] = a], ~a.revoked,
             user[u].active => a.active /\ a.role = user[u].role
      PROVE  \A v \in Users : /\ ~user'[v].revoked
                              /\ user[v].active => user'[v].active /\ user'[v].role = user[v].role
  BY <1>1, <1>2
<1>3. CASE user' = user
  BY <1>1, <1>3
<1>5. CASE People!Accept(r)
 <2>. DEFINE u == request[r].of
             a == [user[u] EXCEPT !.token = 0, !.status = "active", !.active = TRUE, !.chosen = TRUE]
 <2>1. u \in Users /\ user[u] \in Person
   BY <1>1, <1>5 DEF RolesInv, PeopleInv, CopyOK, People!Accept
 <2>2. ~a.revoked /\ a.active /\ a.role = user[u].role
   BY <1>1, <2>1 DEF Person
 <2>3. user' = user \/ user' = [user EXCEPT ![u] = a]
   BY <1>5 DEF People!Accept
 <2>. HIDE DEF a, u
 <2>. QED BY <1>2, <1>3, <2>1, <2>2, <2>3
<1>6. CASE People!Resend(r)
 <2>. DEFINE u == request[r].of
             a == [user[u] EXCEPT !.token = user[u].issued + 1, !.issued = @ + 1]
 <2>1. u \in Users /\ user[u] \in Person /\ ~user[u].revoked
   BY <1>1, <1>6 DEF RolesInv, PeopleInv, CopyOK, People!Resend
 <2>2. a.revoked = user[u].revoked /\ a.active = user[u].active /\ a.role = user[u].role
   BY <2>1 DEF Person
 <2>3. user' = user \/ user' = [user EXCEPT ![u] = a]
   BY <1>6, <2>1 DEF People!Resend
 <2>. HIDE DEF a, u
 <2>. QED BY <1>1, <1>2, <1>3, <2>1, <2>2, <2>3
<1>7. CASE People!Activate(r)
 <2>. DEFINE u == request[r].of
             a == [user[u] EXCEPT !.active = TRUE, !.status = "active"]
 <2>1. u \in Users /\ user[u] \in Person
   BY <1>1, <1>7 DEF RolesInv, PeopleInv, CopyOK, People!Activate
 <2>2. ~a.revoked /\ a.active /\ a.role = user[u].role
   BY <1>1, <2>1 DEF Person
 <2>3. user' = user \/ user' = [user EXCEPT ![u] = a]
   BY <1>1, <1>7, <2>1 DEF People!Activate
 <2>. HIDE DEF a, u
 <2>. QED BY <1>2, <1>3, <2>1, <2>2, <2>3
<1>. QED BY <1>3, <1>5, <1>6, <1>7 DEF People!Read, People!Present, People!Role, People!Recount

LEMMA RolesRequests ==
    ASSUME AccountsAssumed, RolesInv, "deactivate" \notin Operations, [People!Next]_(People!vars),
           \A v \in Users : ~user[v].revoked
    PROVE  \A q \in Requests :
               /\ request'[q].pc \notin {"idle", "accept"} => ~request'[q].copy.revoked
               /\ request'[q].op # "deactivate"
<1>. DEFINE Kept == \A q \in Requests :
                        /\ request'[q].pc \notin {"idle", "accept"} => ~request'[q].copy.revoked
                        /\ request'[q].op # "deactivate"
<1>1. \A r \in Requests :
          /\ request[r] \in Editor /\ request[r].op # "deactivate"
          /\ request[r].pc \notin {"idle", "accept"} => ~request[r].copy.revoked
  BY DEF RolesInv, PeopleInv
<1>2. request \in [Requests -> Editor]
  BY DEF RolesInv, PeopleInv
<1>3. ASSUME NEW r \in Requests, NEW l, request' = [request EXCEPT ![r] = l], l.op # "deactivate",
             l.pc \notin {"idle", "accept"} => ~l.copy.revoked
      PROVE  Kept
  BY <1>1, <1>2, <1>3
<1>. HIDE DEF Kept
<1>4. ASSUME NEW r \in Requests, People!Done(r)
      PROVE  Kept
 <2>1. People!Idle.op # "deactivate" /\ People!Idle.pc = "idle"
   BY DEF People!Idle
 <2>. QED BY <1>3, <1>4, <2>1 DEF People!Done, People!Set
<1>5. ASSUME NEW r \in Requests, NEW pc, People!Goto(r, pc), request[r].pc \notin {"idle", "accept"}
      PROVE  Kept
 <2>1. PICK l : l = [request[r] EXCEPT !.pc = pc]
   OBVIOUS
 <2>2. l.op = request[r].op /\ l.copy = request[r].copy
   BY <1>1, <2>1 DEF Editor
 <2>. QED BY <1>1, <1>3, <1>5, <2>1, <2>2 DEF People!Goto, People!Set
<1>6. ASSUME NEW r \in Requests, NEW a \in Users, NEW u \in Users, NEW op \in Operations, NEW role \in Granted,
             People!Read(r, a, op, u, role)
      PROVE  Kept
 <2>1. PICK l : l = [pc |-> op, op |-> op, of |-> u, actor |-> a, role |-> role, token |-> 0, copy |-> user[u]]
   OBVIOUS
 <2>2. l.op # "deactivate" /\ ~l.copy.revoked
   BY <2>1
 <2>. QED BY <1>3, <1>6, <2>1, <2>2 DEF People!Read, People!Set
<1>7. ASSUME NEW r \in Requests, NEW u \in Users, People!Present(r, u)
      PROVE  Kept
 <2>1. PICK l : l = [People!Idle EXCEPT !.pc = "accept", !.of = u, !.token = user[u].token]
   OBVIOUS
 <2>2. l.pc = "accept" /\ l.op = "none"
   BY <2>1 DEF People!Idle
 <2>. QED BY <1>3, <1>7, <2>1, <2>2 DEF People!Present, People!Set
<1>8. ASSUME UNCHANGED request
      PROVE  Kept
  BY <1>1, <1>8 DEF Kept
<1>9. ASSUME NEW r \in Requests,
             \/ People!Accept(r) \/ People!Resend(r) \/ People!Activate(r) \/ People!Role(r)
             \/ People!Deactivate(r) \/ People!Write(r) \/ People!Recount(r) \/ People!Undo(r)
      PROVE  Kept
  BY <1>4, <1>5, <1>9 DEF People!Accept, People!Resend, People!Activate, People!Role, People!Deactivate,
     People!Write, People!Recount, People!Undo
<1>10. ASSUME NEW u \in Users, NEW role \in Granted, People!Invite(u, role)
       PROVE  Kept
  BY <1>8, <1>10 DEF People!Invite
<1>11. Kept
  BY <1>6, <1>7, <1>8, <1>9, <1>10 DEF People!Next, People!vars
<1>. QED BY <1>11 DEF Kept

LEMMA RolesStep ==
    ASSUME AccountsAssumed, RolesInv, "deactivate" \notin Operations, [People!Next]_(People!vars)
    PROVE  RolesInv'
<1>1. PeopleInv'
  BY PeopleStep DEF RolesInv
<1>2. /\ user \in [Users -> Person] /\ user' \in [Users -> Person] /\ request \in [Requests -> Editor]
      /\ \A r \in Requests : request[r] \in Editor /\ CopyOK(request[r]) /\ request[r].op # "deactivate"
      /\ \A u \in Users : ~user[u].revoked /\ user'[u].role \in {"administrator", "operator"}
  BY <1>1 DEF RolesInv, PeopleInv, Person, People!Roles
<1>3. \A q \in Requests :
          /\ request'[q].pc \notin {"idle", "accept"} => ~request'[q].copy.revoked
          /\ request'[q].op # "deactivate"
  BY <1>2, RolesRequests
\* A request that leaves nobody is itself the one that puts its removal back.
<1>4. ASSUME NEW r \in Requests, People!Write(r)
      PROVE  RolesInv'
 <2>1. /\ request[r].op = "role" /\ request[r].role # request[r].copy.role /\ request[r].of \in Users
       /\ request[r].role \in {"administrator", "operator"} /\ request[r].pc = "write"
       /\ request[r].copy.role \in {"administrator", "operator"}
   BY <1>2, <1>4 DEF CopyOK, People!Write, Editor, Person, People!Roles
 <2>2. PICK a : a = [user[request[r].of] EXCEPT !.role = request[r].role]
   OBVIOUS
 <2>3. user' = [user EXCEPT ![request[r].of] = a]
   BY <1>4, <2>1, <2>2 DEF People!Write
 <2>4. a.role = request[r].role /\ a.active = user[request[r].of].active /\ a.revoked = user[request[r].of].revoked
   BY <1>2, <2>1, <2>2 DEF Person
 <2>5. \A u \in Users : ~user'[u].revoked /\ user'[u].active = user[u].active
   BY <1>2, <2>1, <2>3, <2>4
 <2>6. ASSUME People!Administrators' = {}
       PROVE  \E q \in Requests : PutsBackRole(q)'
  <3>1. CASE People!Administrators = {}
   <4>1. PICK w \in Requests : PutsBackRole(w)
     BY <3>1 DEF RolesInv
   <4>2. w # r /\ request'[w] = request[w] /\ request[w].of \in Users
     BY <1>2, <1>4, <2>1, <4>1 DEF PutsBackRole, People!Write, People!Done, People!Goto, People!Set, CopyOK
   <4>3. user'[request[w].of].active /\ user'[request[w].of].role # "administrator"
     BY <2>5, <2>6, <4>1, <4>2 DEF PutsBackRole, People!Administrators
   <4>. QED BY <1>2, <4>1, <4>2, <4>3 DEF PutsBackRole
  <3>2. CASE People!Administrators # {}
   <4>1. PICK u \in Users : user[u].role = "administrator" /\ user[u].active
     BY <3>2 DEF People!Administrators
   <4>2. user'[u].role # "administrator" /\ user'[u].active
     BY <2>5, <2>6, <4>1 DEF People!Administrators
   <4>3. u = request[r].of /\ request[r].role = "operator"
     BY <1>2, <2>1, <2>3, <2>4, <4>1, <4>2
   <4>4. People!Goto(r, "recount")
     BY <1>4, <2>1, <4>3 DEF People!Write, People!Removal
   <4>5. request'[r] = [request[r] EXCEPT !.pc = "recount"]
     BY <1>2, <4>4 DEF People!Goto, People!Set
   <4>6. /\ request'[r].pc = "recount" /\ request'[r].op = "role" /\ request'[r].role = "operator"
         /\ request'[r].of = u
     BY <1>2, <2>1, <4>3, <4>5 DEF Editor
   <4>. QED BY <1>2, <4>2, <4>6 DEF PutsBackRole
  <3>. QED BY <3>1, <3>2
 <2>. QED BY <1>1, <1>3, <2>5, <2>6 DEF RolesInv
<1>5. ASSUME NEW r \in Requests, People!Undo(r)
      PROVE  RolesInv'
 <2>1. /\ request[r].op = "role" /\ request[r].of \in Users /\ request[r].copy.role = "administrator"
       /\ request[r].pc = "undo"
   BY <1>2, <1>5 DEF CopyOK, People!Undo
 <2>2. PICK a : a = [user[request[r].of] EXCEPT !.role = "administrator"]
   OBVIOUS
 <2>3. user' = IF user[request[r].of].role = request[r].role THEN [user EXCEPT ![request[r].of] = a] ELSE user
   BY <1>2, <1>5, <2>1, <2>2 DEF People!Undo
 <2>4. a.role = "administrator" /\ a.active = user[request[r].of].active /\ a.revoked = user[request[r].of].revoked
   BY <1>2, <2>1, <2>2 DEF Person
 <2>5. \A u \in Users : ~user'[u].revoked /\ user'[u].active = user[u].active
   BY <1>2, <2>1, <2>3, <2>4
 <2>6. ASSUME People!Administrators' = {}
       PROVE  \E q \in Requests : PutsBackRole(q)'
  <3>1. People!Administrators = {}
    BY <1>2, <2>1, <2>3, <2>4, <2>5, <2>6 DEF People!Administrators
  <3>2. PICK w \in Requests : PutsBackRole(w)
    BY <3>1 DEF RolesInv
  <3>3. request[w].of \in Users /\ user'[request[w].of].active /\ user'[request[w].of].role # "administrator"
    BY <1>2, <2>5, <2>6, <3>2 DEF PutsBackRole, People!Administrators, CopyOK
  <3>4. w # r
    BY <1>2, <2>1, <2>3, <2>4, <3>2, <3>3 DEF PutsBackRole
  <3>5. request'[w] = request[w]
    BY <1>2, <1>5, <3>4 DEF People!Undo, People!Done, People!Set
  <3>. QED BY <1>2, <3>2, <3>3, <3>5 DEF PutsBackRole
 <2>. QED BY <1>1, <1>3, <2>5, <2>6 DEF RolesInv
\* Any other step leaves every administrator, and who puts one back.
<1>6. ASSUME \A v \in Users : /\ ~user'[v].revoked
                              /\ user[v].active => user'[v].active /\ user'[v].role = user[v].role,
             \A w \in Requests : PutsBackRole(w) /\ People!Administrators = {} =>
                 \/ request'[w] = request[w]
                 \/ request'[w] = [request[w] EXCEPT !.pc = "undo"]
      PROVE  RolesInv'
 <2>1. ASSUME People!Administrators' = {}
       PROVE  \E q \in Requests : PutsBackRole(q)'
  <3>1. People!Administrators = {}
    BY <1>6, <2>1 DEF People!Administrators
  <3>2. PICK w \in Requests : PutsBackRole(w)
    BY <3>1 DEF RolesInv
  <3>3. /\ request[w].of \in Users /\ request'[w].of = request[w].of /\ request'[w].pc \in {"recount", "undo"}
        /\ request'[w].op = request[w].op /\ request'[w].role = request[w].role
   <4>1. request[w] \in Editor /\ CopyOK(request[w]) /\ request[w].pc \in {"recount", "undo"}
     BY <1>2, <3>2 DEF PutsBackRole
   <4>2. CASE request'[w] = request[w]
     BY <4>1, <4>2 DEF CopyOK
   <4>3. CASE request'[w] = [request[w] EXCEPT !.pc = "undo"]
     BY <4>1, <4>3 DEF CopyOK, Editor
   <4>. QED BY <1>6, <3>1, <3>2, <4>2, <4>3
  <3>. QED BY <1>6, <3>2, <3>3 DEF PutsBackRole
 <2>. QED BY <1>1, <1>3, <1>6, <2>1 DEF RolesInv
<1>7. ASSUME NEW r \in Requests,
             \/ \E a, u \in Users, op \in Operations, role \in Granted : People!Read(r, a, op, u, role)
             \/ \E u \in Users : People!Present(r, u)
             \/ People!Accept(r) \/ People!Resend(r) \/ People!Activate(r) \/ People!Role(r) \/ People!Recount(r)
      PROVE  RolesInv'
 <2>1. \A v \in Users : /\ ~user'[v].revoked
                        /\ user[v].active => user'[v].active /\ user'[v].role = user[v].role
   BY <1>7, RolesQuiet
 <2>2. ASSUME NEW w \in Requests, PutsBackRole(w), People!Administrators = {}
       PROVE  request'[w] = request[w] \/ request'[w] = [request[w] EXCEPT !.pc = "undo"]
  <3>1. CASE w # r
    BY <1>2, <1>7, <3>1 DEF People!Read, People!Present, People!Accept, People!Resend, People!Activate,
       People!Role, People!Recount, People!Done, People!Goto, People!Set
  <3>2. CASE w = r
   <4>1. request[r].pc \in {"recount", "undo"} /\ People!Idle.pc = "idle"
     BY <2>2, <3>2, PeopleValues DEF PutsBackRole
   <4>2. People!Recount(r)
     BY <1>7, <4>1 DEF People!Read, People!Present, People!Accept, People!Resend, People!Activate, People!Role
   <4>. QED BY <1>2, <2>2, <3>2, <4>2 DEF People!Recount, People!Goto, People!Set
  <3>. QED BY <3>1, <3>2
 <2>. QED BY <1>6, <2>1, <2>2
<1>8. ASSUME NEW u \in Users, NEW role \in Granted, People!Invite(u, role)
      PROVE  RolesInv'
 <2>1. request' = request
   BY <1>8 DEF People!Invite
 <2>2. PICK a : a = [People!NoAccount EXCEPT !.role = role, !.status = "invited", !.token = 1, !.issued = 1]
   OBVIOUS
 <2>3. ~a.revoked
   BY <2>2 DEF People!NoAccount, People!Account
 <2>4. user' = [user EXCEPT ![u] = a] /\ ~user[u].active
   BY <1>8, <2>2 DEF People!Invite, RolesInv, PeopleInv, Honest
 <2>5. \A v \in Users : /\ ~user'[v].revoked
                        /\ user[v].active => user'[v].active /\ user'[v].role = user[v].role
   BY <1>2, <2>3, <2>4
 <2>. QED BY <1>6, <2>1, <2>5
<1>9. CASE UNCHANGED People!vars
 <2>1. \A v \in Users : /\ ~user'[v].revoked
                        /\ user[v].active => user'[v].active /\ user'[v].role = user[v].role
   BY <1>2, <1>9 DEF People!vars
 <2>. QED BY <1>6, <1>9, <2>1 DEF People!vars
<1>10. ASSUME NEW r \in Requests, People!Deactivate(r)
       PROVE  FALSE
  BY <1>2, <1>10 DEF CopyOK, People!Deactivate
<1>. QED BY <1>4, <1>5, <1>7, <1>8, <1>9, <1>10 DEF People!Next

\* Removals of administrators by deactivation alone.
\* Founders are the only administrators, and were never invited.
Founded(a) ==
    a.role = "administrator" /\ a.status \in {"active", "deactivated"} /\ ~a.revoked /\ a.token = 0

\* A request that will put back a deactivation that left nobody.
PutsBackActive(r) ==
    LET l == request[r] IN
    /\ l.pc \in {"recount", "undo"} /\ l.of \in Founders
    /\ ~user[l.of].active /\ user[l.of].status = "deactivated"

FoundersKnown(l) ==
    /\ l.op # "role"
    /\ l.pc # "idle" /\ l.of \in Founders =>
           /\ l.pc # "accept" /\ l.copy.role = "administrator" /\ ~l.copy.revoked
           /\ l.copy.status \in {"active", "deactivated"}

DutyInv ==
    /\ PeopleInv
    /\ \A u \in Founders : Founded(user[u])
    /\ \A u \in Users \ Founders : user[u].role # "administrator"
    /\ \A r \in Requests : FoundersKnown(request[r])
    /\ People!Administrators = {} => \E r \in Requests : PutsBackActive(r)

LEMMA DutyInit ==
    ASSUME AccountsAssumed, Founders # {}, People!Init
    PROVE  DutyInv
<1>1. PeopleInv
  BY PeopleInit
<1>2. PICK u \in Founders : u \in Users
  BY DEF AccountsAssumed
<1>3. u \in People!Administrators
  BY <1>2 DEF People!Administrators, People!Init, People!Account
<1>4. \A v \in Founders : Founded(user[v])
  BY DEF AccountsAssumed, Founded, People!Init, People!Account
<1>5. \A v \in Users \ Founders : user[v].role # "administrator"
  BY DEF People!Init, People!NoAccount, People!Account
<1>6. \A r \in Requests : FoundersKnown(request[r])
  BY DEF FoundersKnown, People!Init, People!Idle
<1>. QED BY <1>1, <1>3, <1>4, <1>5, <1>6 DEF DutyInv

\* What a step but the write makes of a founder leaves it as it was or active.
LEMMA DutyUsers ==
    ASSUME AccountsAssumed, DutyInv, "administrator" \notin Granted, [People!Next]_(People!vars)
    PROVE  /\ \A u \in Founders :
                  /\ Founded(user'[u])
                  /\ user'[u] = user[u] \/ user'[u].active \/ \E r \in Requests : People!Write(r)
           /\ \A u \in Users \ Founders : user'[u].role # "administrator"
<1>. DEFINE Fine == /\ \A u \in Founders :
                          /\ Founded(user'[u])
                          /\ user'[u] = user[u] \/ user'[u].active \/ \E r \in Requests : People!Write(r)
                    /\ \A u \in Users \ Founders : user'[u].role # "administrator"
<1>1. /\ user \in [Users -> Person] /\ Founders \subseteq Users
      /\ \A u \in Users : user[u] \in Person
      /\ \A u \in Founders : Founded(user[u])
      /\ \A u \in Users \ Founders : user[u].role # "administrator"
      /\ \A r \in Requests : request[r] \in Editor /\ CopyOK(request[r]) /\ FoundersKnown(request[r])
  BY DEF DutyInv, PeopleInv, AccountsAssumed
<1>2. ASSUME NEW u \in Users, NEW a, user' = [user EXCEPT ![u] = a],
             u \in Founders => Founded(a) /\ (a.active \/ \E r \in Requests : People!Write(r)),
             u \notin Founders => a.role # "administrator"
      PROVE  Fine
  BY <1>1, <1>2
<1>3. ASSUME user' = user
      PROVE  Fine
  BY <1>1, <1>3
<1>. HIDE DEF Fine
<1>4. ASSUME NEW u \in Users, NEW role \in Granted, People!Invite(u, role)
      PROVE  Fine
 <2>1. PICK a : a = [People!NoAccount EXCEPT !.role = role, !.status = "invited", !.token = 1, !.issued = 1]
   OBVIOUS
 <2>2. a.role # "administrator"
   BY <2>1 DEF People!NoAccount, People!Account
 <2>3. user' = [user EXCEPT ![u] = a] /\ u \notin Founders
   BY <1>1, <1>4, <2>1 DEF People!Invite, Founded
 <2>. QED BY <1>2, <2>2, <2>3
<1>5. ASSUME NEW r \in Requests, People!Accept(r)
      PROVE  Fine
 <2>1. PICK u : u = request[r].of
   OBVIOUS
 <2>2. PICK a : a = [user[u] EXCEPT !.token = 0, !.status = "active", !.active = TRUE, !.chosen = TRUE]
   OBVIOUS
 <2>3. u \in Users /\ u \notin Founders
   BY <1>1, <1>5, <2>1 DEF CopyOK, FoundersKnown, People!Accept
 <2>4. a.role = user[u].role
   BY <1>1, <2>2, <2>3 DEF Person
 <2>5. user' = user \/ user' = [user EXCEPT ![u] = a]
   BY <1>5, <2>1, <2>2 DEF People!Accept
 <2>. QED BY <1>1, <1>2, <1>3, <2>3, <2>4, <2>5
<1>6. ASSUME NEW r \in Requests, People!Resend(r)
      PROVE  Fine
 <2>1. PICK u : u = request[r].of
   OBVIOUS
 <2>2. PICK a : a = [user[u] EXCEPT !.token = user[u].issued + 1, !.issued = @ + 1]
   OBVIOUS
 <2>3. PICK b : b = [user[u] EXCEPT !.token = user[u].issued + 1, !.issued = @ + 1, !.revoked = FALSE,
                                    !.status = "invited", !.active = FALSE]
   OBVIOUS
 <2>4. u \in Users /\ (u \in Founders => user' = user)
   BY <1>1, <1>6, <2>1 DEF CopyOK, FoundersKnown, People!Resend
 <2>5. a.role = user[u].role /\ b.role = user[u].role
   BY <1>1, <2>2, <2>3, <2>4 DEF Person
 <2>6. user' = user \/ user' = [user EXCEPT ![u] = a] \/ user' = [user EXCEPT ![u] = b]
   BY <1>6, <2>1, <2>2, <2>3 DEF People!Resend
 <2>. QED BY <1>1, <1>2, <1>3, <2>4, <2>5, <2>6
<1>7. ASSUME NEW r \in Requests, People!Activate(r)
      PROVE  Fine
 <2>1. PICK u : u = request[r].of
   OBVIOUS
 <2>2. PICK a : a = [user[u] EXCEPT !.active = TRUE, !.status = "active"]
   OBVIOUS
 <2>3. u \in Users
   BY <1>1, <1>7, <2>1 DEF CopyOK, People!Activate
 <2>4. a.role = user[u].role /\ a.active /\ a.status = "active" /\ a.revoked = user[u].revoked
       /\ a.token = user[u].token
   BY <1>1, <2>2, <2>3 DEF Person
 <2>5. user' = user \/ user' = [user EXCEPT ![u] = a]
   BY <1>1, <1>7, <2>1, <2>2, <2>3 DEF People!Activate
 <2>. QED BY <1>1, <1>2, <1>3, <2>3, <2>4, <2>5 DEF Founded
<1>8. ASSUME NEW r \in Requests, People!Deactivate(r)
      PROVE  Fine
 <2>1. PICK u : u = request[r].of
   OBVIOUS
 <2>2. PICK a : a = [user[u] EXCEPT !.active = FALSE, !.status = "deactivated", !.token = 0, !.revoked = TRUE]
   OBVIOUS
 <2>3. u \in Users /\ (u \in Founders => user' = user)
   BY <1>1, <1>8, <2>1 DEF CopyOK, FoundersKnown, People!Deactivate
 <2>4. a.role = user[u].role
   BY <1>1, <2>2, <2>3 DEF Person
 <2>5. user' = user \/ user' = [user EXCEPT ![u] = a]
   BY <1>8, <2>1, <2>2 DEF People!Deactivate
 <2>. QED BY <1>1, <1>2, <1>3, <2>3, <2>4, <2>5
<1>9. ASSUME NEW r \in Requests, People!Write(r) \/ People!Undo(r)
      PROVE  Fine
 <2>1. PICK u : u = request[r].of
   OBVIOUS
 <2>2. PICK off : off = [user[u] EXCEPT !.active = FALSE, !.status = "deactivated"]
   OBVIOUS
 <2>3. PICK on : on = [user[u] EXCEPT !.active = TRUE, !.status = request[r].copy.status]
   OBVIOUS
 <2>4. u \in Users /\ request[r].op = "deactivate"
       /\ (u \in Founders => request[r].copy.status \in {"active", "deactivated"})
   BY <1>1, <1>9, <2>1 DEF CopyOK, FoundersKnown, People!Write, People!Undo
 <2>5. /\ off.role = user[u].role /\ off.status = "deactivated" /\ off.token = user[u].token
       /\ off.revoked = user[u].revoked
       /\ on.role = user[u].role /\ on.status = request[r].copy.status /\ on.token = user[u].token
       /\ on.revoked = user[u].revoked /\ on.active
   BY <1>1, <2>2, <2>3, <2>4 DEF Person
 <2>6. CASE People!Write(r)
  <3>1. user' = [user EXCEPT ![u] = off]
    BY <1>1, <2>1, <2>2, <2>4, <2>6 DEF People!Write
  <3>. QED BY <1>1, <1>2, <2>4, <2>5, <2>6, <3>1 DEF Founded
 <2>7. CASE People!Undo(r)
  <3>1. user' = user \/ user' = [user EXCEPT ![u] = on]
    BY <1>1, <2>1, <2>3, <2>4, <2>7 DEF People!Undo
  <3>. QED BY <1>1, <1>2, <1>3, <2>4, <2>5, <3>1 DEF Founded
 <2>. QED BY <1>9, <2>6, <2>7
<1>10. ASSUME NEW r \in Requests,
              \/ \E a, u \in Users, op \in Operations, role \in Granted : People!Read(r, a, op, u, role)
              \/ \E u \in Users : People!Present(r, u)
              \/ People!Role(r) \/ People!Recount(r)
       PROVE  Fine
  BY <1>3, <1>10 DEF People!Read, People!Present, People!Role, People!Recount
<1>11. Fine
  BY <1>3, <1>4, <1>5, <1>6, <1>7, <1>8, <1>9, <1>10 DEF People!Next, People!vars
<1>. QED BY <1>11 DEF Fine

LEMMA DutyRequests ==
    ASSUME AccountsAssumed, DutyInv, "role" \notin Operations, [People!Next]_(People!vars)
    PROVE  \A q \in Requests : FoundersKnown(request'[q])
<1>. DEFINE Kept == \A q \in Requests : FoundersKnown(request'[q])
<1>1. /\ request \in [Requests -> Editor] /\ \A u \in Founders : Founded(user[u])
      /\ \A r \in Requests : request[r] \in Editor /\ FoundersKnown(request[r])
  BY DEF DutyInv, PeopleInv
<1>2. ASSUME NEW r \in Requests, NEW l, request' = [request EXCEPT ![r] = l], FoundersKnown(l)
      PROVE  Kept
  BY <1>1, <1>2
<1>. HIDE DEF Kept
<1>3. ASSUME NEW r \in Requests, People!Done(r)
      PROVE  Kept
 <2>1. FoundersKnown(People!Idle)
   BY DEF FoundersKnown, People!Idle
 <2>. QED BY <1>2, <1>3, <2>1 DEF People!Done, People!Set
<1>4. ASSUME NEW r \in Requests, NEW pc \in {"write", "recount", "undo"}, People!Goto(r, pc),
             request[r].pc # "idle"
      PROVE  Kept
 <2>1. PICK l : l = [request[r] EXCEPT !.pc = pc]
   OBVIOUS
 <2>2. l.op = request[r].op /\ l.copy = request[r].copy /\ l.of = request[r].of /\ l.pc = pc
   BY <1>1, <2>1 DEF Editor
 <2>3. FoundersKnown(l)
   BY <1>1, <1>4, <2>2 DEF FoundersKnown
 <2>. QED BY <1>2, <1>4, <2>1, <2>3 DEF People!Goto, People!Set
<1>5. ASSUME NEW r \in Requests, NEW a \in Users, NEW u \in Users, NEW op \in Operations, NEW role \in Granted,
             op # "accept", People!Read(r, a, op, u, role)
      PROVE  Kept
 <2>1. PICK l : l = [pc |-> op, op |-> op, of |-> u, actor |-> a, role |-> role, token |-> 0, copy |-> user[u]]
   OBVIOUS
 <2>2. FoundersKnown(l)
   BY <1>1, <1>5, <2>1 DEF FoundersKnown, Founded
 <2>. QED BY <1>2, <1>5, <2>1, <2>2 DEF People!Read, People!Set
<1>6. ASSUME NEW r \in Requests, NEW u \in Users, People!Present(r, u)
      PROVE  Kept
 <2>1. PICK l : l = [People!Idle EXCEPT !.pc = "accept", !.of = u, !.token = user[u].token]
   OBVIOUS
 <2>2. l.pc = "accept" /\ l.op = "none" /\ l.of = u
   BY <2>1 DEF People!Idle
 <2>3. FoundersKnown(l)
   BY <1>1, <1>6, <2>2 DEF FoundersKnown, Founded, People!Present
 <2>. QED BY <1>2, <1>6, <2>1, <2>3 DEF People!Present, People!Set
<1>7. ASSUME UNCHANGED request
      PROVE  Kept
  BY <1>1, <1>7 DEF Kept
<1>8. ASSUME NEW r \in Requests,
             \/ People!Accept(r) \/ People!Resend(r) \/ People!Activate(r) \/ People!Role(r)
             \/ People!Deactivate(r) \/ People!Write(r) \/ People!Recount(r) \/ People!Undo(r)
      PROVE  Kept
  BY <1>3, <1>4, <1>8 DEF People!Accept, People!Resend, People!Activate, People!Role, People!Deactivate,
     People!Write, People!Recount, People!Undo
<1>9. ASSUME NEW u \in Users, NEW role \in Granted, People!Invite(u, role)
      PROVE  Kept
  BY <1>7, <1>9 DEF People!Invite
<1>10. Kept
  BY <1>5, <1>6, <1>7, <1>8, <1>9 DEF AccountsAssumed, People!Next, People!vars
<1>. QED BY <1>10 DEF Kept

LEMMA DutyStep ==
    ASSUME AccountsAssumed, DutyInv, "role" \notin Operations, "administrator" \notin Granted,
           [People!Next]_(People!vars)
    PROVE  DutyInv'
<1>1. PeopleInv'
  BY PeopleStep DEF DutyInv
<1>2. /\ \A u \in Founders :
             /\ Founded(user'[u])
             /\ user'[u] = user[u] \/ user'[u].active \/ \E r \in Requests : People!Write(r)
      /\ \A u \in Users \ Founders : user'[u].role # "administrator"
  BY DutyUsers
<1>3. \A q \in Requests : FoundersKnown(request'[q])
  BY DutyRequests
<1>4. /\ user \in [Users -> Person] /\ request \in [Requests -> Editor] /\ Founders \subseteq Users
      /\ \A r \in Requests : request[r] \in Editor /\ CopyOK(request[r]) /\ FoundersKnown(request[r])
      /\ \A u \in Users : user[u] \in Person
  BY DEF DutyInv, PeopleInv, AccountsAssumed
<1>5. /\ \A u : u \in People!Administrators' <=> u \in Founders /\ user'[u].active
      /\ \A u : u \in People!Administrators <=> u \in Founders /\ user[u].active
  BY <1>2, <1>4 DEF People!Administrators, DutyInv, Founded
<1>6. ASSUME People!Administrators' = {}
      PROVE  \E q \in Requests : PutsBackActive(q)'
 <2>1. ASSUME NEW r \in Requests, People!Write(r)
       PROVE  \E q \in Requests : PutsBackActive(q)'
  <3>1. PICK u : u = request[r].of
    OBVIOUS
  <3>2. PICK off : off = [user[u] EXCEPT !.active = FALSE, !.status = "deactivated"]
    OBVIOUS
  <3>3. u \in Users /\ request[r].op = "deactivate" /\ request[r].pc = "write"
        /\ (u \in Founders => request[r].copy.role = "administrator")
    BY <1>4, <2>1, <3>1 DEF CopyOK, FoundersKnown, People!Write
  <3>4. user' = [user EXCEPT ![u] = off]
    BY <2>1, <3>1, <3>2, <3>3 DEF People!Write
  <3>5. ~off.active /\ off.status = "deactivated"
    BY <1>4, <3>2, <3>3 DEF Person
  <3>6. CASE People!Administrators = {}
   <4>1. PICK w \in Requests : PutsBackActive(w)
     BY <3>6 DEF DutyInv
   <4>2. w # r /\ request'[w] = request[w] /\ request[w].of \in Founders
     BY <1>4, <2>1, <3>3, <4>1 DEF PutsBackActive, People!Write, People!Done, People!Goto, People!Set
   <4>3. ~user'[request[w].of].active /\ user'[request[w].of].status = "deactivated"
     BY <1>4, <3>4, <3>5, <4>1, <4>2 DEF PutsBackActive
   <4>. QED BY <4>1, <4>2, <4>3 DEF PutsBackActive
  <3>7. CASE People!Administrators # {}
   <4>1. PICK v \in Founders : user[v].active
     BY <1>5, <3>7
   <4>2. ~user'[v].active
     BY <1>5, <1>6, <4>1
   <4>3. v = u
     BY <1>4, <3>3, <3>4, <4>1, <4>2
   <4>4. People!Goto(r, "recount")
     BY <2>1, <3>1, <3>3, <4>1, <4>3 DEF People!Write, People!Removal
   <4>5. request'[r] = [request[r] EXCEPT !.pc = "recount"]
     BY <1>4, <4>4 DEF People!Goto, People!Set
   <4>6. request'[r].pc = "recount" /\ request'[r].of = u
     BY <1>4, <3>1, <4>5 DEF Editor
   <4>7. ~user'[u].active /\ user'[u].status = "deactivated"
     BY <1>4, <3>3, <3>4, <3>5
   <4>. QED BY <4>1, <4>3, <4>6, <4>7 DEF PutsBackActive
  <3>. QED BY <3>6, <3>7
 <2>2. ASSUME \A r \in Requests : ~People!Write(r)
       PROVE  \E q \in Requests : PutsBackActive(q)'
  <3>1. People!Administrators = {}
    BY <1>2, <1>5, <1>6, <2>2
  <3>2. PICK w \in Requests : PutsBackActive(w)
    BY <3>1 DEF DutyInv
  <3>3. PICK u : u = request[w].of
    OBVIOUS
  <3>4. u \in Founders /\ ~user'[u].active /\ user'[u].status = "deactivated" /\ user' [u] = user[u]
        /\ request[w].pc \in {"recount", "undo"}
    BY <1>2, <1>5, <1>6, <2>2, <3>2, <3>3 DEF PutsBackActive
  <3>5. ~People!Undo(w)
   <4>1. PICK on : on = [user[u] EXCEPT !.active = TRUE, !.status = request[w].copy.status]
     OBVIOUS
   <4>2. on.active
     BY <1>4, <3>4, <4>1 DEF Person
   <4>3. request[w].op = "deactivate" /\ ~user[u].active /\ user[u].status = "deactivated"
     BY <1>4, <3>2, <3>3, <3>4 DEF CopyOK, FoundersKnown, PutsBackActive
   <4>4. People!Undo(w) => user' = [user EXCEPT ![u] = on]
     BY <1>4, <3>3, <3>4, <4>1, <4>3 DEF People!Undo
   <4>. QED BY <1>4, <3>4, <4>2, <4>4
  <3>6. request'[w] = request[w] \/ request'[w] = [request[w] EXCEPT !.pc = "undo"]
   <4>1. CASE UNCHANGED request
     BY <4>1
   <4>2. ASSUME NEW r \in Requests, r # w,
                \/ \E a, v \in Users, op \in Operations, role \in Granted : People!Read(r, a, op, v, role)
                \/ \E v \in Users : People!Present(r, v)
                \/ People!Accept(r) \/ People!Resend(r) \/ People!Activate(r) \/ People!Role(r)
                \/ People!Deactivate(r) \/ People!Recount(r) \/ People!Undo(r)
         PROVE  request'[w] = request[w]
     BY <1>4, <4>2 DEF People!Read, People!Present, People!Accept, People!Resend, People!Activate,
        People!Role, People!Deactivate, People!Recount, People!Undo, People!Done, People!Goto, People!Set
   <4>3. ASSUME \/ \E a, v \in Users, op \in Operations, role \in Granted : People!Read(w, a, op, v, role)
                \/ \E v \in Users : People!Present(w, v)
                \/ People!Accept(w) \/ People!Resend(w) \/ People!Activate(w) \/ People!Role(w)
                \/ People!Deactivate(w)
         PROVE  FALSE
     BY <3>4, <4>3, PeopleValues DEF People!Read, People!Present, People!Accept, People!Resend,
        People!Activate, People!Role, People!Deactivate
   <4>4. CASE People!Recount(w)
     BY <1>4, <3>1, <4>4 DEF People!Recount, People!Goto, People!Set
   <4>5. ASSUME NEW v \in Users, NEW role \in Granted, People!Invite(v, role)
         PROVE  UNCHANGED request
     BY <4>5 DEF People!Invite
   <4>6. CASE UNCHANGED People!vars
     BY <4>6 DEF People!vars
   <4>. QED BY <2>2, <3>5, <4>1, <4>2, <4>3, <4>4, <4>5, <4>6 DEF People!Next
  <3>7. request'[w].of = u /\ request'[w].pc \in {"recount", "undo"}
   <4>1. request[w] \in Editor
     BY <1>4
   <4>. QED BY <3>3, <3>4, <3>6, <4>1 DEF Editor
  <3>. QED BY <3>4, <3>7 DEF PutsBackActive
 <2>. QED BY <2>1, <2>2
<1>. QED BY <1>1, <1>2, <1>3, <1>6 DEF DutyInv

\* An account that can sign in has an owner who chose its password, in any order
\* of inviting, revoking, reopening and accepting (accept_invitation, activate).
THEOREM ActiveAccountsAreOwned ==
    ASSUME AccountsAssumed
    PROVE  People!Spec => []People!ActiveChosePassword
<1>1. PeopleInv => People!ActiveChosePassword
  BY DEF PeopleInv, Honest, People!ActiveChosePassword
<1>. QED BY <1>1, PeopleInit, PeopleStep, PTL DEF People!Spec

\* Removals that race leave an administrator once they are answered: role changes
\* of any accounts, or deactivations where only founders are administrators
\* (_guard_administrator_removal, _keep_an_administrator).
THEOREM AdministratorsRemain ==
    ASSUME AccountsAssumed, Founders # {},
           \/ "deactivate" \notin Operations
           \/ "role" \notin Operations /\ "administrator" \notin Granted
    PROVE  People!Spec => []People!AnAdministratorRemains
<1>1. RolesInv => People!AnAdministratorRemains
  BY DEF RolesInv, PutsBackRole, People!AnAdministratorRemains
<1>2. DutyInv => People!AnAdministratorRemains
  BY DEF DutyInv, PutsBackActive, People!AnAdministratorRemains
<1>3. CASE "deactivate" \notin Operations
  BY <1>1, <1>3, RolesInit, RolesStep, PTL DEF People!Spec
<1>4. CASE "role" \notin Operations /\ "administrator" \notin Granted
  BY <1>2, <1>4, DutyInit, DutyStep, PTL DEF People!Spec
<1>. QED BY <1>3, <1>4
=============================================================================
