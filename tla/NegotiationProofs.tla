-------------------------- MODULE NegotiationProofs --------------------------
(***************************************************************************)
(* Proofs about Negotiation for every configuration, every set of          *)
(* mechanisms a server may offer and any number of attempts.               *)
(***************************************************************************)
EXTENDS Negotiation, WellFoundedInduction, TLAPS

PCs == {"idle", "dial", "open", "openTLS", "choose", "select", "openAuthed", "checkBind",
        "checkSession", "componentOpen", "fail", "failed", "finish"} \cup Waiting
Unauthed == {"idle", "dial", "open", "choose", "starttls", "handshake", "openTLS", "select",
             "componentOpen"}
Authed == {"openAuthed", "checkBind", "bind", "checkSession", "session"}
HasBind == {"bind", "checkSession", "session"}
Chosen == {"simple", "challenge", "final"}

(* Nothing is sent, and nobody authenticated, before authenticate and       *)
(* connectComponent send something.                                         *)
SilentInv == pc \in Unauthed => sent = {} /\ authed = FALSE

(* Connect holds a connection exactly while it negotiates, and a connection *)
(* of a client with direct TLS is never in the clear.                       *)
ConnInv ==
    /\ pc \in {"idle", "dial", "failed"} <=> conn = "none"
    /\ raw.directTLS => conn # "clear"
    /\ pc = "openTLS" => conn = "tls"

(* A component takes its own way through Connect.                           *)
RouteInv ==
    /\ raw.component => pc \in {"idle", "dial", "componentOpen", "component", "fail", "failed",
                                "finish"}
    /\ ~raw.component => pc \notin {"componentOpen", "component"}

(* Where the features decide, they were read on the present stream, and the *)
(* stream on which a mechanism is chosen is in the clear only by the        *)
(* application's wish and for want of STARTTLS.                             *)
ClearByChoice == raw.insecure /\ ~raw.requireTLS /\ ~raw.directTLS
FeaturesInv ==
    /\ pc \in {"choose", "select", "checkBind"} => read = [conn |-> conn, authed |-> authed]
    /\ pc = "select" /\ conn = "clear" => ClearByChoice /\ ~features.starttls

(* What has been sent by now.                                               *)
SentInv ==
    /\ pc \in Authed => authed = TRUE
    /\ pc \in HasBind => \E m \in sent : m.what = "bind" /\ m.conn = conn
    /\ pc \in {"checkSession", "session"} => jid = attempt
    /\ pc = "component" => \E m \in sent : m.what = "handshake"

(* The inductive invariant.                                                 *)
NInv == /\ TypeOK /\ SilentInv /\ ConnInv /\ RouteInv /\ FeaturesInv /\ SentInv
        /\ AuthOverTLS /\ FeaturesAreCurrent /\ BestMechanism /\ ReadyIsBound

-----------------------------------------------------------------------------
(* The operators of the module. *)

(* A set of natural numbers has a smallest member.                          *)
LEMMA NatMin == ASSUME NEW T, T \subseteq Nat, T # {} PROVE \E x \in T : \A y \in T : x <= y
<1> DEFINE R == {ss \in Nat \X Nat : ss[1] < ss[2]}
<1>1. IsWellFoundedOn(R, Nat)
  BY NatLessThanWellFounded DEF OpToRel
<1> HIDE DEF R
<1>2. PICK x \in T : \A y \in T : ~ (<<y, x>> \in R)
  BY <1>1, WFMin
<1>3. ASSUME NEW y \in T PROVE x <= y
  <2>1. x \in Nat /\ y \in Nat /\ ~ (<<y, x>> \in R)
    BY <1>2
  <2>2. y < x => <<y, x>> \in R
    BY <2>1 DEF R
  <2> QED
    BY <2>1, <2>2
<1> QED
  BY <1>3

(* What Config.normalized changes and what it keeps (config.go:52-90).      *)
LEMMA NormalizedKeeps ==
  ASSUME raw \in Config
  PROVE  /\ cfg.directTLS = raw.directTLS /\ cfg.insecure = raw.insecure
         /\ cfg.component = raw.component
         /\ cfg.requireTLS = (raw.requireTLS \/ ~(raw.insecure \/ raw.directTLS \/ raw.component))
         /\ cfg.mechanisms = IF raw.mechanisms = <<>> THEN DefaultMechanisms ELSE raw.mechanisms
BY DEF cfg, Normalized, Config

(* The mechanisms in force are a list.                                      *)
LEMMA MechanismsAreList ==
  ASSUME raw \in Config
  PROVE  Len(cfg.mechanisms) \in Nat /\ DOMAIN cfg.mechanisms = 1..Len(cfg.mechanisms)
<1>1. cfg.mechanisms = DefaultMechanisms \/ cfg.mechanisms = raw.mechanisms
  BY NormalizedKeeps
<1>2. DefaultMechanisms \in Seq({"SCRAM-SHA-256", "SCRAM-SHA-1", "EXTERNAL", "PLAIN", "ANONYMOUS"})
  BY DEF DefaultMechanisms
<1>3. raw.mechanisms \in Seq(STRING)
  BY PreferencesAssumption DEF Config
<1> QED
  BY <1>1, <1>2, <1>3

(* selectSASLMechanism returns the first of the preferred mechanisms that   *)
(* is offered and usable, or none if there is no such one (sasl.go:31-61).  *)
LEMMA SelectsFirst ==
  ASSUME NEW A, NEW b, raw \in Config
  PROVE  \/ SelectMechanism(A, b) = "none"
         \/ \E i \in DOMAIN cfg.mechanisms :
               /\ SelectMechanism(A, b) = cfg.mechanisms[i]
               /\ cfg.mechanisms[i] \in A /\ Usable(cfg.mechanisms[i], b)
               /\ \A j \in 1..(i-1) : ~(cfg.mechanisms[j] \in A /\ Usable(cfg.mechanisms[j], b))
<1> DEFINE s == cfg.mechanisms
           I == {i \in 1..Len(s) : s[i] \in A /\ Usable(s[i], b)}
           k == IF I # {} THEN Min(I) ELSE 0
<1>1. SelectMechanism(A, b) = IF k = 0 THEN "none" ELSE s[k]
  BY DEF SelectMechanism, SelectInSeq
<1>2. DOMAIN s = 1..Len(s) /\ Len(s) \in Nat
  BY MechanismsAreList
<1>3. CASE I = {}
  BY <1>1, <1>3
<1>4. CASE I # {}
  <2> DEFINE m == Min(I)
  <2>1. m \in I /\ \A y \in I : m <= y
    <3>1. I \subseteq Nat
      OBVIOUS
    <3> HIDE DEF I
    <3>2. \E x \in I : \A y \in I : x <= y
      BY <1>4, <3>1, NatMin
    <3> QED
      BY <3>2 DEF Min
  <2>2. k = m
    BY <1>4
  <2> HIDE DEF m
  <2>3. m \in 1..Len(s) /\ s[m] \in A /\ Usable(s[m], b)
    BY <2>1
  <2>4. \A j \in 1..(m-1) : ~(s[j] \in A /\ Usable(s[j], b))
    BY <1>2, <2>1, <2>3
  <2> HIDE DEF s, I, k
  <2>5. SelectMechanism(A, b) = s[m]
    BY <1>1, <1>2, <2>2, <2>3
  <2> QED
    BY <1>2, <2>3, <2>4, <2>5 DEF s
<1> QED
  BY <1>3, <1>4

(* Only the mechanisms the client implements are usable (sasl.go:62-80).    *)
LEMMA UsableIsSupported == ASSUME NEW m, NEW b, Usable(m, b) PROVE m \in Supported /\ m # "none"
<1>1. m \in {"PLAIN", "EXTERNAL", "ANONYMOUS", "SCRAM-SHA-256", "SCRAM-SHA-1"}
  BY DEF Usable, SCRAM
<1>2. /\ DefaultMechanisms[1] = "SCRAM-SHA-256" /\ DefaultMechanisms[2] = "SCRAM-SHA-1"
      /\ DefaultMechanisms[3] = "EXTERNAL" /\ DefaultMechanisms[4] = "PLAIN"
      /\ DefaultMechanisms[5] = "ANONYMOUS"
  BY DEF DefaultMechanisms
<1> QED
  BY <1>1, <1>2 DEF Supported

-----------------------------------------------------------------------------
(* The steps. *)

(* A new client.                                                            *)
LEMMA InitNInv == Init => NInv
<1> SUFFICES ASSUME Init PROVE NInv
  OBVIOUS
<1> USE BoundsAssumption DEF Init
<1>1. TypeOK
  <2>1. read \in [conn : {"none", "clear", "tls"}, authed : BOOLEAN]
    OBVIOUS
  <2>2. jid \in 0..MaxAttempts /\ attempt \in 0..MaxAttempts /\ skipped \in 0..MaxSkip
    OBVIOUS
  <2>3. mech \in Supported \cup {"none"} /\ features \in Features \cup {Nothing}
    OBVIOUS
  <2>4. sent \subseteq [what : {"auth", "bind", "handshake"}, conn : {"clear", "tls"},
                       mech : Supported \cup {"none"}, offered : BOOLEAN]
    OBVIOUS
  <2> QED
    BY <2>1, <2>2, <2>3, <2>4, Zenon DEF TypeOK
<1>2. SilentInv /\ ConnInv /\ RouteInv /\ FeaturesInv /\ SentInv
  BY DEF SilentInv, ConnInv, RouteInv, FeaturesInv, SentInv, Authed, HasBind
<1>3. AuthOverTLS /\ FeaturesAreCurrent /\ ReadyIsBound
  BY DEF AuthOverTLS, FeaturesAreCurrent, ReadyIsBound
<1>4. BestMechanism
  BY Zenon DEF BestMechanism
<1> QED
  BY <1>1, <1>2, <1>3, <1>4 DEF NInv

(* As long as nothing more is sent, what was sent stays legal: features     *)
(* change only before anything is sent or after authentication.             *)
LEMMA SentKept ==
  ASSUME NInv, UNCHANGED <<raw, sent>>,
         \/ UNCHANGED <<features, authed>> \/ sent = {} \/ authed' = TRUE
  PROVE  AuthOverTLS' /\ FeaturesAreCurrent'
<1>1. AuthOverTLS /\ FeaturesAreCurrent
  BY DEF NInv
<1>2. AuthOverTLS'
  BY <1>1 DEF AuthOverTLS
<1>3. FeaturesAreCurrent'
  BY <1>1 DEF FeaturesAreCurrent
<1> QED
  BY <1>2, <1>3

(* The mechanism in use stays the best one while its exchange goes on.      *)
LEMMA MechanismKept ==
  ASSUME NInv, pc' \in Chosen => pc \in Chosen /\ UNCHANGED <<raw, features, conn, mech>>
  PROVE  BestMechanism'
<1>1. BestMechanism
  BY DEF NInv
<1>2. CASE pc' \notin Chosen
  BY <1>2, Zenon DEF BestMechanism, Chosen
<1>3. CASE pc' \in Chosen
  <2>1. UNCHANGED <<raw, features, conn, mech>> /\ pc \in Chosen
    BY <1>3
  <2>2. cfg' = cfg
    BY <2>1 DEF cfg, Normalized
  <2> QED
    BY <1>1, <2>1, <2>2 DEF BestMechanism, Chosen, Usable
<1> QED
  BY <1>2, <1>3
(* What the steps other than those that send something do with the state    *)
(* outside the four properties.                                             *)
Structure == SilentInv /\ ConnInv /\ RouteInv /\ FeaturesInv /\ SentInv

(* Connect's steps before it chooses a mechanism (client.go:103-158).       *)
LEMMA TransportSteps ==
  ASSUME NInv, \/ Begin \/ DialFails \/ Dial \/ ChooseTLS \/ Proceed \/ Handshake
               \/ OpenAndReadFeatures("open", "choose") \/ OpenAndReadFeatures("openTLS", "select")
  PROVE  NInv'
<1>0. TypeOK /\ Structure /\ raw \in Config
  BY DEF NInv, TypeOK, Structure
<1>c. /\ cfg.directTLS = raw.directTLS /\ cfg.insecure = raw.insecure /\ cfg.component = raw.component
      /\ cfg.requireTLS = (raw.requireTLS \/ ~(raw.insecure \/ raw.directTLS \/ raw.component))
  BY <1>0, NormalizedKeeps
<1> USE DEF Structure, SilentInv, ConnInv, RouteInv, FeaturesInv, SentInv, Unauthed, Authed, HasBind,
            Go, Quiet
<1>1. CASE Begin
  <2>1. TypeOK'
    BY <1>0, <1>1, BoundsAssumption DEF Begin, TypeOK
  <2>2. Structure'
    BY <1>0, <1>1 DEF Begin
  <2>3. pc' = "dial" /\ UNCHANGED <<raw, sent, features, authed>>
    BY <1>1 DEF Begin
  <2> QED
    BY <2>1, <2>2, <2>3, SentKept, MechanismKept DEF NInv, ReadyIsBound, Chosen
<1>2. CASE DialFails
  <2>1. TypeOK'
    BY <1>0, <1>2 DEF DialFails, TypeOK
  <2>2. Structure'
    BY <1>0, <1>2 DEF DialFails
  <2>3. pc' = "failed" /\ UNCHANGED <<raw, sent, features, authed>>
    BY <1>2 DEF DialFails
  <2> QED
    BY <2>1, <2>2, <2>3, SentKept, MechanismKept DEF NInv, ReadyIsBound, Chosen
<1>3. CASE Dial
  <2>1. TypeOK'
    BY <1>0, <1>3 DEF Dial, TypeOK
  <2>2. Structure'
    BY <1>0, <1>c, <1>3 DEF Dial
  <2>3. pc' \in {"componentOpen", "open"} /\ UNCHANGED <<raw, sent, features, authed>>
    BY <1>3 DEF Dial
  <2> QED
    BY <2>1, <2>2, <2>3, SentKept, MechanismKept DEF NInv, ReadyIsBound, Chosen
<1>4. CASE ChooseTLS
  <2>1. TypeOK'
    BY <1>0, <1>4 DEF ChooseTLS, TypeOK, Waiting
  <2>2. Structure'
    BY <1>0, <1>c, <1>4 DEF ChooseTLS, ClearByChoice, TypeOK
  <2>3. pc' \in {"select", "starttls", "fail"} /\ UNCHANGED <<raw, sent, features, authed>>
    BY <1>4 DEF ChooseTLS
  <2> QED
    BY <2>1, <2>2, <2>3, SentKept, MechanismKept DEF NInv, ReadyIsBound, Chosen
<1>5. CASE Proceed
  <2>1. TypeOK'
    BY <1>0, <1>5 DEF Proceed, TypeOK, Waiting
  <2>2. Structure'
    BY <1>0, <1>5 DEF Proceed
  <2>3. pc' = "handshake" /\ UNCHANGED <<raw, sent, features, authed>>
    BY <1>5 DEF Proceed
  <2> QED
    BY <2>1, <2>2, <2>3, SentKept, MechanismKept DEF NInv, ReadyIsBound, Chosen
<1>6. CASE Handshake
  <2>1. TypeOK'
    BY <1>0, <1>6 DEF Handshake, TypeOK
  <2>2. Structure'
    BY <1>0, <1>6 DEF Handshake
  <2>3. pc' = "openTLS" /\ UNCHANGED <<raw, sent, features, authed>>
    BY <1>6 DEF Handshake
  <2> QED
    BY <2>1, <2>2, <2>3, SentKept, MechanismKept DEF NInv, ReadyIsBound, Chosen
<1>7. CASE OpenAndReadFeatures("open", "choose")
  <2>1. TypeOK'
    BY <1>0, <1>7 DEF OpenAndReadFeatures, TypeOK
  <2>2. Structure'
    BY <1>0, <1>7 DEF OpenAndReadFeatures
  <2>3. pc' = "choose" /\ sent = {} /\ UNCHANGED <<raw, sent>>
    BY <1>0, <1>7 DEF OpenAndReadFeatures
  <2> QED
    BY <2>1, <2>2, <2>3, SentKept, MechanismKept DEF NInv, ReadyIsBound, Chosen
<1>8. CASE OpenAndReadFeatures("openTLS", "select")
  <2>1. TypeOK'
    BY <1>0, <1>8 DEF OpenAndReadFeatures, TypeOK
  <2>2. Structure'
    BY <1>0, <1>8 DEF OpenAndReadFeatures
  <2>3. pc' = "select" /\ sent = {} /\ UNCHANGED <<raw, sent>>
    BY <1>0, <1>8 DEF OpenAndReadFeatures
  <2> QED
    BY <2>1, <2>2, <2>3, SentKept, MechanismKept DEF NInv, ReadyIsBound, Chosen
<1> QED
  BY <1>1, <1>2, <1>3, <1>4, <1>5, <1>6, <1>7, <1>8

(* authenticate sends the first SASL message (client.go:159, sasl.go:15-61): *)
(* with the best mechanism of the features of this very stream.             *)
LEMMA AuthenticateStep == ASSUME NInv, Authenticate PROVE NInv'
<1> DEFINE secure == conn = "tls" \/ cfg.insecure
           chosen == SelectMechanism(features.mechanisms, secure)
           message == [what |-> "auth", conn |-> conn, mech |-> chosen,
                       offered |-> read = [conn |-> conn, authed |-> authed]]
<1>0. /\ TypeOK /\ Structure /\ raw \in Config /\ pc = "select" /\ sent = {} /\ authed = FALSE
      /\ conn \in {"clear", "tls"} /\ read = [conn |-> conn, authed |-> authed]
  BY DEF NInv, TypeOK, Structure, SilentInv, ConnInv, FeaturesInv, Unauthed, Authenticate
<1>1. UNCHANGED <<raw, conn, authed, features, read, jid, skipped, attempt>>
  BY DEF Authenticate
<1>2. \/ chosen = "none" /\ pc' = "fail" /\ UNCHANGED <<mech, sent>>
      \/ /\ chosen # "none" /\ pc' \in {"challenge", "simple"} /\ mech' = chosen
         /\ sent' = sent \cup {message}
  BY DEF Authenticate, Write
<1>3. chosen # "none" => chosen \in Supported
  BY <1>0, SelectsFirst, UsableIsSupported
<1>4. message.what = "auth" /\ message.conn = conn /\ message.offered = TRUE
  BY <1>0
<1>5. chosen # "none" => message \in [what : {"auth", "bind", "handshake"}, conn : {"clear", "tls"},
                                      mech : Supported \cup {"none"}, offered : BOOLEAN]
  <2> HIDE DEF chosen
  <2> QED
    BY <1>0, <1>3
<1>6. BestMechanism'
  <2>1. CASE pc' = "fail"
    BY <2>1, MechanismKept DEF Chosen
  <2>2. CASE chosen # "none" /\ mech' = chosen
    <3>1. PICK i \in DOMAIN cfg.mechanisms :
             /\ chosen = cfg.mechanisms[i]
             /\ cfg.mechanisms[i] \in features.mechanisms /\ Usable(cfg.mechanisms[i], secure)
             /\ \A j \in 1..(i-1) : ~ /\ cfg.mechanisms[j] \in features.mechanisms
                                      /\ Usable(cfg.mechanisms[j], secure)
      BY <1>0, <2>2, SelectsFirst
    <3>2. cfg' = cfg
      BY <1>1 DEF cfg, Normalized
    <3> HIDE DEF chosen
    <3> QED
      BY <1>1, <2>2, <3>1, <3>2 DEF BestMechanism, Usable
  <2> QED
    BY <1>2, <2>1, <2>2
<1> HIDE DEF message, chosen
<1>7. TypeOK'
  BY <1>0, <1>1, <1>2, <1>3, <1>5 DEF TypeOK, Waiting
<1>8. Structure'
  BY <1>0, <1>1, <1>2 DEF Structure, SilentInv, ConnInv, RouteInv, FeaturesInv, SentInv, Unauthed,
                          Authed, HasBind
<1>9. AuthOverTLS'
  <2>1. conn = "clear" => ClearByChoice /\ ~features.starttls
    BY <1>0 DEF Structure, FeaturesInv
  <2> QED
    BY <1>0, <1>1, <1>2, <1>4, <2>1 DEF AuthOverTLS, ClearByChoice
<1>10. FeaturesAreCurrent'
  BY <1>0, <1>1, <1>2, <1>4 DEF FeaturesAreCurrent
<1>11. ReadyIsBound'
  BY <1>2 DEF ReadyIsBound
<1> QED
  BY <1>6, <1>7, <1>8, <1>9, <1>10, <1>11 DEF NInv, Structure

(* The rest of SASL and the stream after it (sasl.go:81-190,                *)
(* client.go:159-165).                                                      *)
LEMMA SASLSteps ==
  ASSUME NInv, \/ SimpleSuccess \/ Challenge \/ ScramSuccess
               \/ OpenAndReadFeatures("openAuthed", "checkBind")
  PROVE  NInv'
<1>0. TypeOK /\ Structure
  BY DEF NInv, Structure
<1> USE DEF Structure, SilentInv, ConnInv, RouteInv, FeaturesInv, SentInv, Unauthed, Authed, HasBind,
            Go, Quiet
<1>1. CASE SimpleSuccess \/ ScramSuccess
  <2>1. TypeOK'
    BY <1>0, <1>1 DEF SimpleSuccess, ScramSuccess, TypeOK
  <2>2. Structure'
    BY <1>0, <1>1 DEF SimpleSuccess, ScramSuccess
  <2>3. pc' = "openAuthed" /\ authed' = TRUE /\ UNCHANGED <<raw, sent>>
    BY <1>1 DEF SimpleSuccess, ScramSuccess
  <2> QED
    BY <2>1, <2>2, <2>3, SentKept, MechanismKept DEF NInv, ReadyIsBound, Chosen
<1>2. CASE Challenge
  <2>1. TypeOK'
    BY <1>0, <1>2 DEF Challenge, TypeOK, Waiting
  <2>2. Structure'
    BY <1>0, <1>2 DEF Challenge
  <2>3. /\ pc = "challenge" /\ pc' = "final"
        /\ UNCHANGED <<raw, sent, features, authed, conn, mech>>
    BY <1>2 DEF Challenge
  <2> QED
    BY <2>1, <2>2, <2>3, SentKept, MechanismKept DEF NInv, ReadyIsBound, Chosen
<1>3. CASE OpenAndReadFeatures("openAuthed", "checkBind")
  <2>1. TypeOK'
    BY <1>0, <1>3 DEF OpenAndReadFeatures, TypeOK
  <2>2. Structure'
    BY <1>0, <1>3 DEF OpenAndReadFeatures
  <2>3. pc' = "checkBind" /\ authed' = TRUE /\ UNCHANGED <<raw, sent>>
    BY <1>0, <1>3 DEF OpenAndReadFeatures
  <2> QED
    BY <2>1, <2>2, <2>3, SentKept, MechanismKept DEF NInv, ReadyIsBound, Chosen
<1> QED
  BY <1>1, <1>2, <1>3

(* A message that is no SASL message, sent with current features, keeps     *)
(* what was sent legal.                                                     *)
LEMMA SentMore ==
  ASSUME NInv, NEW m, m.what # "auth", m.offered = TRUE, sent' = sent \cup {m},
         UNCHANGED <<raw, features, authed>>
  PROVE  AuthOverTLS' /\ FeaturesAreCurrent'
<1>1. AuthOverTLS /\ FeaturesAreCurrent
  BY DEF NInv
<1>2. AuthOverTLS'
  BY <1>1 DEF AuthOverTLS
<1>3. FeaturesAreCurrent'
  BY <1>1 DEF FeaturesAreCurrent
<1> QED
  BY <1>2, <1>3

(* Binding, the legacy session and the component's handshake                *)
(* (client.go:166-178, 222-330).                                            *)
LEMMA BindSteps ==
  ASSUME NInv, \/ CheckBind \/ SyncSkip \/ Bound \/ CheckSession \/ SessionStarted
               \/ ComponentOpen \/ ComponentAccepted
  PROVE  NInv'
<1>0. TypeOK /\ Structure /\ raw \in Config
  BY DEF NInv, Structure, TypeOK
<1>c. cfg.component = raw.component /\ (UNCHANGED raw => cfg' = cfg)
  BY <1>0, NormalizedKeeps DEF cfg, Normalized
<1> USE DEF Structure, SilentInv, ConnInv, RouteInv, FeaturesInv, SentInv, Unauthed, Authed, HasBind,
            Go, Quiet
<1>1. CASE CheckBind
  <2> DEFINE m == [what |-> "bind", conn |-> conn, mech |-> "none",
                   offered |-> read = [conn |-> conn, authed |-> authed]]
  <2>1. /\ UNCHANGED <<raw, conn, authed, features, read, mech, jid, skipped, attempt>>
        /\ pc = "checkBind" /\ conn \in {"clear", "tls"}
        /\ \/ pc' = "bind" /\ sent' = sent \cup {m}
           \/ pc' = "fail" /\ UNCHANGED sent
    BY <1>0, <1>1 DEF CheckBind, Write, TypeOK
  <2>2. m.what = "bind" /\ m.conn = conn /\ m.offered = TRUE
    BY <1>0, <2>1
  <2>3. m \in [what : {"auth", "bind", "handshake"}, conn : {"clear", "tls"},
               mech : Supported \cup {"none"}, offered : BOOLEAN]
    BY <2>1
  <2> HIDE DEF m
  <2>4. TypeOK'
    BY <1>0, <2>1, <2>3 DEF TypeOK, Waiting
  <2>5. Structure'
    BY <1>0, <2>1, <2>2
  <2>6. AuthOverTLS' /\ FeaturesAreCurrent'
    BY <2>1, <2>2, SentKept, SentMore
  <2> QED
    BY <2>1, <2>4, <2>5, <2>6, MechanismKept DEF NInv, ReadyIsBound, Chosen
<1>2. CASE SyncSkip
  <2>1. TypeOK'
    BY <1>0, <1>2, BoundsAssumption DEF SyncSkip, TypeOK
  <2>2. Structure'
    BY <1>0, <1>2 DEF SyncSkip
  <2>3. pc' \in {"bind", "session"} /\ UNCHANGED <<raw, sent, features, authed>>
    BY <1>2 DEF SyncSkip
  <2> QED
    BY <2>1, <2>2, <2>3, SentKept, MechanismKept DEF NInv, ReadyIsBound, Chosen
<1>3. CASE Bound
  <2>1. TypeOK'
    BY <1>0, <1>3 DEF Bound, TypeOK
  <2>2. Structure'
    BY <1>0, <1>3 DEF Bound
  <2>3. pc' = "checkSession" /\ UNCHANGED <<raw, sent, features, authed>>
    BY <1>3 DEF Bound
  <2> QED
    BY <2>1, <2>2, <2>3, SentKept, MechanismKept DEF NInv, ReadyIsBound, Chosen
<1>4. CASE CheckSession \/ SessionStarted
  <2>1. TypeOK'
    BY <1>0, <1>4 DEF CheckSession, SessionStarted, TypeOK, Waiting
  <2>2. Structure'
    BY <1>0, <1>4 DEF CheckSession, SessionStarted
  <2>3. /\ pc' \in {"session", "finish"} /\ pc \in {"checkSession", "session"}
        /\ UNCHANGED <<raw, sent, features, authed, conn, jid, attempt>>
    BY <1>4 DEF CheckSession, SessionStarted
  <2>4. ReadyIsBound'
    <3>1. raw.component = FALSE
      BY <1>0, <2>3 DEF Config
    <3>2. /\ conn # "none" /\ authed = TRUE /\ jid = attempt
          /\ \E m \in sent : m.what = "bind" /\ m.conn = conn
      BY <1>0, <2>3
    <3> QED
      BY <1>c, <2>3, <3>1, <3>2 DEF ReadyIsBound
  <2> QED
    BY <2>1, <2>2, <2>3, <2>4, SentKept, MechanismKept DEF NInv, Chosen
<1>5. CASE ComponentOpen
  <2> DEFINE m == [what |-> "handshake", conn |-> conn, mech |-> "none", offered |-> TRUE]
  <2>1. /\ UNCHANGED <<raw, conn, authed, features, read, mech, jid, skipped, attempt>>
        /\ pc = "componentOpen" /\ conn \in {"clear", "tls"} /\ pc' = "component"
        /\ sent' = sent \cup {m}
    BY <1>0, <1>5 DEF ComponentOpen, Write, TypeOK
  <2>2. m.what = "handshake" /\ m.offered = TRUE
    OBVIOUS
  <2>3. m \in [what : {"auth", "bind", "handshake"}, conn : {"clear", "tls"},
               mech : Supported \cup {"none"}, offered : BOOLEAN]
    BY <2>1
  <2> HIDE DEF m
  <2>4. TypeOK'
    BY <1>0, <2>1, <2>3 DEF TypeOK, Waiting
  <2>5. Structure'
    BY <1>0, <2>1, <2>2
  <2>6. AuthOverTLS' /\ FeaturesAreCurrent'
    BY <2>1, <2>2, SentMore
  <2> QED
    BY <2>1, <2>4, <2>5, <2>6, MechanismKept DEF NInv, ReadyIsBound, Chosen
<1>6. CASE ComponentAccepted
  <2>1. TypeOK'
    BY <1>0, <1>6 DEF ComponentAccepted, TypeOK
  <2>2. Structure'
    BY <1>0, <1>6 DEF ComponentAccepted
  <2>3. pc' = "finish" /\ pc = "component" /\ UNCHANGED <<raw, sent, features, authed, conn>>
    BY <1>6 DEF ComponentAccepted
  <2>4. ReadyIsBound'
    <3>1. raw.component = TRUE
      BY <1>0, <2>3 DEF Config
    <3>2. conn # "none" /\ \E m \in sent : m.what = "handshake"
      BY <1>0, <2>3
    <3> QED
      BY <1>c, <2>3, <3>1, <3>2 DEF ReadyIsBound
  <2> QED
    BY <2>1, <2>2, <2>3, <2>4, SentKept, MechanismKept DEF NInv, Chosen
<1> QED
  BY <1>1, <1>2, <1>3, <1>4, <1>5, <1>6

(* A failed negotiation and the next call of Connect (client.go:182-200).   *)
LEMMA FailSteps == ASSUME NInv, Refused \/ FailConnect \/ Again PROVE NInv'
<1>0. TypeOK /\ Structure
  BY DEF NInv, Structure
<1> USE DEF Structure, SilentInv, ConnInv, RouteInv, FeaturesInv, SentInv, Unauthed, Authed, HasBind,
            Go, Quiet
<1>1. CASE Refused
  <2>1. TypeOK'
    BY <1>0, <1>1 DEF Refused, TypeOK
  <2>2. Structure'
    BY <1>0, <1>1 DEF Refused, Waiting
  <2>3. pc' = "fail" /\ UNCHANGED <<raw, sent, features, authed>>
    BY <1>1 DEF Refused
  <2> QED
    BY <2>1, <2>2, <2>3, SentKept, MechanismKept DEF NInv, ReadyIsBound, Chosen
<1>2. CASE FailConnect
  <2>1. TypeOK'
    BY <1>0, <1>2 DEF FailConnect, TypeOK
  <2>2. Structure'
    BY <1>0, <1>2 DEF FailConnect
  <2>3. pc' = "failed" /\ UNCHANGED <<raw, sent, features, authed>>
    BY <1>2 DEF FailConnect
  <2> QED
    BY <2>1, <2>2, <2>3, SentKept, MechanismKept DEF NInv, ReadyIsBound, Chosen
<1>3. CASE Again
  <2>1. TypeOK'
    <3>1. read' \in [conn : {"none", "clear", "tls"}, authed : BOOLEAN]
      BY <1>3 DEF Again
    <3>2. skipped' \in 0..MaxSkip
      BY <1>3, BoundsAssumption DEF Again
    <3> QED
      BY <1>0, <1>3, <3>1, <3>2 DEF Again, TypeOK
  <2>2. Structure'
    BY <1>0, <1>3 DEF Again
  <2>3. pc' = "idle" /\ sent' = {}
    BY <1>3 DEF Again
  <2>4. AuthOverTLS' /\ FeaturesAreCurrent'
    BY <2>3 DEF AuthOverTLS, FeaturesAreCurrent
  <2> QED
    BY <2>1, <2>2, <2>3, <2>4, MechanismKept DEF NInv, ReadyIsBound, Chosen
<1> QED
  BY <1>1, <1>2, <1>3

(* Every step of Connect, of the server and of the application keeps the    *)
(* invariant.                                                               *)
LEMMA NextNInv == NInv /\ [Next]_vars => NInv'
<1> SUFFICES ASSUME NInv, [Next]_vars PROVE NInv'
  OBVIOUS
<1>1. CASE UNCHANGED vars
  <2>1. TypeOK' /\ Structure'
    BY <1>1 DEF vars, NInv, TypeOK, Structure, SilentInv, ConnInv, RouteInv, FeaturesInv, SentInv,
                ClearByChoice
  <2>2. AuthOverTLS' /\ FeaturesAreCurrent' /\ BestMechanism'
    BY <1>1, SentKept, MechanismKept DEF vars
  <2>3. ReadyIsBound'
    BY <1>1 DEF vars, NInv, ReadyIsBound, cfg, Normalized
  <2> QED
    BY <2>1, <2>2, <2>3 DEF NInv, Structure
<1> QED
  BY <1>1, TransportSteps, AuthenticateStep, SASLSteps, BindSteps, FailSteps DEF Next, Peer, Own

LEMMA NInvHolds == Spec => []NInv
<1>1. NInv /\ [Next]_vars => NInv'
  BY NextNInv
<1> QED
  BY <1>1, InitNInv, PTL DEF Spec

-----------------------------------------------------------------------------
(* The results. *)

(* No SASL message goes out in the clear unless the application set         *)
(* InsecureAllowPlainAuth and not RequireTLS, and the server offered no TLS *)
(* (config.go:64-66, client.go:145-158, sasl.go:68-72).                     *)
THEOREM AuthenticatesOverTLS == Spec => []AuthOverTLS
<1>1. NInv => AuthOverTLS
  BY DEF NInv
<1> QED
  BY <1>1, NInvHolds, PTL

(* Credentials and the bind request rest on features that were read on the  *)
(* stream they are sent on (client.go:151, 163).                            *)
THEOREM FeaturesCurrent == Spec => []FeaturesAreCurrent
<1>1. NInv => FeaturesAreCurrent
  BY DEF NInv
<1> QED
  BY <1>1, NInvHolds, PTL

(* The mechanism in use is the first of the configured ones that the server *)
(* offers and that may be used (sasl.go:31-61).                             *)
THEOREM MechanismIsBest == Spec => []BestMechanism
<1>1. NInv => BestMechanism
  BY DEF NInv
<1> QED
  BY <1>1, NInvHolds, PTL

(* Connect succeeds only authenticated and with the JID that this attempt   *)
(* bound, or after a component's handshake (client.go:159-178, 317-319).    *)
THEOREM ConnectReadyIsBound == Spec => []ReadyIsBound
<1>1. NInv => ReadyIsBound
  BY DEF NInv
<1> QED
  BY <1>1, NInvHolds, PTL

(* The state of Connect is well typed.                                      *)
THEOREM NegotiationTypeCorrect == Spec => []TypeOK
<1>1. NInv => TypeOK
  BY DEF NInv
<1> QED
  BY <1>1, NInvHolds, PTL

=============================================================================
