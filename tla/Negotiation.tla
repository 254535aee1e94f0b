----------------------------- MODULE Negotiation -----------------------------
(***************************************************************************)
(* What happens inside one Client.Connect: the stream is opened, secured,  *)
(* authenticated, reopened and bound, or a component does its handshake.   *)
(* The server answers as it likes, out of order with the protocol too, and *)
(* every read may fail (end of the stream, malformed XML, the deadline).   *)
(* A failed Connect may be called again on the same Client, whose jid then *)
(* is whatever the earlier attempts left in it.                            *)
(*                                                                         *)
(* Keys, digests and the encoding of SASL messages are left out: a server  *)
(* message of the SCRAM exchange is either one that passes the client's    *)
(* tests or one that does not.                                             *)
(***************************************************************************)
EXTENDS Naturals, Sequences, SequencesExt

CONSTANTS
    Preferences,  \* values of Config.SASLMechanisms, <<>> being the default
    Offers,       \* sets of mechanisms a server advertises
    MaxAttempts,  \* bound: calls of Connect
    MaxSkip       \* bound: stanzas a server slips in before an IQ response

ASSUME BoundsAssumption == MaxAttempts \in Nat /\ MaxSkip \in Nat
ASSUME PreferencesAssumption == Preferences \subseteq Seq(STRING)

\* The default of Config.normalized.
DefaultMechanisms == <<"SCRAM-SHA-256", "SCRAM-SHA-1", "EXTERNAL", "PLAIN", "ANONYMOUS">>
Supported == {DefaultMechanisms[i] : i \in 1..5}
SCRAM == {"SCRAM-SHA-256", "SCRAM-SHA-1"}

Config == [directTLS : BOOLEAN, requireTLS : BOOLEAN, insecure : BOOLEAN,
           component : BOOLEAN, password : BOOLEAN, cert : BOOLEAN, mechanisms : Preferences]

\* As if RequireTLS kept what the application left in it.
NormalizedLax(raw) ==
    [raw EXCEPT !.mechanisms = IF raw.mechanisms = <<>> THEN DefaultMechanisms ELSE @]

\* Config.normalized: a client that opts out of nothing requires TLS.
Normalized(raw) ==
    [raw EXCEPT !.mechanisms = IF raw.mechanisms = <<>> THEN DefaultMechanisms ELSE @,
                !.requireTLS = @ \/ ~(raw.insecure \/ raw.directTLS \/ raw.component)]

Features == [starttls : BOOLEAN, mechanisms : Offers, bind : BOOLEAN, session : BOOLEAN]
Nothing  == [starttls |-> FALSE, mechanisms |-> {}, bind |-> FALSE, session |-> FALSE]

VARIABLES
    raw,       \* the Config the application passed
    pc,        \* where Connect stands
    conn,      \* Client.conn: "none", "clear" or "tls"
    authed,    \* the server has reported SASL success on this connection
    features,  \* Connect's features
    read,      \* history: conn and authed when features were read
    mech,      \* the mechanism in use
    jid,       \* Client.jid: 0 as configured, or the attempt whose bind set it
    skipped,   \* stanzas syncIQ skipped while it waits
    attempt,   \* calls of Connect so far
    sent       \* history: what was sent on this connection, and on what

vars == <<raw, pc, conn, authed, features, read, mech, jid, skipped, attempt, sent>>

cfg == Normalized(raw)

Waiting == {"starttls", "handshake", "simple", "challenge", "final", "bind", "session",
            "component"}
TypeOK ==
    /\ raw \in Config
    /\ pc \in {"idle", "dial", "open", "openTLS", "choose", "select", "openAuthed", "checkBind",
               "checkSession", "componentOpen", "fail", "failed", "finish"} \cup Waiting
    /\ conn \in {"none", "clear", "tls"}
    /\ authed \in BOOLEAN
    /\ features \in Features \cup {Nothing}
    /\ read \in [conn : {"none", "clear", "tls"}, authed : BOOLEAN]
    /\ mech \in Supported \cup {"none"}
    /\ jid \in 0..MaxAttempts /\ attempt \in 0..MaxAttempts /\ skipped \in 0..MaxSkip
    /\ sent \subseteq [what : {"auth", "bind", "handshake"}, conn : {"clear", "tls"},
                       mech : Supported \cup {"none"}, offered : BOOLEAN]

Init ==
    /\ raw \in Config
    /\ pc = "idle" /\ conn = "none" /\ authed = FALSE
    /\ features = Nothing /\ read = [conn |-> "none", authed |-> FALSE]
    /\ mech = "none" /\ jid = 0 /\ skipped = 0 /\ attempt = 0 /\ sent = {}

\* features and read change only where features are read, and so on.
Quiet == UNCHANGED <<raw, conn, authed, features, read, mech, jid, skipped, attempt, sent>>

Go(from, to) == pc = from /\ pc' = to

\* Something is written on the current connection.
Write(what, m, offered) ==
    sent' = sent \cup {[what |-> what, conn |-> conn, mech |-> m, offered |-> offered]}

-----------------------------------------------------------------------------
(* The transport. *)

Begin ==
    /\ pc = "idle" /\ attempt < MaxAttempts
    /\ pc' = "dial"
    /\ attempt' = attempt + 1
    /\ UNCHANGED <<raw, conn, authed, features, read, mech, jid, skipped, sent>>

\* Dialling fails, or the handshake of direct TLS does and the socket is closed.
DialFails == Go("dial", "failed") /\ Quiet

Dial ==
    /\ pc = "dial"
    /\ conn' = IF cfg.directTLS THEN "tls" ELSE "clear"
    /\ pc' = IF cfg.component THEN "componentOpen" ELSE "open"
    /\ UNCHANGED <<raw, authed, features, read, mech, jid, skipped, attempt, sent>>

\* openAndReadFeatures: the stream is opened on the current connection, with a new
\* decoder, and the server's features are read.
OpenAndReadFeatures(from, to) ==
    /\ Go(from, to)
    /\ features' \in Features
    /\ read' = [conn |-> conn, authed |-> authed]
    /\ UNCHANGED <<raw, conn, authed, mech, jid, skipped, attempt, sent>>

\* Direct TLS, STARTTLS if it is offered, or neither.
ChooseTLS ==
    /\ pc = "choose"
    /\ pc' = CASE cfg.directTLS -> "select"
               [] ~cfg.directTLS /\ features.starttls -> "starttls"
               [] ~cfg.directTLS /\ ~features.starttls /\ cfg.requireTLS -> "fail"
               [] OTHER -> "select"
    /\ Quiet

\* startTLS: anything but <proceed/> fails, and so does a failed TLS handshake.
Proceed == Go("starttls", "handshake") /\ Quiet

\* After the handshake the features read in the clear serve on.
HandshakeKeepsFeatures ==
    /\ Go("handshake", "select")
    /\ conn' = "tls"
    /\ UNCHANGED <<raw, authed, features, read, mech, jid, skipped, attempt, sent>>

Handshake ==
    /\ Go("handshake", "openTLS")
    /\ conn' = "tls"
    /\ UNCHANGED <<raw, authed, features, read, mech, jid, skipped, attempt, sent>>

-----------------------------------------------------------------------------
(* SASL. *)

\* A mechanism that may be used: PLAIN and EXTERNAL over TLS, or what is taken for it.
Usable(m, secure) ==
    CASE m = "PLAIN"     -> cfg.password /\ secure
      [] m = "EXTERNAL"  -> cfg.cert /\ secure
      [] m \in SCRAM     -> cfg.password
      [] m = "ANONYMOUS" -> TRUE
      [] OTHER           -> FALSE

\* The server's order decides.
SelectAny(offered, secure) ==
    LET ok == {m \in offered : Usable(m, secure)}
    IN IF ok = {} THEN "none" ELSE CHOOSE m \in ok : TRUE

\* selectSASLMechanism: the first of the preferred ones that is offered and usable.
SelectMechanism(offered, secure) ==
    LET i == SelectInSeq(cfg.mechanisms, LAMBDA m : m \in offered /\ Usable(m, secure))
    IN IF i = 0 THEN "none" ELSE cfg.mechanisms[i]

\* authenticate: a mechanism is chosen, and its first message sent.
Authenticate ==
    LET chosen == SelectMechanism(features.mechanisms, conn = "tls" \/ cfg.insecure)
    IN /\ pc = "select"
       /\ IF chosen = "none"
          THEN pc' = "fail" /\ UNCHANGED <<mech, sent>>
          ELSE /\ pc' = IF chosen \in SCRAM THEN "challenge" ELSE "simple"
               /\ mech' = chosen
               /\ Write("auth", chosen, read = [conn |-> conn, authed |-> authed])
       /\ UNCHANGED <<raw, conn, authed, features, read, jid, skipped, attempt>>

\* simpleSASL: <success/>.  Everything else is Refused.
SimpleSuccess ==
    /\ Go("simple", "openAuthed")
    /\ authed' = TRUE
    /\ UNCHANGED <<raw, conn, features, read, mech, jid, skipped, attempt, sent>>

\* authSCRAM: a challenge with a good nonce, salt and iteration count is answered.
Challenge == Go("challenge", "final") /\ Quiet

\* <success/>, with the right signature or without any.
ScramSuccess ==
    /\ Go("final", "openAuthed")
    /\ authed' = TRUE
    /\ UNCHANGED <<raw, conn, features, read, mech, jid, skipped, attempt, sent>>

-----------------------------------------------------------------------------
(* Resource binding and the legacy session, by syncIQ. *)

CheckBind ==
    /\ pc = "checkBind"
    /\ IF features.bind
       THEN /\ pc' = "bind"
            /\ Write("bind", "none", read = [conn |-> conn, authed |-> authed])
       ELSE pc' = "fail" /\ UNCHANGED sent
    /\ UNCHANGED <<raw, conn, authed, features, read, mech, jid, skipped, attempt>>

\* Stanzas that are no IQ, or an IQ with another ID, are dropped.
SyncSkip ==
    /\ pc \in {"bind", "session"} /\ skipped < MaxSkip
    /\ skipped' = skipped + 1
    /\ UNCHANGED <<raw, pc, conn, authed, features, read, mech, jid, attempt, sent>>

\* The result is taken without looking at the JID in it.
BoundKeepsJID ==
    /\ Go("bind", "checkSession")
    /\ UNCHANGED <<raw, conn, authed, features, read, mech, jid, skipped, attempt, sent>>

\* bindResource: a result with a valid JID, which becomes the client's.
Bound ==
    /\ Go("bind", "checkSession")
    /\ jid' = attempt
    /\ UNCHANGED <<raw, conn, authed, features, read, mech, skipped, attempt, sent>>

CheckSession ==
    /\ pc = "checkSession"
    /\ pc' = IF features.session THEN "session" ELSE "finish"
    /\ Quiet

SessionStarted == Go("session", "finish") /\ Quiet

-----------------------------------------------------------------------------
(* connectComponent. *)

\* The stream opening has an id: its digest is sent.
ComponentOpen ==
    /\ Go("componentOpen", "component")
    /\ Write("handshake", "none", TRUE)
    /\ UNCHANGED <<raw, conn, authed, features, read, mech, jid, skipped, attempt>>

ComponentAccepted == Go("component", "finish") /\ Quiet

-----------------------------------------------------------------------------
\* The deadline does not cover the IQs of the negotiation.
RefusedNotSync ==
    /\ pc \in (Waiting \ {"bind", "session"}) \cup {"open", "openTLS", "openAuthed", "componentOpen"}
    /\ pc' = "fail"
    /\ Quiet

\* A read or write fails, the deadline passes, or the server's answer is an error or not the one expected.
Refused ==
    /\ pc \in Waiting \cup {"open", "openTLS", "openAuthed", "componentOpen"}
    /\ pc' = "fail"
    /\ Quiet

\* failConnect: the connection is closed and forgotten, and Connect returns an error.
FailConnect ==
    /\ Go("fail", "failed")
    /\ conn' = "none"
    /\ UNCHANGED <<raw, authed, features, read, mech, jid, skipped, attempt, sent>>

\* The application may call Connect again; Connect's own variables are new.
Again ==
    /\ Go("failed", "idle") /\ attempt < MaxAttempts
    /\ authed' = FALSE /\ features' = Nothing /\ read' = [conn |-> "none", authed |-> FALSE]
    /\ mech' = "none" /\ skipped' = 0 /\ sent' = {}
    /\ UNCHANGED <<raw, conn, jid, attempt>>

\* What the server and the network bring about.
Peer ==
    \/ Dial
    \/ OpenAndReadFeatures("open", "choose")
    \/ OpenAndReadFeatures("openTLS", "select")
    \/ OpenAndReadFeatures("openAuthed", "checkBind")
    \/ Proceed \/ Handshake \/ SimpleSuccess \/ Challenge \/ ScramSuccess
    \/ SyncSkip \/ Bound \/ SessionStarted \/ ComponentOpen \/ ComponentAccepted

\* What the client does by itself, a deadline included.
Own == \/ ChooseTLS \/ Authenticate \/ CheckBind \/ CheckSession
       \/ DialFails \/ Refused \/ FailConnect

Next == Begin \/ Peer \/ Own \/ Again

Spec == Init /\ [][Next]_vars

\* Connect runs, and its deadline ends a wait for the server.  Nothing is assumed of
\* the server or of the application.
FairSpec == Spec /\ WF_vars(Own)

-----------------------------------------------------------------------------
(* Properties. *)

\* Nothing of SASL is sent in the clear unless the application set
\* InsecureAllowPlainAuth, not RequireTLS, and the server offered no TLS
\* (config.go:64-66, client.go:145-158, sasl.go:68-72).
AuthOverTLS ==
    \A m \in sent : m.what = "auth" /\ m.conn = "clear" =>
        /\ raw.insecure /\ ~raw.requireTLS /\ ~raw.directTLS
        /\ authed \/ ~features.starttls

\* Credentials and the bind request rest on features read on the very stream they are
\* sent on: nothing advertised before TLS, or before authentication, decides what
\* follows it (client.go:151, 163).
FeaturesAreCurrent == \A m \in sent : m.offered

\* The mechanism in use was offered and may be used, and no mechanism that the
\* configuration puts before it was (sasl.go:31-61).
BestMechanism ==
    LET best(m, rank) == cfg.mechanisms[rank] = m
        fits(m) == m \in features.mechanisms /\ Usable(m, conn = "tls" \/ cfg.insecure)
    IN pc \in {"simple", "challenge", "final"} =>
          /\ fits(mech)
          /\ \E i \in DOMAIN cfg.mechanisms :
                best(mech, i) /\ \A j \in 1..(i - 1) : ~fits(cfg.mechanisms[j])

\* Connect reaches finishConnect only on a connection on which it authenticated and
\* bound, and with the JID that this attempt bound, not the leftover of one that
\* failed after binding (client.go:159-178, 317-319); a component with its handshake.
ReadyIsBound ==
    pc = "finish" =>
        /\ conn # "none"
        /\ IF cfg.component THEN \E m \in sent : m.what = "handshake"
                            ELSE /\ authed /\ jid = attempt
                                 /\ \E m \in sent : m.what = "bind" /\ m.conn = conn

\* Every Connect returns, however the server answers (client.go:115-117, 128-130).
ConnectReturns == (pc = "dial") ~> (pc \in {"failed", "finish"})
=============================================================================
