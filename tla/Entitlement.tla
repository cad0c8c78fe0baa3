---------------------------- MODULE Entitlement -----------------------------
(***************************************************************************)
(* internal/entitlement with the freshness check of pkg/clientcore: from a *)
(* checkout to an admitted handshake.  A purchase is opened at Stripe,     *)
(* Stripe posts signed webhooks about it, OnPaymentEvent turns one into a  *)
(* token, the client presents the token in a ClientHello, and the gateway  *)
(* admits it while hello and token are in date.                            *)
(*                                                                         *)
(* External, modelled from their use: Stripe completes or abandons a       *)
(* purchase and signs its posts by its own clock, again for every retry;   *)
(* the network delays, repeats and loses posts and hellos; a signature is  *)
(* unforgeable, so a message is the record of what was signed.  A hello's  *)
(* timestamp is signed by nobody: it is any int64 the sender wrote.        *)
(* Definitions named X_Y are mistaken variants of X.                       *)
(***************************************************************************)
EXTENDS Integers, FiniteSets

CONSTANTS
  Subjects,         \* account references
  Separated,        \* those that contain the "|" of the token format
  Checkouts,        \* checkout sessions Stripe may open
  Tolerance,        \* of a webhook's timestamp (5 minutes)
  HelloTolerance,   \* of a ClientHello's timestamp (60 seconds)
  TokenTTL,
  DurationMax,      \* the largest time.Duration: 292 years
  Int64Max,         \* the largest timestamp of a hello
  Epoch,            \* what time.Unix adds to it: the years before 1970
  Stamps,           \* timestamps clients may put into a hello
  Drift,            \* bound: how far Stripe's clock is off
  MaxTime,          \* bound: the clock
  MaxPosts,         \* bound: webhooks signed
  MaxHellos         \* bound: hellos sent

ASSUME ClockAssumption ==
  /\ {Tolerance, HelloTolerance, TokenTTL, Drift, MaxTime} \subseteq Nat
  /\ {DurationMax, Int64Max, Epoch} \subseteq Nat /\ MaxTime >= 1
  /\ MaxTime + Drift < DurationMax /\ MaxTime + Drift + Epoch <= Int64Max
  /\ Tolerance < DurationMax /\ HelloTolerance < DurationMax
  /\ Stamps \subseteq (-Int64Max - 1)..Int64Max

VARIABLES
  mode,      \* "open" or "hosted"
  now,       \* the service's clock
  checkout,  \* Stripe's sessions: [subject, state], state "none", "open",
             \* "paid" or "expired"
  posts,     \* webhooks signed so far: [subject, type, ts, at], signed at at
  tokens,    \* tokens issued so far
  hellos,    \* hellos sent so far: [token, ts, at], sent at at
  last       \* history: the last admission, of which hello and when

serviceVars == <<mode, now, checkout, posts, tokens, hellos, last>>
NoCheckout == [subject |-> "nobody", state |-> "none"]
NoHello == [token |-> [subject |-> "nobody", expiry |-> 0], ts |-> 0, at |-> 0]
NoAdmission == [hello |-> NoHello, at |-> 0]

ServiceInit ==
  /\ mode \in {"open", "hosted"}
  /\ now = 1
  /\ checkout = [c \in Checkouts |-> NoCheckout]
  /\ posts = {} /\ tokens = {} /\ hellos = {}
  /\ last = NoAdmission

Tick ==
  /\ now < MaxTime
  /\ now' = now + 1
  /\ UNCHANGED <<mode, checkout, posts, tokens, hellos, last>>

\* time.Unix wraps; time.Sub saturates; the negative of the smallest Duration
\* is itself.
Unix(ts) == IF ts + Epoch > Int64Max THEN ts - 2 * (Int64Max + 1) ELSE ts
Sub(a, b) ==
  LET d == a - b
  IN IF d > DurationMax THEN DurationMax
     ELSE IF d < -DurationMax - 1 THEN -DurationMax - 1 ELSE d
Skew(ts) ==
  LET d == Sub(now, Unix(ts))
  IN IF d < 0 /\ d # -DurationMax - 1 THEN -d ELSE d

-----------------------------------------------------------------------------
(* The purchase.                                                           *)

\* Stripe opens a session for the subject, as often as it is asked to; the
\* call may still fail on the way back.
CreateCheckout(c, s) ==
  /\ checkout[c] = NoCheckout
  /\ checkout' = [checkout EXCEPT ![c] = [subject |-> s, state |-> "open"]]
  /\ UNCHANGED <<mode, now, posts, tokens, hellos, last>>

Settle(c) ==
  /\ checkout[c].state = "open"
  /\ \E outcome \in {"paid", "expired"} :
       checkout' = [checkout EXCEPT ![c].state = outcome]
  /\ UNCHANGED <<mode, now, posts, tokens, hellos, last>>

\* A post about a settled purchase, or the same one signed again.
SignPost(c) ==
  /\ Cardinality(posts) < MaxPosts
  /\ checkout[c].state \in {"paid", "expired"}
  /\ \E ts \in (now - Drift)..(now + Drift) :
       posts' = posts \cup
         {[subject |-> checkout[c].subject, ts |-> ts, at |-> now,
           type |-> IF checkout[c].state = "paid" THEN "completed" ELSE "expired"]}
  /\ UNCHANGED <<mode, now, checkout, tokens, hellos, last>>

VerifyWebhook_AnyType(p) == Skew(p.ts) <= Tolerance
VerifyWebhook_Ageless(p) == p.type = "completed"
VerifyWebhook(p) == Skew(p.ts) <= Tolerance /\ p.type = "completed"

\* Issue refuses a subject it could not split off again.
Issue(s) == s \notin Separated

\* A post signed before may arrive at any time and any number of times.
OnPaymentEvent(p) ==
  /\ VerifyWebhook(p) /\ Issue(p.subject)
  /\ tokens' = tokens \cup {[subject |-> p.subject, expiry |-> now + TokenTTL]}
  /\ UNCHANGED <<mode, now, checkout, posts, hellos, last>>

-----------------------------------------------------------------------------
(* The handshake.                                                          *)

Foreign == [subject |-> "nobody", expiry |-> MaxTime]  \* under another key

\* The client writes what its clock shows, however wrong that is.
SendHello(token) ==
  /\ Cardinality(hellos) < MaxHellos
  /\ \E ts \in Stamps :
       hellos' = hellos \cup {[token |-> token, ts |-> ts, at |-> now]}
  /\ UNCHANGED <<mode, now, checkout, posts, tokens, last>>

CheckHandshakeFresh(ts) == Skew(ts) <= HelloTolerance

\* Valid up to and including the second of its expiry.
Verify(token) == token \in tokens /\ now <= token.expiry

Admit(token) == mode = "open" \/ Verify(token)

Handshake(h) ==
  /\ CheckHandshakeFresh(h.ts) /\ Admit(h.token)
  /\ last' = [hello |-> h, at |-> now]
  /\ UNCHANGED <<mode, now, checkout, posts, tokens, hellos>>

ServiceNext ==
  \/ Tick
  \/ \E c \in Checkouts : \/ \E s \in Subjects : CreateCheckout(c, s)
                          \/ Settle(c) \/ SignPost(c)
  \/ \E p \in posts : OnPaymentEvent(p)
  \/ \E t \in tokens \cup {Foreign} : SendHello(t)
  \/ \E h \in hellos : Handshake(h)

ServiceSpec == ServiceInit /\ [][ServiceNext]_serviceVars

-----------------------------------------------------------------------------
Admitted == last.hello.token.subject

(* Only those who paid are in ("admits a session only on a valid entitlement
   token", admission.go:87): a hosted gateway has admitted a client only for
   a subject one of whose purchases completed, whatever else Stripe posted
   about them and whichever tokens of another key were presented. *)
AdmittedPaid ==
  mode = "hosted" /\ last # NoAdmission =>
    \E c \in Checkouts : checkout[c] = [subject |-> Admitted, state |-> "paid"]

(* Access ends: a hosted gateway admits nobody later than one tolerance and
   one TTL (and what Stripe's clock is off) after Stripe last signed a
   completed purchase of theirs, whatever their hello says the time is and
   however often old posts are delivered again.  Nor does it admit a hello
   later than the tolerance after it was sent, if the client's clock was not
   ahead (by more than Drift). *)
AccessEnds ==
  mode = "hosted" /\ last # NoAdmission =>
    /\ \E p \in posts : /\ p.subject = Admitted /\ p.type = "completed"
                        /\ last.at <= p.at + Drift + Tolerance + TokenTTL
    /\ last.hello.ts <= last.hello.at + Drift
         => last.at <= last.hello.at + Drift + HelloTolerance

(* "CheckHandshakeFresh reports whether a ClientHello timestamp is within
   tolerance of now (in either direction)" (handshake_message.go:22): the
   timestamp of an admitted hello is. *)
AdmittedInTolerance ==
  last # NoAdmission =>
    last.hello.ts \in (last.at - HelloTolerance)..(last.at + HelloTolerance)
=============================================================================
