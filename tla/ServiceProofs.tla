--------------------------- MODULE ServiceProofs ---------------------------
(***************************************************************************)
(* Proofs about what the hosted service admits and what it counts.         *)
(* Entitlement, for any subjects, tolerances and clocks: only those who    *)
(* paid are admitted, and only for so long.  ProbeServer, for every window *)
(* and any number of datagrams and scrapes: every datagram is counted      *)
(* once, and a scrape made meanwhile is honest.                            *)
(***************************************************************************)
EXTENDS Entitlement, ProbeServer, TLAPS

-----------------------------------------------------------------------------
(* From a purchase to an admitted handshake.                               *)

\* Posts and hellos are from the past, and Stripe's stamp is off by at most
\* Drift; of a hello's nothing is known but that it is a number.
ClockInv ==
  /\ now \in Nat /\ now >= 1 /\ now <= MaxTime
  /\ \A p \in posts : p.at \in Int /\ p.at <= now
                      /\ p.ts \in Int /\ p.ts <= p.at + Drift
  /\ \A h \in hellos : h.at \in Int /\ h.at <= now /\ h.ts \in Int

\* A purchase that Stripe called completed is and stays paid, and a token is
\* no younger than one tolerance and one TTL after a post that says so.
CheckoutType == [subject : Subjects \cup {"nobody"},
                 state : {"none", "open", "paid", "expired"}]
Earned ==
  /\ checkout \in [Checkouts -> CheckoutType]
  /\ \A p \in posts : p.type = "completed" =>
       \E c \in Checkouts : checkout[c] = [subject |-> p.subject, state |-> "paid"]
  /\ \A t \in tokens :
       /\ t.expiry \in Int
       /\ \E p \in posts : /\ p.subject = t.subject /\ p.type = "completed"
                           /\ t.expiry <= p.at + Drift + Tolerance + TokenTTL

ServiceInv == ClockInv /\ Earned /\ AdmittedPaid /\ AccessEnds

(* Of a stamp that is not ahead by more than Drift a skew of at most tol, as
   the code computes it, means what it says: the stamp is at most tol old,
   even one so old that the difference saturates. *)
LEMMA SkewExact ==
  ASSUME now \in Nat, now >= 1, now <= MaxTime,
         NEW ts \in Int, ts <= MaxTime + Drift,
         NEW tol \in Nat, tol < DurationMax, Skew(ts) <= tol
  PROVE  now <= ts + tol
<1>1. /\ MaxTime \in Nat /\ Drift \in Nat /\ DurationMax \in Nat
      /\ Int64Max \in Nat /\ Epoch \in Nat
      /\ MaxTime + Drift < DurationMax /\ MaxTime + Drift + Epoch <= Int64Max
  BY ClockAssumption
<1>2. Unix(ts) = ts
  BY <1>1 DEF Unix
<1>3. PICK d \in Int : d = now - ts
  OBVIOUS
<1>4. -DurationMax < d
  BY <1>1, <1>3
<1>5. Sub(now, ts) = IF d > DurationMax THEN DurationMax ELSE d
  BY <1>1, <1>3, <1>4 DEF Sub
<1>6. CASE d > DurationMax
  BY <1>1, <1>2, <1>5, <1>6 DEF Skew
<1>7. CASE d <= DurationMax
  <2>1. Sub(now, Unix(ts)) = d
    BY <1>1, <1>2, <1>5, <1>7
  <2>2. IF d < 0 THEN -d <= tol ELSE d <= tol
    BY <1>1, <1>4, <2>1 DEF Skew
  <2> QED
    BY <1>3, <2>2
<1> QED
  BY <1>1, <1>6, <1>7

(* Before the first purchase nobody has a token or was admitted. *)
LEMMA ServiceInitInv == ServiceInit => ServiceInv
  BY ClockAssumption
     DEF ServiceInit, ServiceInv, ClockInv, Earned, CheckoutType, NoCheckout,
         AdmittedPaid, AccessEnds

(* Only the clock moves. *)
LEMMA TickInv == ServiceInv /\ Tick => ServiceInv'
<1> SUFFICES ASSUME ServiceInv, Tick PROVE ServiceInv'
  BY Zenon
<1>1. ClockInv'
  <2>1. ClockInv
    BY DEF ServiceInv
  <2>2. now < MaxTime /\ now' = now + 1 /\ posts' = posts /\ hellos' = hellos
    BY Zenon DEF Tick
  <2> QED
    BY <2>1, <2>2, ClockAssumption DEF ClockInv
<1>2. Earned' /\ AdmittedPaid' /\ AccessEnds'
  BY Zenon DEF ServiceInv, Tick, Earned, AdmittedPaid, AccessEnds, Admitted
<1> QED
  BY <1>1, <1>2 DEF ServiceInv

(* A purchase that is paid stays paid: CreateCheckout and Settle start from
   other states. *)
LEMMA PurchaseInv ==
  ASSUME ServiceInv, NEW c \in Checkouts,
         (\E s \in Subjects : CreateCheckout(c, s)) \/ Settle(c)
  PROVE  ServiceInv'
<1>0. checkout \in [Checkouts -> CheckoutType] /\ checkout[c] \in CheckoutType
  BY Zenon DEF ServiceInv, Earned
<1>1. UNCHANGED <<mode, now, posts, tokens, hellos, last>>
  BY Zenon DEF CreateCheckout, Settle
<1>2. PICK r \in CheckoutType :
        checkout' = [checkout EXCEPT ![c] = r] /\ checkout[c].state # "paid"
  <2>1. CASE \E s \in Subjects : CreateCheckout(c, s)
    <3>1. PICK s \in Subjects : CreateCheckout(c, s)
      BY <2>1
    <3>2. checkout[c].state # "paid"
      BY <3>1 DEF CreateCheckout, NoCheckout
    <3>3. [subject |-> s, state |-> "open"] \in CheckoutType
      BY DEF CheckoutType
    <3> QED
      BY <3>1, <3>2, <3>3, Zenon DEF CreateCheckout
  <2>2. CASE Settle(c)
    <3>1. PICK outcome \in {"paid", "expired"} :
            checkout' = [checkout EXCEPT ![c].state = outcome]
      BY <2>2, Zenon DEF Settle
    <3>2. checkout[c].state # "paid"
      BY <2>2 DEF Settle
    <3>3. [checkout[c] EXCEPT !.state = outcome] \in CheckoutType
      BY <1>0 DEF CheckoutType
    <3> QED
      BY <3>1, <3>2, <3>3, Zenon
  <2> QED
    BY <2>1, <2>2
<1>3. /\ checkout' \in [Checkouts -> CheckoutType]
      /\ \A x \in Checkouts : checkout[x].state = "paid" => checkout'[x] = checkout[x]
  BY <1>0, <1>2, Zenon
<1>4. ASSUME NEW s, NEW x \in Checkouts, checkout[x] = [subject |-> s, state |-> "paid"]
      PROVE  checkout'[x] = [subject |-> s, state |-> "paid"]
  <2>1. checkout[x].state = "paid"
    BY <1>4
  <2> QED
    BY <1>3, <1>4, <2>1, Zenon
<1>5. ClockInv' /\ AccessEnds'
  BY <1>1, Zenon DEF ServiceInv, ClockInv, AccessEnds, Admitted
<1>6. Earned'
  BY <1>1, <1>3, <1>4, Zenon DEF ServiceInv, Earned
<1>7. AdmittedPaid'
  BY <1>1, <1>4, Zenon DEF ServiceInv, AdmittedPaid, Admitted
<1> QED
  BY <1>5, <1>6, <1>7 DEF ServiceInv

(* A new post tells the truth about its purchase. *)
LEMMA SignPostInv ==
  ASSUME ServiceInv, NEW c \in Checkouts, SignPost(c) PROVE ServiceInv'
<1>1. PICK ts \in (now - Drift)..(now + Drift) :
        posts' = posts \cup
          {[subject |-> checkout[c].subject, ts |-> ts, at |-> now,
            type |-> IF checkout[c].state = "paid" THEN "completed" ELSE "expired"]}
  BY Zenon DEF SignPost
<1>2. ts \in Int /\ ts <= now + Drift /\ now \in Nat
  BY ClockAssumption DEF ServiceInv, ClockInv
<1>3. UNCHANGED <<mode, now, checkout, tokens, hellos, last>>
  BY Zenon DEF SignPost
<1>4. PICK p : /\ posts' = posts \cup {p} /\ p.ts = ts /\ p.at = now
               /\ p.subject = checkout[c].subject
               /\ p.type = "completed" => checkout[c].state = "paid"
  <2>1. PICK p : p = [subject |-> checkout[c].subject, ts |-> ts, at |-> now,
            type |-> IF checkout[c].state = "paid" THEN "completed" ELSE "expired"]
    BY Zenon
  <2>2. posts' = posts \cup {p}
    BY <1>1, <2>1, Zenon
  <2>3. /\ p.ts = ts /\ p.at = now /\ p.subject = checkout[c].subject
        /\ p.type = "completed" => checkout[c].state = "paid"
    BY <2>1
  <2> QED
    BY <2>2, <2>3, Zenon
<1>5. ClockInv'
  <2>1. ClockInv
    BY DEF ServiceInv
  <2> QED
    BY <1>2, <1>3, <1>4, <2>1 DEF ClockInv
<1>6. checkout[c].state = "paid"
        => checkout[c] = [subject |-> p.subject, state |-> "paid"]
  <2>1. checkout[c] \in CheckoutType
    BY Zenon DEF ServiceInv, Earned
  <2> QED
    BY <1>4, <2>1 DEF CheckoutType
<1>7. Earned'
  BY <1>3, <1>4, <1>6, Zenon DEF ServiceInv, Earned
<1>8. AdmittedPaid' /\ AccessEnds'
  BY <1>3, <1>4, Zenon DEF ServiceInv, AdmittedPaid, AccessEnds, Admitted
<1> QED
  BY <1>5, <1>7, <1>8, Zenon DEF ServiceInv

(* A token issued for a post in time expires a TTL after now, which is at
   most one tolerance after the post. *)
LEMMA OnPaymentEventInv ==
  ASSUME ServiceInv, NEW p \in posts, OnPaymentEvent(p) PROVE ServiceInv'
<1>1. /\ p.type = "completed" /\ Skew(p.ts) <= Tolerance
      /\ tokens' = tokens \cup {[subject |-> p.subject, expiry |-> now + TokenTTL]}
      /\ UNCHANGED <<mode, now, checkout, posts, hellos, last>>
  BY Zenon DEF OnPaymentEvent, VerifyWebhook
<1>2. /\ now \in Nat /\ now >= 1 /\ now <= MaxTime /\ p.at \in Int /\ p.at <= now
      /\ p.ts \in Int /\ p.ts <= p.at + Drift
  BY Zenon DEF ServiceInv, ClockInv
<1>3. /\ Tolerance \in Nat /\ TokenTTL \in Nat /\ Drift \in Nat /\ MaxTime \in Nat
      /\ Tolerance < DurationMax
  BY ClockAssumption
<1>4. p.ts <= MaxTime + Drift
  BY <1>2, <1>3
<1>5. now <= p.ts + Tolerance
  BY <1>1, <1>2, <1>3, <1>4, SkewExact
<1>6. now + TokenTTL <= p.at + Drift + Tolerance + TokenTTL /\ now + TokenTTL \in Int
  BY <1>2, <1>3, <1>5
<1>7. PICK t : /\ tokens' = tokens \cup {t} /\ t.subject = p.subject
               /\ t.expiry = now + TokenTTL
  <2>1. PICK t : t = [subject |-> p.subject, expiry |-> now + TokenTTL]
    BY Zenon
  <2>2. tokens' = tokens \cup {t}
    BY <1>1, <2>1, Zenon
  <2>3. t.subject = p.subject /\ t.expiry = now + TokenTTL
    BY <2>1
  <2> QED
    BY <2>2, <2>3, Zenon
<1>8. Earned'
  BY <1>1, <1>6, <1>7, Zenon DEF ServiceInv, Earned
<1>9. ClockInv' /\ AdmittedPaid' /\ AccessEnds'
  BY <1>1, Zenon DEF ServiceInv, ClockInv, AdmittedPaid, AccessEnds, Admitted
<1> QED
  BY <1>8, <1>9, Zenon DEF ServiceInv

(* A hello is sent, with whatever token and stamp. *)
LEMMA SendHelloInv ==
  ASSUME ServiceInv, NEW t, SendHello(t) PROVE ServiceInv'
<1>1. PICK ts \in Stamps :
        hellos' = hellos \cup {[token |-> t, ts |-> ts, at |-> now]}
  BY Zenon DEF SendHello
<1>2. ts \in Int /\ now \in Nat
  BY ClockAssumption DEF ServiceInv, ClockInv
<1>3. UNCHANGED <<mode, now, checkout, posts, tokens, last>>
  BY Zenon DEF SendHello
<1>4. ClockInv'
  <2>1. ClockInv
    BY DEF ServiceInv
  <2> QED
    BY <1>1, <1>2, <1>3, <2>1 DEF ClockInv
<1>5. Earned' /\ AdmittedPaid' /\ AccessEnds'
  BY <1>1, <1>3, Zenon DEF ServiceInv, Earned, AdmittedPaid, AccessEnds, Admitted
<1> QED
  BY <1>4, <1>5, Zenon DEF ServiceInv

(* An admission by a hosted gateway is under a token it issued. *)
LEMMA HandshakeInv ==
  ASSUME ServiceInv, NEW h \in hellos, Handshake(h) PROVE ServiceInv'
<1>1. /\ last' = [hello |-> h, at |-> now]
      /\ UNCHANGED <<mode, now, checkout, posts, tokens, hellos>>
      /\ Skew(h.ts) <= HelloTolerance
  BY DEF Handshake, CheckHandshakeFresh
<1>2. ClockInv' /\ Earned'
  BY <1>1, Zenon DEF ServiceInv, ClockInv, Earned
<1>3. CASE mode = "hosted"
  <2>1. h.token \in tokens /\ now <= h.token.expiry
    BY <1>3, Zenon DEF Handshake, Admit, Verify
  <2>2. PICK p \in posts : /\ p.subject = h.token.subject /\ p.type = "completed"
                           /\ h.token.expiry <= p.at + Drift + Tolerance + TokenTTL
    BY <2>1, Zenon DEF ServiceInv, Earned
  <2>3. /\ h.token.expiry \in Int /\ now \in Nat /\ now >= 1 /\ now <= MaxTime
        /\ p.at \in Int /\ h.at \in Int /\ h.at <= now /\ h.ts \in Int
    BY <2>1, Zenon DEF ServiceInv, ClockInv, Earned
  <2>4. /\ Tolerance \in Nat /\ TokenTTL \in Nat /\ HelloTolerance \in Nat
        /\ Drift \in Nat /\ MaxTime \in Nat /\ HelloTolerance < DurationMax
    BY ClockAssumption
  <2>5. now <= p.at + Drift + Tolerance + TokenTTL
    BY <2>1, <2>2, <2>3, <2>4
  <2>6. ASSUME h.ts <= h.at + Drift PROVE now <= h.at + Drift + HelloTolerance
    <3>1. h.ts <= MaxTime + Drift
      BY <2>3, <2>4, <2>6
    <3>2. now <= h.ts + HelloTolerance
      BY <1>1, <2>3, <2>4, <3>1, SkewExact
    <3> QED
      BY <2>3, <2>4, <2>6, <3>2
  <2>7. last'.hello = h /\ last'.at = now
    BY <1>1
  <2>8. AdmittedPaid'
    BY <1>1, <2>2, <2>7, Zenon DEF ServiceInv, Earned, AdmittedPaid, Admitted
  <2>9. AccessEnds'
    BY <1>1, <2>2, <2>5, <2>6, <2>7, Zenon DEF AccessEnds, Admitted
  <2> QED
    BY <1>2, <2>8, <2>9 DEF ServiceInv
<1>4. CASE mode # "hosted"
  BY <1>1, <1>2, <1>4, Zenon DEF ServiceInv, AdmittedPaid, AccessEnds
<1> QED
  BY <1>3, <1>4, Zenon

(* Every step of Stripe, the clients, the network and the service. *)
LEMMA ServiceNextInv == ServiceInv /\ [ServiceNext]_serviceVars => ServiceInv'
<1> SUFFICES ASSUME ServiceInv, [ServiceNext]_serviceVars PROVE ServiceInv'
  OBVIOUS
<1>1. CASE UNCHANGED serviceVars
  BY <1>1, Zenon
     DEF serviceVars, ServiceInv, ClockInv, Earned, AdmittedPaid, AccessEnds, Admitted
<1>2. CASE ServiceNext
  BY <1>2, TickInv, PurchaseInv, SignPostInv, OnPaymentEventInv, SendHelloInv,
     HandshakeInv, Zenon DEF ServiceNext
<1> QED
  BY <1>1, <1>2

(* Only those who paid are in: for any subjects, tolerances, clocks and
   number of posts and hellos. *)
THEOREM AdmittedPaidTheorem == ServiceSpec => []AdmittedPaid
<1>1. ServiceInv => AdmittedPaid
  BY DEF ServiceInv
<1> QED
  BY ServiceInitInv, ServiceNextInv, <1>1, PTL DEF ServiceSpec

(* Access ends in time, however often posts and hellos are delivered again and
   whatever int64 a hello claims to be the time: for any subjects, tolerances
   and clocks.  That a hello is refused when its stamp is too old is proved;
   that one too far ahead is, is not so (AdmittedInTolerance). *)
THEOREM AccessEndsTheorem == ServiceSpec => []AccessEnds
<1>1. ServiceInv => AccessEnds
  BY DEF ServiceInv
<1> QED
  BY ServiceInitInv, ServiceNextInv, <1>1, PTL DEF ServiceSpec

-----------------------------------------------------------------------------
(* The probe gateway.                                                      *)

\* The vocabulary of the metrics, and a family's series over some labels.
PathTags == {"android-usb-tether", "unknown", "wi-fi"}
Decisions == {"duplicate", "first-copy", "rejected"}
PacketLabels == Decisions \X PathTags
ReasonNames == {"bad-magic", "invalid-identity", "short", "unsupported-version"}
ReasonLabels == {<<"bad-magic">>, <<"invalid-identity">>, <<"short">>,
                 <<"unsupported-version">>}
Vec(f, labels) == DOMAIN f \subseteq labels /\ \A l \in DOMAIN f : f[l] \in Nat

\* What Handle still has to count: nothing, a probe, or a rejection, perhaps
\* only its reason.
TodoInv ==
  /\ pc \in {"read", "metrics", "returned"}
  /\ pc # "metrics" => todo = <<>>
  /\ \/ todo = <<>>
     \/ \E d \in {"duplicate", "first-copy"}, p \in PathTags : todo = Counted(d, p)
     \/ \E r \in ReasonNames : todo = Rejected(r) \/ todo = Tail(Rejected(r))
  /\ found => todo # <<>> /\ Head(todo).label \in DOMAIN series[Head(todo).family]

\* The updates among t still to come: of a decision's series, and of a reason's.
Pending(t, d) ==
  IF t # <<>> /\ Head(t).family = "packets" /\ Head(t).label[1] = d THEN 1 ELSE 0
PendingReason(t) ==
  IF t # <<>> /\ t[Len(t)].family = "rejects" THEN 1 ELSE 0

\* Counters and series differ by the updates still to come; before there is a
\* duplicate, and before it has a series, a first copy has been counted.
CountInv ==
  LET packets == series["packets"] IN
  /\ DOMAIN series = Families
  /\ Vec(packets, PacketLabels) /\ Vec(series["rejects"], ReasonLabels)
  /\ counters \in [firstCopies : Nat, duplicates : Nat, rejected : Nat]
  /\ processed \in Nat
  /\ counters.firstCopies = OfDecision(packets, "first-copy") + Pending(todo, "first-copy")
  /\ counters.duplicates = OfDecision(packets, "duplicate") + Pending(todo, "duplicate")
  /\ counters.rejected = OfDecision(packets, "rejected") + Pending(todo, "rejected")
  /\ counters.rejected = Reasons(series["rejects"]) + PendingReason(todo)
  /\ counters.firstCopies + counters.duplicates + counters.rejected
       = processed + (IF pc = "metrics" THEN 1 ELSE 0)
  /\ DOMAIN seen # {} => counters.firstCopies > 0
  /\ counters.duplicates > 0 => counters.firstCopies > 0
  /\ (\E p \in PathTags : <<"duplicate", p>> \in DOMAIN packets)
       => OfDecision(packets, "first-copy") > 0
  /\ summary.stats.firstCopies + summary.stats.duplicates
       + summary.stats.rejected = summary.processed

\* What a rendering would show if the rest were loaded now.
View(f, labels) ==
  [l \in labels |-> IF scrape.pc = f /\ l \in scrape.left
                    THEN Value(series[f], l) ELSE Value(scrape.shown[f], l)]
PacketsView == View("packets", PacketLabels)
RejectsView == View("rejects", ReasonLabels)

\* The shape of a rendering: what it has yet to load has a series.
ScrapeType ==
  /\ scrape = [pc |-> scrape.pc, left |-> scrape.left, shown |-> scrape.shown,
               made |-> scrape.made, from |-> scrape.from, to |-> scrape.to]
  /\ scrape.pc \in {"idle", "packets", "rejects"}
  /\ scrape.pc \in Families => scrape.left \subseteq DOMAIN series[scrape.pc]
  /\ DOMAIN scrape.shown = Families
  /\ Vec(scrape.shown["packets"], PacketLabels)
  /\ Vec(scrape.shown["rejects"], ReasonLabels)
  /\ scrape.made \in Nat /\ scrape.from \in Nat /\ scrape.to \in Nat

\* It shows no less than there was when it began and no more than there is; a
\* duplicate's series is listed beside a first copy that was counted; and it
\* is one reason short at most.
ViewInv ==
  LET packets == scrape.shown["packets"] IN
  /\ scrape.from <= Total(PacketsView)
  /\ scrape.pc = "packets" =>
       \A l \in PacketLabels : PacketsView[l] <= Value(series["packets"], l)
  /\ scrape.pc # "packets" =>
       /\ Total(packets) <= scrape.to
       /\ OfDecision(packets, "rejected") <= Reasons(RejectsView) + 1
  /\ (\E p \in PathTags : \/ scrape.pc = "packets" /\ <<"duplicate", p>> \in scrape.left
                          \/ <<"duplicate", p>> \in DOMAIN packets)
       => OfDecision(PacketsView, "first-copy") > 0

ServerInv == TodoInv /\ CountInv /\ ScrapeType /\ ViewInv

(* What Handle has to do is one or two updates. *)
LEMMA Updates ==
  ASSUME NEW d, NEW p, NEW r
  PROVE  /\ Counted(d, p) # <<>> /\ Tail(Counted(d, p)) = <<>>
         /\ Head(Counted(d, p)) = [family |-> "packets", label |-> <<d, p>>]
         /\ PendingReason(Counted(d, p)) = 0
         /\ Rejected(r) # <<>> /\ Tail(Rejected(r)) # <<>> /\ Tail(Tail(Rejected(r))) = <<>>
         /\ Head(Rejected(r)) = [family |-> "packets", label |-> <<"rejected", "unknown">>]
         /\ Head(Tail(Rejected(r))) = [family |-> "rejects", label |-> <<r>>]
         /\ PendingReason(Rejected(r)) = 1 /\ PendingReason(Tail(Rejected(r))) = 1
<1>1. PICK u : u = [family |-> "packets", label |-> <<d, p>>]
  BY Zenon
<1>2. PICK v : v = [family |-> "packets", label |-> <<"rejected", "unknown">>]
  BY Zenon
<1>3. PICK w : w = [family |-> "rejects", label |-> <<r>>]
  BY Zenon
<1>4. Counted(d, p) = <<u>> /\ Rejected(r) = <<v, w>>
  BY <1>1, <1>2, <1>3, Zenon DEF Counted, Rejected
<1>5. /\ <<u>> # <<>> /\ Tail(<<u>>) = <<>> /\ Head(<<u>>) = u
      /\ Len(<<u>>) = 1 /\ <<u>>[1] = u
  OBVIOUS
<1>6. /\ <<v, w>> # <<>> /\ Tail(<<v, w>>) = <<w>> /\ Head(<<v, w>>) = v
      /\ Len(<<v, w>>) = 2 /\ <<v, w>>[2] = w
  OBVIOUS
<1>7. /\ <<w>> # <<>> /\ Tail(<<w>>) = <<>> /\ Head(<<w>>) = w
      /\ Len(<<w>>) = 1 /\ <<w>>[1] = w
  OBVIOUS
<1>8. u.family = "packets" /\ w.family = "rejects" /\ "packets" # "rejects"
  BY <1>1, <1>3
<1> QED
  BY <1>1, <1>2, <1>3, <1>4, <1>5, <1>6, <1>7, <1>8 DEF PendingReason

(* A value is a natural number, and so are their sums. *)
LEMMA ValueNat ==
  ASSUME NEW f, NEW labels, Vec(f, labels)
  PROVE  \A l : Value(f, l) \in Nat
  BY DEF Vec, Value

(* Sums of natural numbers. *)
LEMMA SumsNat ==
  ASSUME NEW f, \A l : Value(f, l) \in Nat
  PROVE  /\ \A d : OfDecision(f, d) \in Nat
         /\ Total(f) \in Nat /\ Reasons(f) \in Nat
<1>1. \A d : OfDecision(f, d) \in Nat
  BY DEF OfDecision
<1> QED
  BY <1>1 DEF Total, Reasons

(* One update of a packets series moves its decision's sum by one, and no
   other. *)
LEMMA PacketsBump ==
  ASSUME NEW f, NEW g, \A l : Value(f, l) \in Nat, NEW d, NEW p \in PathTags,
         Value(g, <<d, p>>) = Value(f, <<d, p>>) + 1,
         \A l : l # <<d, p>> => Value(g, l) = Value(f, l)
  PROVE  \A e : OfDecision(g, e) = OfDecision(f, e) + (IF e = d THEN 1 ELSE 0)
<1> TAKE e
<1>1. ASSUME NEW q, q # p \/ e # d PROVE Value(g, <<e, q>>) = Value(f, <<e, q>>)
  <2>1. <<e, q>> # <<d, p>>
    BY <1>1
  <2> QED
    BY <2>1
<1>2. CASE e # d
  BY <1>1, <1>2 DEF OfDecision
<1>3. CASE e = d
  <2>1. \A q \in PathTags \ {p} : Value(g, <<e, q>>) = Value(f, <<e, q>>)
    BY <1>1
  <2>2. Value(g, <<e, p>>) = Value(f, <<e, p>>) + 1
    BY <1>3
  <2>3. \A q \in PathTags : Value(f, <<e, q>>) \in Nat
    OBVIOUS
  <2> QED
    BY <1>3, <2>1, <2>2, <2>3 DEF OfDecision, PathTags
<1> QED
  BY <1>2, <1>3

(* One update of a reason's series moves the sum of the reasons by one. *)
LEMMA ReasonsBump ==
  ASSUME NEW f, NEW g, \A l : Value(f, l) \in Nat, NEW r \in ReasonNames,
         Value(g, <<r>>) = Value(f, <<r>>) + 1,
         \A l : l # <<r>> => Value(g, l) = Value(f, l)
  PROVE  Reasons(g) = Reasons(f) + 1
<1>1. ASSUME NEW q \in ReasonNames, q # r PROVE Value(g, <<q>>) = Value(f, <<q>>)
  <2>1. <<q>> # <<r>>
    BY <1>1
  <2> QED
    BY <2>1
<1>2. \A q \in ReasonNames : Value(f, <<q>>) \in Nat
  OBVIOUS
<1> QED
  BY <1>1, <1>2 DEF Reasons, ReasonNames

(* Sums of values that only rise rise. *)
LEMMA SumsRise ==
  ASSUME NEW f, NEW g, \A l : Value(f, l) \in Nat /\ Value(g, l) \in Nat
  PROVE  /\ \A d : (\A p \in PathTags : Value(f, <<d, p>>) <= Value(g, <<d, p>>))
                     => OfDecision(f, d) <= OfDecision(g, d)
         /\ (\A l \in PacketLabels : Value(f, l) <= Value(g, l)) => Total(f) <= Total(g)
         /\ (\A l \in ReasonLabels : Value(f, l) <= Value(g, l)) => Reasons(f) <= Reasons(g)
<1>1. \A d : (\A p \in PathTags : Value(f, <<d, p>>) <= Value(g, <<d, p>>))
               => OfDecision(f, d) <= OfDecision(g, d)
  BY DEF OfDecision, PathTags
<1>2. (\A l \in PacketLabels : Value(f, l) <= Value(g, l)) => Total(f) <= Total(g)
  <2> SUFFICES ASSUME \A l \in PacketLabels : Value(f, l) <= Value(g, l)
               PROVE  Total(f) <= Total(g)
    OBVIOUS
  <2>1. \A d \in Decisions : OfDecision(f, d) <= OfDecision(g, d)
    <3>1. \A d \in Decisions, p \in PathTags :
            <<d, p>> \in PacketLabels
      BY DEF PacketLabels
    <3> QED
      BY <1>1, <3>1
  <2>2. \A d : OfDecision(f, d) \in Nat /\ OfDecision(g, d) \in Nat
    BY SumsNat
  <2> QED
    BY <2>1, <2>2 DEF Total, Decisions
<1>3. (\A l \in ReasonLabels : Value(f, l) <= Value(g, l)) => Reasons(f) <= Reasons(g)
  BY DEF Reasons, ReasonLabels
<1> QED
  BY <1>1, <1>2, <1>3

(* Equal values, equal sums. *)
LEMMA SumsSame ==
  ASSUME NEW f, NEW g, \A l : Value(g, l) = Value(f, l)
  PROVE  /\ \A d : OfDecision(g, d) = OfDecision(f, d)
         /\ Total(g) = Total(f) /\ Reasons(g) = Reasons(f)
<1>1. \A d : OfDecision(g, d) = OfDecision(f, d)
  BY DEF OfDecision
<1> QED
  BY <1>1 DEF Total, Reasons

(* What a view shows. *)
LEMMA ViewValue ==
  ASSUME ScrapeType, CountInv, NEW f \in Families, NEW labels
  PROVE  /\ \A l : Value(View(f, labels), l) \in Nat
         /\ \A l \in labels : Value(View(f, labels), l) = View(f, labels)[l]
         /\ \A l \in labels : View(f, labels)[l] =
              IF scrape.pc = f /\ l \in scrape.left
              THEN Value(series[f], l) ELSE Value(scrape.shown[f], l)
<1>1. \A l : Value(series[f], l) \in Nat /\ Value(scrape.shown[f], l) \in Nat
  BY ValueNat DEF CountInv, ScrapeType, Families
<1>2. \A l \in labels : View(f, labels)[l] =
        IF scrape.pc = f /\ l \in scrape.left
        THEN Value(series[f], l) ELSE Value(scrape.shown[f], l)
  BY DEF View
<1>3. DOMAIN View(f, labels) = labels
  BY DEF View
<1>4. \A l \in labels : View(f, labels)[l] \in Nat
  BY <1>1, <1>2
<1> QED
  BY <1>2, <1>3, <1>4 DEF Value

\* The series only grow.
SeriesGrow ==
  \A f \in Families : /\ DOMAIN series[f] \subseteq DOMAIN series'[f]
                      /\ \A l : Value(series[f], l) <= Value(series'[f], l)

(* While Serve counts on, a rendering in progress stays right. *)
LEMMA ViewKept ==
  ASSUME CountInv, CountInv', ScrapeType, ViewInv, UNCHANGED scrape, SeriesGrow
  PROVE  ScrapeType' /\ ViewInv'
<1>1. ScrapeType'
  <2>1. scrape.pc \in Families => scrape.left \subseteq DOMAIN series'[scrape.pc]
    BY DEF ScrapeType, SeriesGrow
  <2> QED
    BY <2>1, Zenon DEF ScrapeType
<1>2. PICK V, W, R, S : /\ V = PacketsView /\ W = PacketsView'
                        /\ R = RejectsView /\ S = RejectsView'
  BY Zenon
<1>3. "packets" \in Families /\ "rejects" \in Families
  BY DEF Families
<1>4. /\ \A l : Value(V, l) \in Nat /\ Value(R, l) \in Nat
      /\ \A l \in PacketLabels : /\ Value(V, l) = V[l]
           /\ V[l] = IF scrape.pc = "packets" /\ l \in scrape.left
                     THEN Value(series["packets"], l) ELSE Value(scrape.shown["packets"], l)
      /\ \A l \in ReasonLabels : /\ Value(R, l) = R[l]
           /\ R[l] = IF scrape.pc = "rejects" /\ l \in scrape.left
                     THEN Value(series["rejects"], l) ELSE Value(scrape.shown["rejects"], l)
  BY <1>2, <1>3, ViewValue, Zenon DEF PacketsView, RejectsView
<1>5. /\ \A l : Value(W, l) \in Nat /\ Value(S, l) \in Nat
      /\ \A l \in PacketLabels : /\ Value(W, l) = W[l]
           /\ W[l] = IF scrape.pc = "packets" /\ l \in scrape.left
                     THEN Value(series'["packets"], l) ELSE Value(scrape.shown["packets"], l)
      /\ \A l \in ReasonLabels : /\ Value(S, l) = S[l]
           /\ S[l] = IF scrape.pc = "rejects" /\ l \in scrape.left
                     THEN Value(series'["rejects"], l) ELSE Value(scrape.shown["rejects"], l)
  <2>1. /\ \A f \in Families : \A l : /\ Value(series'[f], l) \in Nat
                                      /\ Value(scrape.shown[f], l) \in Nat
    BY ValueNat DEF CountInv, ScrapeType, Families
  <2>2. /\ W = [l \in PacketLabels |-> IF scrape.pc = "packets" /\ l \in scrape.left
                THEN Value(series'["packets"], l) ELSE Value(scrape.shown["packets"], l)]
        /\ S = [l \in ReasonLabels |-> IF scrape.pc = "rejects" /\ l \in scrape.left
                THEN Value(series'["rejects"], l) ELSE Value(scrape.shown["rejects"], l)]
    BY <1>2, Zenon DEF PacketsView, RejectsView, View, Value
  <2> QED
    BY <1>3, <2>1, <2>2 DEF Value
<1>6. /\ \A l \in PacketLabels : Value(V, l) <= Value(W, l)
      /\ \A l \in ReasonLabels : Value(R, l) <= Value(S, l)
  BY <1>3, <1>4, <1>5 DEF SeriesGrow
<1>7. /\ Total(V) <= Total(W) /\ Reasons(R) <= Reasons(S)
      /\ OfDecision(V, "first-copy") <= OfDecision(W, "first-copy")
  <2>1. \A p \in PathTags : <<"first-copy", p>> \in PacketLabels
    BY DEF PacketLabels, Decisions
  <2> QED
    BY <1>4, <1>5, <1>6, <2>1, SumsRise
<1>8. /\ Total(V) \in Nat /\ Total(W) \in Nat /\ Reasons(R) \in Nat /\ Reasons(S) \in Nat
      /\ OfDecision(V, "first-copy") \in Nat /\ OfDecision(W, "first-copy") \in Nat
  BY <1>4, <1>5, SumsNat
<1>9. PICK shown : shown = scrape.shown["packets"]
  BY Zenon
<1>10. OfDecision(shown, "rejected") \in Nat /\ scrape.from \in Nat
  <2>1. \A l : Value(shown, l) \in Nat
    BY <1>9, ValueNat DEF ScrapeType
  <2> QED
    BY <2>1, SumsNat DEF ScrapeType
<1>11. /\ scrape.from <= Total(W)
       /\ scrape.pc = "packets" =>
            \A l \in PacketLabels : W[l] <= Value(series'["packets"], l)
  <2>1. scrape.from <= Total(W)
    BY <1>2, <1>7, <1>8, <1>10 DEF ViewInv
  <2>2. ASSUME scrape.pc = "packets", NEW l \in PacketLabels
        PROVE  W[l] <= Value(series'["packets"], l)
    <3>1. V[l] <= Value(series["packets"], l)
      BY <1>2, <2>2 DEF ViewInv
    <3>2. Value(series["packets"], l) <= Value(series'["packets"], l)
      BY <1>3 DEF SeriesGrow
    <3>3. Value(series["packets"], l) \in Nat /\ Value(series'["packets"], l) \in Nat
      BY ValueNat DEF CountInv
    <3> QED
      BY <1>4, <1>5, <3>1, <3>2, <3>3
  <2> QED
    BY <2>1, <2>2
<1>12. scrape.pc # "packets" => /\ Total(shown) <= scrape.to
                                /\ OfDecision(shown, "rejected") <= Reasons(S) + 1
  BY <1>2, <1>7, <1>8, <1>9, <1>10 DEF ViewInv
<1>13. (\E p \in PathTags : \/ scrape.pc = "packets" /\ <<"duplicate", p>> \in scrape.left
                            \/ <<"duplicate", p>> \in DOMAIN shown)
         => OfDecision(W, "first-copy") > 0
  BY <1>2, <1>7, <1>8, <1>9 DEF ViewInv
<1> QED
  BY <1>1, <1>2, <1>9, <1>11, <1>12, <1>13, Zenon DEF ViewInv

\* The next update is of a packets series, or the last one, of a reason.
NextIsPacket(d, p) ==
  /\ Head(todo) = [family |-> "packets", label |-> <<d, p>>]
  /\ \A e : Pending(todo, e) = (IF e = d THEN 1 ELSE 0) /\ Pending(Tail(todo), e) = 0
  /\ PendingReason(Tail(todo)) = PendingReason(todo)
  /\ Tail(todo) = <<>> \/ \E r \in ReasonNames : Tail(todo) = Tail(Rejected(r))
NextIsReason(r) ==
  /\ Head(todo) = [family |-> "rejects", label |-> <<r>>]
  /\ \A e : Pending(todo, e) = 0
  /\ PendingReason(todo) = 1 /\ Tail(todo) = <<>>

(* Nothing to come. *)
LEMMA NoUpdate == (\A e : Pending(<<>>, e) = 0) /\ PendingReason(<<>>) = 0
  BY DEF Pending, PendingReason

(* A packets update counts for its own decision. *)
LEMMA PacketPending ==
  ASSUME NEW t, NEW d, NEW p, t # <<>>,
         Head(t) = [family |-> "packets", label |-> <<d, p>>]
  PROVE  \A e : Pending(t, e) = IF e = d THEN 1 ELSE 0
<1>1. Head(t).family = "packets" /\ Head(t).label[1] = d
  OBVIOUS
<1> QED
  BY <1>1 DEF Pending

(* Of the updates, one kind or the other is next. *)
LEMMA NextUpdate ==
  ASSUME TodoInv, todo # <<>>
  PROVE  \/ \E d \in Decisions, p \in PathTags : NextIsPacket(d, p)
         \/ \E r \in ReasonNames : NextIsReason(r)
<1>1. ASSUME NEW t, NEW r, Head(t) = [family |-> "rejects", label |-> <<r>>]
      PROVE  \A e : Pending(t, e) = 0
  <2>1. Head(t).family # "packets"
    BY <1>1
  <2> QED
    BY <2>1 DEF Pending
<1>2. CASE \E d \in {"duplicate", "first-copy"}, p \in PathTags : todo = Counted(d, p)
  <2>1. PICK d \in {"duplicate", "first-copy"}, p \in PathTags : todo = Counted(d, p)
    BY <1>2
  <2>2. /\ todo # <<>> /\ PendingReason(todo) = 0 /\ Tail(todo) = <<>>
        /\ Head(todo) = [family |-> "packets", label |-> <<d, p>>]
    BY <2>1, Updates
  <2>3. \A e : Pending(todo, e) = (IF e = d THEN 1 ELSE 0) /\ Pending(Tail(todo), e) = 0
    BY <2>2, NoUpdate, PacketPending, Zenon
  <2>4. NextIsPacket(d, p)
    BY <2>2, <2>3, NoUpdate, Zenon DEF NextIsPacket
  <2> QED
    BY <2>1, <2>4 DEF Decisions
<1>3. CASE \E r \in ReasonNames : todo = Rejected(r)
  <2>1. PICK r \in ReasonNames : todo = Rejected(r)
    BY <1>3
  <2>2. /\ todo # <<>> /\ PendingReason(todo) = 1 /\ PendingReason(Tail(todo)) = 1
        /\ Head(todo) = [family |-> "packets", label |-> <<"rejected", "unknown">>]
        /\ Head(Tail(todo)) = [family |-> "rejects", label |-> <<r>>]
    BY <2>1, Updates
  <2>3. \A e : /\ Pending(todo, e) = (IF e = "rejected" THEN 1 ELSE 0)
               /\ Pending(Tail(todo), e) = 0
    BY <1>1, <2>2, PacketPending, Zenon
  <2>4. NextIsPacket("rejected", "unknown")
    BY <2>1, <2>2, <2>3, Zenon DEF NextIsPacket
  <2> QED
    BY <2>4 DEF Decisions, PathTags
<1>4. CASE \E r \in ReasonNames : todo = Tail(Rejected(r))
  <2>1. PICK r \in ReasonNames : todo = Tail(Rejected(r))
    BY <1>4
  <2>2. NextIsReason(r)
    BY <1>1, <2>1, Updates, ZenonT(30) DEF NextIsReason
  <2> QED
    BY <2>2
<1> QED
  BY <1>2, <1>3, <1>4, Zenon DEF TodoInv

(* sampleFor changes no value; the series it makes is that of the update. *)
LEMMA Sampled ==
  ASSUME TodoInv, CountInv, SampleFor
  PROVE  /\ DOMAIN series' = Families
         /\ Vec(series'["packets"], PacketLabels) /\ Vec(series'["rejects"], ReasonLabels)
         /\ SeriesGrow
         /\ \A f \in Families : \A l : Value(series'[f], l) = Value(series[f], l)
         /\ Head(todo).label \in DOMAIN series'[Head(todo).family]
         /\ \A l \in DOMAIN series'["packets"] \ DOMAIN series["packets"] :
              Head(todo) = [family |-> "packets", label |-> l]
<1>1. /\ DOMAIN series = Families
      /\ Vec(series["packets"], PacketLabels) /\ Vec(series["rejects"], ReasonLabels)
  BY DEF CountInv
<1>2. PICK u : u = Head(todo)
  BY Zenon
<1>3. /\ u \in [family : Families, label : {u.label}]
      /\ u.family = "packets" => u.label \in PacketLabels
      /\ u.family = "rejects" => u.label \in ReasonLabels
  <2>1. CASE \E d \in Decisions, p \in PathTags : NextIsPacket(d, p)
    <3>1. PICK d \in Decisions, p \in PathTags :
            u = [family |-> "packets", label |-> <<d, p>>]
      BY <1>2, <2>1, Zenon DEF NextIsPacket
    <3> QED
      BY <3>1 DEF Families, PacketLabels
  <2>2. CASE \E r \in ReasonNames : NextIsReason(r)
    <3>1. PICK r \in ReasonNames : u = [family |-> "rejects", label |-> <<r>>]
      BY <1>2, <2>2, Zenon DEF NextIsReason
    <3>2. <<r>> \in ReasonLabels
      BY DEF ReasonNames, ReasonLabels
    <3> QED
      BY <3>1, <3>2 DEF Families
  <2>3. todo # <<>>
    BY DEF SampleFor
  <2> QED
    BY <2>1, <2>2, <2>3, NextUpdate
<1>4. PICK g : g = [l \in DOMAIN series[u.family] \cup {u.label} |->
                      IF l \in DOMAIN series[u.family] THEN series[u.family][l] ELSE 0]
  BY Zenon
<1>5. series' = [series EXCEPT ![u.family] = g]
  BY <1>2, <1>4, Zenon DEF SampleFor
<1>6. /\ DOMAIN series' = Families /\ series'[u.family] = g
      /\ \A f \in Families \ {u.family} : series'[f] = series[f]
  BY <1>1, <1>3, <1>5
<1>7. /\ DOMAIN g = DOMAIN series[u.family] \cup {u.label}
      /\ \A l : Value(g, l) = Value(series[u.family], l)
      /\ \A labels : Vec(series[u.family], labels) /\ u.label \in labels => Vec(g, labels)
  BY <1>4 DEF Value, Vec
<1>8. \A f \in Families : \A l : Value(series'[f], l) = Value(series[f], l)
  BY <1>6, <1>7
<1>9. Vec(series'["packets"], PacketLabels) /\ Vec(series'["rejects"], ReasonLabels)
  BY <1>1, <1>3, <1>6, <1>7 DEF Families
<1>10. SeriesGrow
  <2>1. \A f \in Families : \A l : Value(series[f], l) \in Nat
    BY <1>1, ValueNat DEF Families
  <2>2. \A f \in Families : DOMAIN series[f] \subseteq DOMAIN series'[f]
    BY <1>6, <1>7
  <2> QED
    BY <1>8, <2>1, <2>2 DEF SeriesGrow
<1>11. u.label \in DOMAIN series'[u.family]
  BY <1>6, <1>7
<1>12. ASSUME NEW l \in DOMAIN series'["packets"] \ DOMAIN series["packets"]
       PROVE  u = [family |-> "packets", label |-> l]
  <2>1. u.family = "packets" /\ u.label = l
    BY <1>6, <1>7 DEF Families
  <2> QED
    BY <1>3, <2>1
<1> QED
  BY <1>2, <1>6, <1>8, <1>9, <1>10, <1>11, <1>12

(* sampleFor keeps the invariant. *)
LEMMA SampleForInv ==
  ASSUME TodoInv, CountInv, SampleFor PROVE TodoInv' /\ CountInv' /\ SeriesGrow
<1>1. /\ pc = "metrics" /\ todo # <<>> /\ found'
      /\ UNCHANGED <<seen, pc, todo, counters, processed, summary>>
  BY Zenon DEF SampleFor, windowVars
<1>2. TodoInv'
  BY <1>1, Sampled DEF TodoInv
<1>3. PICK f, g : f = series["packets"] /\ g = series'["packets"]
  BY Zenon
<1>4. /\ \A d : OfDecision(g, d) = OfDecision(f, d)
      /\ Reasons(series'["rejects"]) = Reasons(series["rejects"])
  <2>1. \A l : Value(g, l) = Value(f, l)
    BY <1>3, Sampled DEF Families
  <2>2. \A l : Value(series'["rejects"], l) = Value(series["rejects"], l)
    BY Sampled DEF Families
  <2> QED
    BY <2>1, <2>2, SumsSame
<1>5. (\E p \in PathTags : <<"duplicate", p>> \in DOMAIN g) => OfDecision(g, "first-copy") > 0
  <2> SUFFICES ASSUME NEW p \in PathTags, <<"duplicate", p>> \in DOMAIN g
               PROVE  OfDecision(f, "first-copy") > 0
    BY <1>4
  <2>1. CASE <<"duplicate", p>> \in DOMAIN f
    BY <1>3, <2>1 DEF CountInv
  <2>2. CASE <<"duplicate", p>> \notin DOMAIN f
    <3>1. Head(todo) = [family |-> "packets", label |-> <<"duplicate", p>>]
      BY <1>3, <2>2, Sampled
    <3>2. Head(todo).family = "packets" /\ Head(todo).label[1] = "duplicate"
      BY <3>1
    <3>3. Pending(todo, "duplicate") = 1 /\ Pending(todo, "first-copy") = 0
      BY <1>1, <3>2, Zenon DEF Pending
    <3>4. \A d : OfDecision(f, d) \in Nat
      BY <1>3, ValueNat, SumsNat DEF CountInv
    <3>5. /\ counters.firstCopies = OfDecision(f, "first-copy") + Pending(todo, "first-copy")
          /\ counters.duplicates = OfDecision(f, "duplicate") + Pending(todo, "duplicate")
          /\ counters.duplicates > 0 => counters.firstCopies > 0
      BY <1>3, Zenon DEF CountInv
    <3> QED
      BY <3>3, <3>4, <3>5
  <2> QED
    BY <2>1, <2>2
<1>6. CountInv'
  BY <1>1, <1>3, <1>4, <1>5, Sampled, ZenonT(30) DEF CountInv
<1> QED
  BY <1>2, <1>6, Sampled

(* The update itself moves one value by one. *)
LEMMA Added ==
  ASSUME TodoInv, CountInv, Add
  PROVE  /\ DOMAIN series' = Families
         /\ \A f \in Families : DOMAIN series'[f] = DOMAIN series[f]
         /\ Vec(series'["packets"], PacketLabels) /\ Vec(series'["rejects"], ReasonLabels)
         /\ SeriesGrow
         /\ \A f \in Families : \A l \in DOMAIN series[f] :
              series'[f][l] = series[f][l] + (IF f = Head(todo).family /\ l = Head(todo).label
                                              THEN 1 ELSE 0)
<1>1. /\ DOMAIN series = Families
      /\ Vec(series["packets"], PacketLabels) /\ Vec(series["rejects"], ReasonLabels)
  BY DEF CountInv
<1>2. PICK u : u = Head(todo)
  BY Zenon
<1>3. u.family \in Families /\ u.label \in DOMAIN series[u.family]
  <2>1. todo # <<>> /\ found
    BY DEF Add
  <2>2. CASE \E d \in Decisions, p \in PathTags : NextIsPacket(d, p)
    <3>1. u.family = "packets"
      BY <1>2, <2>2 DEF NextIsPacket
    <3> QED
      BY <1>2, <2>1, <3>1 DEF TodoInv, Families
  <2>3. CASE \E r \in ReasonNames : NextIsReason(r)
    <3>1. u.family = "rejects"
      BY <1>2, <2>3 DEF NextIsReason
    <3> QED
      BY <1>2, <2>1, <3>1 DEF TodoInv, Families
  <2> QED
    BY <2>1, <2>2, <2>3, NextUpdate
<1>4. PICK g : g = [series[u.family] EXCEPT ![u.label] = series[u.family][u.label] + 1]
  BY Zenon
<1>5. series' = [series EXCEPT ![u.family] = g]
  <2>1. series' = [series EXCEPT ![u.family] =
                     [series[u.family] EXCEPT ![u.label] = series[u.family][u.label] + 1]]
    BY <1>2, <1>3 DEF Add
  <2> QED
    BY <1>4, <2>1
<1>6. /\ DOMAIN series' = Families /\ series'[u.family] = g
      /\ \A f \in Families \ {u.family} : series'[f] = series[f]
  BY <1>1, <1>3, <1>5
<1>7. /\ DOMAIN g = DOMAIN series[u.family] /\ g[u.label] = series[u.family][u.label] + 1
      /\ \A l \in DOMAIN g \ {u.label} : g[l] = series[u.family][l]
  BY <1>3, <1>4
<1>8. \A f \in Families : \A l \in DOMAIN series[f] : series[f][l] \in Nat
  BY <1>1 DEF Vec, Families
<1>9. \A f \in Families : DOMAIN series'[f] = DOMAIN series[f]
  BY <1>6, <1>7
<1>10. \A f \in Families : \A l \in DOMAIN series[f] :
         series'[f][l] = series[f][l] + (IF f = u.family /\ l = u.label THEN 1 ELSE 0)
  <2> SUFFICES ASSUME NEW f \in Families, NEW l \in DOMAIN series[f]
               PROVE  series'[f][l] = series[f][l]
                        + (IF f = u.family /\ l = u.label THEN 1 ELSE 0)
    BY Zenon
  <2>1. CASE f = u.family
    BY <1>6, <1>7, <1>8, <2>1
  <2>2. CASE f # u.family
    BY <1>6, <1>8, <2>2
  <2> QED
    BY <2>1, <2>2
<1>11. \A f \in Families : \A l \in DOMAIN series[f] :
         series'[f][l] \in Nat /\ series[f][l] <= series'[f][l]
  BY <1>8, <1>10
<1>12. Vec(series'["packets"], PacketLabels) /\ Vec(series'["rejects"], ReasonLabels)
  BY <1>1, <1>9, <1>11 DEF Vec, Families
<1>13. SeriesGrow
  <2>1. ASSUME NEW f \in Families
        PROVE  /\ DOMAIN series[f] \subseteq DOMAIN series'[f]
               /\ \A l : Value(series[f], l) <= Value(series'[f], l)
    <3>1. PICK a, b : a = series[f] /\ b = series'[f]
      BY Zenon
    <3>2. DOMAIN b = DOMAIN a /\ \A l \in DOMAIN a : a[l] <= b[l]
      BY <1>9, <1>11, <3>1, Zenon
    <3>3. \A l : Value(a, l) <= Value(b, l)
      BY <3>2 DEF Value
    <3> QED
      BY <3>1, <3>2, <3>3, Zenon
  <2> QED
    BY <2>1, Zenon DEF SeriesGrow
<1> QED
  BY <1>2, <1>6, <1>9, <1>10, <1>12, <1>13

(* An update keeps the invariant. *)
LEMMA AddInv == ASSUME TodoInv, CountInv, Add PROVE TodoInv' /\ CountInv' /\ SeriesGrow
<1>1. /\ pc = "metrics" /\ todo # <<>> /\ found /\ ~found' /\ todo' = Tail(todo)
      /\ UNCHANGED <<seen, pc, counters, processed, summary>>
  BY DEF Add, windowVars
<1>2. PICK f, g, r, s : /\ f = series["packets"] /\ g = series'["packets"]
                        /\ r = series["rejects"] /\ s = series'["rejects"]
  BY Zenon
<1>3. /\ DOMAIN g = DOMAIN f /\ DOMAIN s = DOMAIN r
      /\ \A l \in DOMAIN f : g[l] = f[l]
           + (IF "packets" = Head(todo).family /\ l = Head(todo).label
              THEN 1 ELSE 0)
      /\ \A l \in DOMAIN r : s[l] = r[l]
           + (IF "rejects" = Head(todo).family /\ l = Head(todo).label
              THEN 1 ELSE 0)
  BY <1>2, Added DEF Families
<1>4. /\ \A l : Value(f, l) \in Nat /\ Value(r, l) \in Nat
      /\ \A l \in DOMAIN f : f[l] \in Nat
      /\ \A l \in DOMAIN r : r[l] \in Nat
  BY <1>2, ValueNat, Zenon DEF CountInv, Vec
<1>5. (\A d : OfDecision(f, d) \in Nat /\ OfDecision(g, d) \in Nat) /\ Reasons(r) \in Nat
  <2>1. \A l : Value(g, l) \in Nat
    BY <1>2, Added, ValueNat, Zenon
  <2> QED
    BY <1>4, <2>1, SumsNat
<1>6. /\ todo' = <<>> \/ \E q \in ReasonNames : todo' = Tail(Rejected(q))
      /\ \A d : OfDecision(g, d) + Pending(todo', d) = OfDecision(f, d) + Pending(todo, d)
      /\ Reasons(s) + PendingReason(todo') = Reasons(r) + PendingReason(todo)
      /\ \A d : OfDecision(g, d) >= OfDecision(f, d)
  <2>1. CASE \E d \in Decisions, p \in PathTags : NextIsPacket(d, p)
    <3>1. PICK d \in Decisions, p \in PathTags : NextIsPacket(d, p)
      BY <2>1
    <3>2. /\ Head(todo).family = "packets" /\ Head(todo).label = <<d, p>>
          /\ \A e : Pending(todo, e) = (IF e = d THEN 1 ELSE 0) /\ Pending(todo', e) = 0
          /\ PendingReason(todo') = PendingReason(todo)
          /\ todo' = <<>> \/ \E q \in ReasonNames : todo' = Tail(Rejected(q))
      <4>1. /\ \A e : /\ Pending(todo, e) = (IF e = d THEN 1 ELSE 0)
                      /\ Pending(Tail(todo), e) = 0
            /\ PendingReason(Tail(todo)) = PendingReason(todo)
            /\ \/ Tail(todo) = <<>>
               \/ \E q \in ReasonNames : Tail(todo) = Tail(Rejected(q))
        BY <3>1, Zenon DEF NextIsPacket
      <4>2. Head(todo).family = "packets" /\ Head(todo).label = <<d, p>>
        <5>1. Head(todo) = [family |-> "packets", label |-> <<d, p>>]
          BY <3>1, Zenon DEF NextIsPacket
        <5> QED
          BY <5>1
      <4>3. todo' = Tail(todo)
        BY <1>1
      <4> QED
        BY <4>1, <4>2, <4>3, Zenon
    <3>3. <<d, p>> \in DOMAIN f
      BY <1>1, <1>2, <3>2, Zenon DEF TodoInv
    <3>4. /\ Value(g, <<d, p>>) = Value(f, <<d, p>>) + 1
          /\ \A l : l # <<d, p>> => Value(g, l) = Value(f, l)
      BY <1>3, <1>4, <3>2, <3>3 DEF Value
    <3>5. \A e : OfDecision(g, e) = OfDecision(f, e) + (IF e = d THEN 1 ELSE 0)
      BY <1>4, <3>4, PacketsBump
    <3>6. Reasons(s) = Reasons(r)
      <4>1. \A l : Value(s, l) = Value(r, l)
        BY <1>3, <1>4, <3>2 DEF Value
      <4> QED
        BY <4>1, SumsSame
    <3> QED
      BY <1>5, <3>2, <3>5, <3>6
  <2>2. CASE \E q \in ReasonNames : NextIsReason(q)
    <3>1. PICK q \in ReasonNames : NextIsReason(q)
      BY <2>2, Zenon
    <3>2. /\ Head(todo).family = "rejects" /\ Head(todo).label = <<q>>
          /\ \A e : Pending(todo, e) = 0
          /\ PendingReason(todo) = 1 /\ todo' = <<>>
      BY <1>1, <3>1 DEF NextIsReason
    <3>3. <<q>> \in DOMAIN r
      BY <1>1, <1>2, <3>2, Zenon DEF TodoInv
    <3>4. /\ Value(s, <<q>>) = Value(r, <<q>>) + 1
          /\ \A l : l # <<q>> => Value(s, l) = Value(r, l)
      BY <1>3, <1>4, <3>2, <3>3 DEF Value
    <3>5. Reasons(s) = Reasons(r) + 1
      BY <1>4, <3>4, ReasonsBump
    <3>6. \A e : OfDecision(g, e) = OfDecision(f, e)
      <4>1. \A l : Value(g, l) = Value(f, l)
        BY <1>3, <1>4, <3>2 DEF Value
      <4> QED
        BY <4>1, SumsSame
    <3> QED
      BY <1>5, <3>2, <3>5, <3>6, NoUpdate
  <2> QED
    BY <1>1, <2>1, <2>2, NextUpdate, Zenon
<1>7. TodoInv'
  BY <1>1, <1>6, Zenon DEF TodoInv
<1>8. (\E p \in PathTags : <<"duplicate", p>> \in DOMAIN g) => OfDecision(g, "first-copy") > 0
  <2>1. (\E p \in PathTags : <<"duplicate", p>> \in DOMAIN f) => OfDecision(f, "first-copy") > 0
    BY <1>2, Zenon DEF CountInv
  <2>2. OfDecision(g, "first-copy") >= OfDecision(f, "first-copy")
    BY <1>6
  <2> QED
    BY <1>3, <1>5, <2>1, <2>2
<1>9. CountInv'
  BY <1>1, <1>2, <1>6, <1>8, Added, Zenon DEF CountInv
<1> QED
  BY <1>7, <1>9, Added

(* The decoder gives one of four reasons, or none. *)
LEMMA ReasonGiven == \A d : UnmarshalProbe(d) \in ReasonNames \cup {""}
  BY Zenon DEF UnmarshalProbe, ReasonNames

(* PathTag.String has three answers. *)
LEMMA TagGiven == \A path : PathTagString(path) \in PathTags
  BY DEF PathTagString, PathTags

(* A datagram is counted and its updates are to come. *)
LEMMA HandleInv ==
  ASSUME TodoInv, CountInv, NEW d \in Datagrams, Handle(d) PROVE TodoInv' /\ CountInv'
<1>1. /\ pc = "read" /\ pc' = "metrics" /\ found' = FALSE /\ todo = <<>>
      /\ UNCHANGED <<series, processed, summary>>
  BY Zenon DEF Handle, TodoInv
<1>2. (\A e : Pending(todo, e) = 0) /\ PendingReason(todo) = 0
  BY <1>1, NoUpdate
<1>3. PICK f, n : f = series["packets"] /\ n = Reasons(series["rejects"])
  BY Zenon
<1>4. (\A e : OfDecision(f, e) \in Nat) /\ n \in Nat
  BY <1>3, ValueNat, SumsNat, Zenon DEF CountInv
<1>5. PICK a \in Nat, b \in Nat, c \in Nat :
        counters = [firstCopies |-> a, duplicates |-> b, rejected |-> c]
  <2>1. counters \in [firstCopies : Nat, duplicates : Nat, rejected : Nat]
    BY Zenon DEF CountInv
  <2> QED
    BY <2>1
<1>6. /\ a = OfDecision(f, "first-copy") /\ b = OfDecision(f, "duplicate")
      /\ c = OfDecision(f, "rejected") /\ c = n
      /\ a + b + c = processed /\ processed \in Nat
      /\ DOMAIN seen # {} => a > 0
      /\ b > 0 => a > 0
  <2>1. /\ counters.firstCopies = OfDecision(f, "first-copy") + Pending(todo, "first-copy")
        /\ counters.duplicates = OfDecision(f, "duplicate") + Pending(todo, "duplicate")
        /\ counters.rejected = OfDecision(f, "rejected") + Pending(todo, "rejected")
        /\ counters.rejected = n + PendingReason(todo)
        /\ processed \in Nat
        /\ counters.firstCopies + counters.duplicates + counters.rejected
             = processed + (IF pc = "metrics" THEN 1 ELSE 0)
        /\ DOMAIN seen # {} => counters.firstCopies > 0
        /\ counters.duplicates > 0 => counters.firstCopies > 0
    BY <1>3, Zenon DEF CountInv
  <2>2. counters.firstCopies = a /\ counters.duplicates = b /\ counters.rejected = c
    BY <1>5
  <2> QED
    BY <1>1, <1>2, <1>4, <2>1, <2>2
\* What has to be shown of the new counters.
<1> DEFINE Fit(x, y, z) ==
      /\ counters' = [firstCopies |-> x, duplicates |-> y, rejected |-> z]
      /\ x + y + z = processed + 1
      /\ y > 0 => x > 0
      /\ DOMAIN seen' # {} => x > 0
      /\ x = a + Pending(todo', "first-copy")
      /\ y = b + Pending(todo', "duplicate")
      /\ z = c + Pending(todo', "rejected")
      /\ z = n + PendingReason(todo')
<1>7. ASSUME NEW x \in Nat, NEW y \in Nat, NEW z \in Nat, Fit(x, y, z) PROVE CountInv'
  <2>1. /\ counters' \in [firstCopies : Nat, duplicates : Nat, rejected : Nat]
        /\ counters'.firstCopies = x /\ counters'.duplicates = y /\ counters'.rejected = z
    BY <1>7
  <2>2. /\ DOMAIN series = Families
        /\ Vec(f, PacketLabels) /\ Vec(series["rejects"], ReasonLabels)
        /\ (\E p \in PathTags : <<"duplicate", p>> \in DOMAIN f) => a > 0
        /\ summary.stats.firstCopies + summary.stats.duplicates
             + summary.stats.rejected = summary.processed
    BY <1>3, <1>6, Zenon DEF CountInv
  <2> QED
    BY <1>1, <1>3, <1>6, <1>7, <2>1, <2>2, Zenon DEF CountInv
<1>8. CASE HandleMalformed(d)
  <2>1. PICK r \in ReasonNames : r = UnmarshalProbe(d)
    BY <1>8, ReasonGiven, Zenon DEF HandleMalformed
  <2>2. /\ todo' = Rejected(r) /\ counters' = [counters EXCEPT !.rejected = @ + 1]
        /\ seen' = seen
    BY <1>8, <2>1, Zenon DEF HandleMalformed, windowVars
  <2>3. /\ todo' # <<>> /\ PendingReason(todo') = 1
        /\ Head(todo') = [family |-> "packets", label |-> <<"rejected", "unknown">>]
    BY <2>2, Updates
  <2>4. /\ Pending(todo', "rejected") = 1 /\ Pending(todo', "duplicate") = 0
        /\ Pending(todo', "first-copy") = 0
    BY <2>3, PacketPending
  <2>5. TodoInv'
    BY <1>1, <2>1, <2>2, Zenon DEF TodoInv
  <2>6. counters' = [firstCopies |-> a, duplicates |-> b, rejected |-> c + 1]
    BY <1>5, <2>2, Zenon
  <2>7. Fit(a, b, c + 1) /\ c + 1 \in Nat
    <3>1. seen' = seen /\ PendingReason(todo') = 1
      BY <2>2, <2>3
    <3> QED
      BY <1>6, <2>4, <2>6, <3>1
  <2> QED
    BY <1>7, <2>5, <2>7, Zenon
<1>9. CASE HandleProbe(d)
  <2>1. PICK p \in PathTags : p = PathTagString(d.path)
    BY TagGiven
  <2>2. /\ Observe(d.id, p) /\ todo' = Counted(result'.decision, p)
        /\ counters' = IF result'.decision = "first-copy"
                       THEN [counters EXCEPT !.firstCopies = @ + 1]
                       ELSE [counters EXCEPT !.duplicates = @ + 1]
    BY <1>9, <2>1, Zenon DEF HandleProbe
  <2>3. ASSUME NEW e, todo' = Counted(e, p)
        PROVE  PendingReason(todo') = 0 /\ \A x : Pending(todo', x) = IF x = e THEN 1 ELSE 0
    <3>1. /\ todo' # <<>> /\ PendingReason(todo') = 0
          /\ Head(todo') = [family |-> "packets", label |-> <<e, p>>]
      BY <2>3, Updates
    <3> QED
      BY <3>1, PacketPending, Zenon
  <2>4. CASE ObserveDuplicate(d.id, p)
    <3>1. d.id \in DOMAIN seen /\ result'.decision = "duplicate"
      BY <2>4 DEF ObserveDuplicate
    <3>2. todo' = Counted("duplicate", p) /\ counters' = [counters EXCEPT !.duplicates = @ + 1]
      BY <2>2, <3>1
    <3>3. /\ a > 0 /\ PendingReason(todo') = 0 /\ Pending(todo', "rejected") = 0
          /\ Pending(todo', "duplicate") = 1 /\ Pending(todo', "first-copy") = 0
      BY <1>6, <2>3, <3>1, <3>2
    <3>4. TodoInv'
      BY <1>1, <2>1, <3>2, Zenon DEF TodoInv
    <3>5. counters' = [firstCopies |-> a, duplicates |-> b + 1, rejected |-> c]
      BY <1>5, <3>2, Zenon
    <3>6. Fit(a, b + 1, c) /\ b + 1 \in Nat
      BY <1>6, <3>3, <3>5
    <3> QED
      BY <1>7, <3>4, <3>6, Zenon
  <2>5. CASE ObserveFirst(d.id, p)
    <3>1. result'.decision = "first-copy"
      BY <2>5, Zenon DEF ObserveFirst
    <3>2. todo' = Counted("first-copy", p) /\ counters' = [counters EXCEPT !.firstCopies = @ + 1]
      BY <2>2, <3>1
    <3>3. /\ PendingReason(todo') = 0 /\ Pending(todo', "rejected") = 0
          /\ Pending(todo', "duplicate") = 0 /\ Pending(todo', "first-copy") = 1
      BY <2>3, <3>2
    <3>4. TodoInv'
      BY <1>1, <2>1, <3>2, Zenon DEF TodoInv
    <3>5. counters' = [firstCopies |-> a + 1, duplicates |-> b, rejected |-> c]
      BY <1>5, <3>2, Zenon
    <3>6. Fit(a + 1, b, c) /\ a + 1 \in Nat
      BY <1>6, <3>3, <3>5
    <3> QED
      BY <1>7, <3>4, <3>6, Zenon
  <2> QED
    BY <2>2, <2>4, <2>5 DEF Observe
<1> QED
  BY <1>8, <1>9 DEF Handle

(* Handle returns, and the summary is of datagrams counted in full. *)
LEMMA HandleDoneInv == ASSUME TodoInv, CountInv, HandleDone PROVE TodoInv' /\ CountInv'
<1>1. /\ pc = "metrics" /\ pc' = "read" /\ todo = <<>> /\ processed' = processed + 1
      /\ UNCHANGED <<seen, todo, found, counters, series>>
  BY DEF HandleDone, windowVars
<1>2. TodoInv'
  BY <1>1, Zenon DEF TodoInv
<1>3. /\ counters.firstCopies + counters.duplicates + counters.rejected = processed'
      /\ processed' \in Nat
  <2>1. /\ counters.firstCopies + counters.duplicates + counters.rejected
             = processed + (IF pc = "metrics" THEN 1 ELSE 0)
        /\ processed \in Nat
    BY Zenon DEF CountInv
  <2> QED
    BY <1>1, <2>1
<1>4. summary' = summary \/ summary' = [stats |-> counters, processed |-> processed']
  BY Zenon DEF HandleDone, Stats
<1>5. summary'.stats.firstCopies + summary'.stats.duplicates
        + summary'.stats.rejected = summary'.processed
  <2>1. summary.stats.firstCopies + summary.stats.duplicates
          + summary.stats.rejected = summary.processed
    BY Zenon DEF CountInv
  <2>2. CASE summary' = summary
    BY <2>1, <2>2
  <2>3. CASE summary' = [stats |-> counters, processed |-> processed']
    BY <1>3, <2>3
  <2> QED
    BY <1>4, <2>2, <2>3, Zenon
<1>6. CountInv'
  <2>1. /\ counters'.firstCopies + counters'.duplicates + counters'.rejected
             = processed' + (IF pc' = "metrics" THEN 1 ELSE 0)
        /\ series' = series /\ counters' = counters /\ seen' = seen /\ todo' = todo
    BY <1>1, <1>3
  <2> QED
    BY <1>3, <1>5, <2>1, Zenon DEF CountInv
<1> QED
  BY <1>2, <1>6, Zenon

(* A step that counts nothing and begins nothing. *)
LEMMA ServerQuiet ==
  ASSUME TodoInv, CountInv,
         UNCHANGED <<seen, todo, found, counters, series, processed, summary>>,
         pc' = pc \/ (pc = "read" /\ pc' = "returned")
  PROVE  TodoInv' /\ CountInv'
<1>1. TodoInv'
  BY Zenon DEF TodoInv
<1>2. CountInv'
  <2>1. (IF pc' = "metrics" THEN 1 ELSE 0) = (IF pc = "metrics" THEN 1 ELSE 0)
    OBVIOUS
  <2> QED
    BY <2>1, Zenon DEF CountInv
<1> QED
  BY <1>1, <1>2

(* Where the gateway starts. *)
LEMMA InitServerInv == ServerInit => ServerInv
<1> SUFFICES ASSUME ServerInit PROVE ServerInv
  OBVIOUS
<1>1. DOMAIN <<>> = {}
  OBVIOUS
<1>2. PICK f : f = <<>> /\ DOMAIN f = {}
  BY <1>1
<1>3. /\ \A labels : Vec(f, labels)
      /\ \A l : Value(f, l) = 0
  BY <1>2, Zenon DEF Vec, Value
<1>4. (\A d : OfDecision(f, d) = 0) /\ Total(f) = 0 /\ Reasons(f) = 0
  BY <1>3 DEF OfDecision, Total, Reasons
<1>5. /\ DOMAIN series = Families /\ series["packets"] = f /\ series["rejects"] = f
      /\ DOMAIN scrape.shown = Families
      /\ scrape.shown["packets"] = f /\ scrape.shown["rejects"] = f
  BY <1>2, ZenonT(30) DEF ServerInit, Families
<1>6. /\ pc = "read" /\ todo = <<>> /\ found = FALSE /\ processed = 0 /\ DOMAIN seen = {}
      /\ counters = [firstCopies |-> 0, duplicates |-> 0, rejected |-> 0]
      /\ summary = [stats |-> counters, processed |-> 0]
  BY <1>1 DEF ServerInit, Init
<1>7. TodoInv
  BY <1>6, Zenon DEF TodoInv
<1>8. CountInv
  <2>1. /\ counters.firstCopies = 0 /\ counters.duplicates = 0 /\ counters.rejected = 0
        /\ counters \in [firstCopies : Nat, duplicates : Nat, rejected : Nat]
        /\ summary.stats = counters /\ summary.processed = 0 /\ processed \in Nat
    BY <1>6
  <2>2. \A d : OfDecision(f, d) = 0 /\ Pending(todo, d) = 0
    BY <1>4, <1>6, NoUpdate, Zenon
  <2>3. Reasons(f) = 0 /\ PendingReason(todo) = 0 /\ pc # "metrics"
    BY <1>4, <1>6, NoUpdate
  <2>4. 0 = 0 + 0 /\ 0 + 0 + 0 = 0 /\ ~(0 > 0)
    OBVIOUS
  <2> QED
    BY <1>2, <1>3, <1>5, <1>6, <2>1, <2>2, <2>3, <2>4, Zenon DEF CountInv
<1>9. ScrapeType
  BY <1>3, <1>5, ZenonT(30) DEF ScrapeType, ServerInit, Families
<1>10. scrape.pc = "idle" /\ scrape.from = 0 /\ scrape.to = 0
  BY DEF ServerInit
<1>11. PICK V, R : V = PacketsView /\ R = RejectsView
  BY Zenon
<1>12. \A l : Value(V, l) = 0 /\ Value(R, l) = 0
  <2>1. /\ DOMAIN V = PacketLabels /\ \A l \in PacketLabels : V[l] = 0
        /\ DOMAIN R = ReasonLabels /\ \A l \in ReasonLabels : R[l] = 0
    BY <1>3, <1>5, <1>10, <1>11, Zenon DEF PacketsView, RejectsView, View
  <2> QED
    BY <2>1 DEF Value
<1>13. Total(V) = 0 /\ Reasons(R) = 0
  BY <1>12 DEF OfDecision, Total, Reasons
<1>14. ViewInv
  BY <1>2, <1>4, <1>5, <1>10, <1>11, <1>13 DEF ViewInv
<1> QED
  BY <1>7, <1>8, <1>9, <1>14 DEF ServerInv

(* A rendering begins with everything there is. *)
LEMMA RenderBeginInv ==
  ASSUME CountInv, CountInv', ScrapeType, RenderBegin PROVE ScrapeType' /\ ViewInv'
<1>1. UNCHANGED series
  BY DEF RenderBegin, serverVars
<1>2. /\ DOMAIN series = Families
      /\ Vec(series["packets"], PacketLabels) /\ Vec(series["rejects"], ReasonLabels)
  BY Zenon DEF CountInv
<1>3. PICK f, e : f = series["packets"] /\ e = <<>> /\ DOMAIN e = {}
  <2>1. DOMAIN <<>> = {}
    OBVIOUS
  <2> QED
    BY <2>1
<1>4. /\ \A l : Value(f, l) \in Nat
      /\ \A labels : Vec(e, labels)
      /\ \A l : Value(e, l) = 0
  BY <1>2, <1>3, ValueNat, Zenon DEF Vec, Value
<1>5. (\A d : OfDecision(f, d) \in Nat) /\ Total(f) \in Nat
  BY <1>4, SumsNat, Zenon
<1>6. /\ scrape' = [pc |-> "packets", left |-> DOMAIN f, shown |-> [g \in Families |-> e],
                    made |-> scrape.made, from |-> Total(f), to |-> 0]
      /\ scrape.made \in Nat
  BY <1>3, Zenon DEF RenderBegin, ScrapeType
<1>7. /\ scrape'.pc = "packets" /\ scrape'.left = DOMAIN f /\ DOMAIN scrape'.shown = Families
      /\ scrape'.shown["packets"] = e /\ scrape'.shown["rejects"] = e
      /\ scrape'.from = Total(f) /\ scrape'.to = 0 /\ scrape'.made \in Nat
  BY <1>6, ZenonT(30) DEF Families
<1>8. ScrapeType'
  <2>1. scrape' = [pc |-> scrape'.pc, left |-> scrape'.left, shown |-> scrape'.shown,
                   made |-> scrape'.made, from |-> scrape'.from, to |-> scrape'.to]
    BY <1>6
  <2> QED
    BY <1>1, <1>3, <1>4, <1>5, <1>7, <2>1 DEF ScrapeType
<1>9. PICK V : V = PacketsView'
  BY Zenon
<1>10. \A l \in PacketLabels : V[l] = Value(f, l) /\ Value(V, l) = V[l]
  <2>1. V = [l \in PacketLabels |-> IF "packets" = "packets" /\ l \in DOMAIN f
                                    THEN Value(f, l) ELSE Value(e, l)]
    BY <1>1, <1>3, <1>7, <1>9, Zenon DEF PacketsView, View
  <2>2. \A l : l \notin DOMAIN f => Value(f, l) = 0
    BY DEF Value
  <2> QED
    BY <1>4, <2>1, <2>2, Zenon DEF Value
<1>11. \A l : Value(V, l) = Value(f, l)
  <2>1. DOMAIN V = PacketLabels
    BY <1>9, ZenonT(30) DEF PacketsView, View
  <2>2. \A l : l \notin PacketLabels => Value(f, l) = 0 /\ Value(V, l) = 0
    BY <1>2, <1>3, <2>1 DEF Value, Vec
  <2> QED
    BY <1>10, <2>2
<1>12. (\A d : OfDecision(V, d) = OfDecision(f, d)) /\ Total(V) = Total(f)
  BY <1>11, SumsSame
<1>13. (\E p \in PathTags : <<"duplicate", p>> \in DOMAIN f) => OfDecision(f, "first-copy") > 0
  BY <1>3, Zenon DEF CountInv
<1>14. ViewInv'
  <2>1. scrape'.from <= Total(V)
    BY <1>5, <1>7, <1>12
  <2>2. \A l \in PacketLabels : V[l] <= Value(series'["packets"], l)
    BY <1>1, <1>3, <1>4, <1>10
  <2> QED
    BY <1>3, <1>7, <1>9, <1>12, <1>13, <2>1, <2>2, Zenon DEF ViewInv
<1> QED
  BY <1>8, <1>14, Zenon

(* Loading a value changes no view: it is shown as it was found. *)
LEMMA RenderLoadInv ==
  ASSUME CountInv, CountInv', ScrapeType, ViewInv, RenderLoad PROVE ScrapeType' /\ ViewInv'
<1>1. UNCHANGED series
  BY DEF RenderLoad, serverVars
<1>2. PICK f \in Families : f = scrape.pc
  BY DEF RenderLoad
<1>3. PICK label \in scrape.left :
        scrape' = [scrape EXCEPT
            !.left = @ \ {label},
            !.shown[f] = [l \in DOMAIN @ \cup {label} |->
                            IF l = label THEN series[f][l] ELSE @[l]]]
  BY <1>2, Zenon DEF RenderLoad
<1>4. PICK g, h : /\ g = scrape.shown[f]
                  /\ h = [l \in DOMAIN g \cup {label} |->
                            IF l = label THEN series[f][l] ELSE g[l]]
  BY Zenon
<1>5. PICK shown : shown = [scrape.shown EXCEPT ![f] = h]
  BY Zenon
<1>6. scrape' = [pc |-> f, left |-> scrape.left \ {label}, shown |-> shown,
                 made |-> scrape.made, from |-> scrape.from, to |-> scrape.to]
  <2>1. scrape' = [scrape EXCEPT !.left = scrape.left \ {label}, !.shown = shown]
    BY <1>3, <1>4, <1>5, Zenon DEF ScrapeType
  <2> QED
    BY <1>2, <2>1, Zenon DEF ScrapeType
<1>7. /\ scrape'.pc = f /\ scrape'.left = scrape.left \ {label} /\ scrape'.shown = shown
      /\ scrape'.made = scrape.made /\ scrape'.from = scrape.from /\ scrape'.to = scrape.to
  BY <1>6, Zenon
<1>8. /\ DOMAIN scrape.shown = Families /\ scrape.left \subseteq DOMAIN series[f]
      /\ label \in DOMAIN series[f]
  BY <1>2, Zenon DEF ScrapeType
<1>9. /\ DOMAIN shown = Families /\ shown[f] = h
      /\ \A x \in Families \ {f} : shown[x] = scrape.shown[x]
  BY <1>5, <1>8, Zenon
<1>10. /\ DOMAIN h = DOMAIN g \cup {label} /\ h[label] = series[f][label]
       /\ \A l \in DOMAIN g \ {label} : h[l] = g[l]
  BY <1>4, Zenon
<1>11. /\ \A labels : Vec(series[f], labels) /\ Vec(g, labels) => Vec(h, labels)
       /\ \A l : Value(h, l) = IF l = label THEN Value(series[f], l) ELSE Value(g, l)
  BY <1>8, <1>10, ZenonT(30) DEF Vec, Value
<1>12. ScrapeType'
  <2>1. Vec(shown["packets"], PacketLabels) /\ Vec(shown["rejects"], ReasonLabels)
    BY <1>4, <1>9, <1>11, Zenon DEF ScrapeType, CountInv, Families
  <2>2. scrape' = [pc |-> scrape'.pc, left |-> scrape'.left, shown |-> scrape'.shown,
                   made |-> scrape'.made, from |-> scrape'.from, to |-> scrape'.to]
    BY <1>6, Zenon
  <2>3. scrape.made \in Nat /\ scrape.from \in Nat /\ scrape.to \in Nat
    BY DEF ScrapeType
  <2> QED
    BY <1>1, <1>7, <1>8, <1>9, <2>1, <2>2, <2>3 DEF ScrapeType, Families
<1>13. ASSUME NEW x \in Families, NEW labels PROVE View(x, labels)' = View(x, labels)
  <2>1. ASSUME NEW l \in labels
        PROVE  (IF f = x /\ l \in scrape.left \ {label}
                THEN Value(series[x], l) ELSE Value(shown[x], l))
             = (IF f = x /\ l \in scrape.left
                THEN Value(series[x], l) ELSE Value(scrape.shown[x], l))
    <3>1. CASE x = f
      BY <1>4, <1>9, <1>11, <3>1, Zenon
    <3>2. CASE x # f
      BY <1>9, <3>2, Zenon
    <3> QED
      BY <3>1, <3>2, Zenon
  <2>2. View(x, labels) = [l \in labels |-> IF f = x /\ l \in scrape.left
                             THEN Value(series[x], l) ELSE Value(scrape.shown[x], l)]
    BY <1>2, Zenon DEF View
  <2>3. View(x, labels)' = [l \in labels |-> IF f = x /\ l \in scrape.left \ {label}
                              THEN Value(series[x], l) ELSE Value(shown[x], l)]
    BY <1>1, <1>7, Zenon DEF View, Value
  <2> QED
    BY <2>1, <2>2, <2>3, Zenon
<1>14. PacketsView' = PacketsView /\ RejectsView' = RejectsView
  BY <1>13, Zenon DEF PacketsView, RejectsView, Families
<1>15. CASE f = "packets"
  <2>1. \A p : <<"duplicate", p>> \in scrape.left \ {label} \/ <<"duplicate", p>> \in DOMAIN h
          => <<"duplicate", p>> \in scrape.left \/ <<"duplicate", p>> \in DOMAIN g
    BY <1>10
  <2>2. /\ scrape.from <= Total(PacketsView)
        /\ \A l \in PacketLabels : PacketsView[l] <= Value(series["packets"], l)
        /\ (\E p \in PathTags : \/ <<"duplicate", p>> \in scrape.left
                                \/ <<"duplicate", p>> \in DOMAIN g)
             => OfDecision(PacketsView, "first-copy") > 0
    BY <1>2, <1>4, <1>15, Zenon DEF ViewInv
  <2> QED
    BY <1>1, <1>7, <1>9, <1>12, <1>14, <1>15, <2>1, <2>2, Zenon DEF ViewInv
<1>16. CASE f # "packets"
  <2>1. shown["packets"] = scrape.shown["packets"]
    BY <1>9, <1>16 DEF Families
  <2> QED
    BY <1>1, <1>2, <1>7, <1>12, <1>14, <1>16, <2>1, Zenon DEF ViewInv
<1> QED
  BY <1>15, <1>16

(* Between the families: the packets are all shown, and no reason yet. *)
LEMMA RenderNextFamilyInv ==
  ASSUME CountInv, CountInv', ScrapeType, ViewInv, RenderNextFamily
  PROVE  ScrapeType' /\ ViewInv'
<1>1. /\ UNCHANGED series /\ scrape.pc = "packets" /\ scrape.left = {}
  BY DEF RenderNextFamily, serverVars
<1>2. PICK f, r, g : /\ f = series["packets"] /\ r = series["rejects"]
                     /\ g = scrape.shown["packets"]
  BY Zenon
<1>3. /\ Vec(f, PacketLabels) /\ Vec(r, ReasonLabels) /\ Vec(g, PacketLabels)
      /\ Vec(scrape.shown["rejects"], ReasonLabels)
      /\ DOMAIN scrape.shown = Families /\ scrape.made \in Nat /\ scrape.from \in Nat
  BY <1>2, Zenon DEF CountInv, ScrapeType
<1>4. \A l : /\ Value(f, l) \in Nat /\ Value(r, l) \in Nat /\ Value(g, l) \in Nat
             /\ Value(scrape.shown["rejects"], l) \in Nat
  BY <1>3, ValueNat, ZenonT(30)
<1>5. /\ \A d : OfDecision(f, d) \in Nat /\ OfDecision(g, d) \in Nat
      /\ Total(f) \in Nat /\ Total(g) \in Nat /\ Reasons(r) \in Nat
  BY <1>4, SumsNat
<1>6. scrape' = [pc |-> "rejects", left |-> DOMAIN r, shown |-> scrape.shown,
                 made |-> scrape.made, from |-> scrape.from, to |-> Total(f)]
  BY <1>2, Zenon DEF RenderNextFamily, ScrapeType
<1>7. /\ scrape'.pc = "rejects" /\ scrape'.left = DOMAIN r /\ scrape'.shown = scrape.shown
      /\ scrape'.made = scrape.made /\ scrape'.from = scrape.from /\ scrape'.to = Total(f)
  BY <1>6, ZenonT(30)
<1>8. ScrapeType'
  <2>1. scrape' = [pc |-> scrape'.pc, left |-> scrape'.left, shown |-> scrape'.shown,
                   made |-> scrape'.made, from |-> scrape'.from, to |-> scrape'.to]
    BY <1>6
  <2> QED
    BY <1>1, <1>2, <1>3, <1>5, <1>7, <2>1 DEF ScrapeType
<1>9. PICK V, W, S : V = PacketsView /\ W = PacketsView' /\ S = RejectsView'
  BY Zenon
<1>10. /\ V = [l \in PacketLabels |-> Value(g, l)] /\ W = [l \in PacketLabels |-> Value(g, l)]
       /\ S = [l \in ReasonLabels |-> IF l \in DOMAIN r THEN Value(r, l)
                                      ELSE Value(scrape.shown["rejects"], l)]
  BY <1>1, <1>2, <1>7, <1>9, Zenon DEF PacketsView, RejectsView, View
<1>11. \A l : Value(V, l) = Value(g, l) /\ Value(W, l) = Value(g, l)
  BY <1>3, <1>10, Zenon DEF Value, Vec
<1>12. /\ Total(V) = Total(g) /\ Total(W) = Total(g)
       /\ OfDecision(V, "first-copy") = OfDecision(W, "first-copy")
  BY <1>11, SumsSame, Zenon
<1>13. \A l \in PacketLabels : Value(g, l) <= Value(f, l)
  BY <1>1, <1>2, <1>9, <1>10 DEF ViewInv
<1>14. Total(g) <= Total(f) /\ OfDecision(g, "rejected") <= OfDecision(f, "rejected")
  <2>1. \A p \in PathTags : <<"rejected", p>> \in PacketLabels
    BY DEF PacketLabels, Decisions
  <2> QED
    BY <1>4, <1>13, <2>1, SumsRise, Zenon
<1>15. OfDecision(f, "rejected") <= Reasons(r) + 1
  <2>1. /\ OfDecision(f, "rejected") + Pending(todo, "rejected")
             = Reasons(r) + PendingReason(todo)
    BY <1>2, Zenon DEF CountInv
  <2>2. Pending(todo, "rejected") \in {0, 1} /\ PendingReason(todo) \in {0, 1}
    BY DEF Pending, PendingReason
  <2> QED
    BY <1>5, <2>1, <2>2
<1>16. Reasons(r) <= Reasons(S) /\ Reasons(S) \in Nat
  <2>1. \A l : Value(S, l) \in Nat
    BY <1>4, <1>10, Zenon DEF Value
  <2>2. \A l \in ReasonLabels : Value(r, l) <= Value(S, l)
    BY <1>4, <1>10 DEF Value
  <2> QED
    BY <1>4, <2>1, <2>2, SumsRise, SumsNat, Zenon
<1>17. OfDecision(g, "rejected") <= Reasons(S) + 1
  BY <1>5, <1>14, <1>15, <1>16
<1>18. /\ scrape.from <= Total(V)
       /\ (\E p \in PathTags : <<"duplicate", p>> \in DOMAIN g) => OfDecision(V, "first-copy") > 0
  BY <1>2, <1>9, Zenon DEF ViewInv
<1>19. ViewInv'
  <2>1. scrape'.from <= Total(W) /\ Total(g) <= scrape'.to /\ scrape'.shown["packets"] = g
    BY <1>2, <1>7, <1>12, <1>14, <1>18
  <2>2. (\E p \in PathTags : <<"duplicate", p>> \in DOMAIN g) => OfDecision(W, "first-copy") > 0
    BY <1>12, <1>18, Zenon
  <2>3. scrape'.pc # "packets"
    BY <1>7
  <2> QED
    BY <1>9, <1>17, <2>1, <2>2, <2>3, ZenonT(30) DEF ViewInv
<1> QED
  BY <1>8, <1>19

(* Done: nothing is left to load. *)
LEMMA RenderDoneInv ==
  ASSUME ScrapeType, ViewInv, RenderDone PROVE ScrapeType' /\ ViewInv'
<1>1. scrape.pc = "rejects" /\ scrape.left = {} /\ UNCHANGED series
  BY DEF RenderDone, serverVars
<1>2. scrape' = [pc |-> "idle", left |-> {}, shown |-> scrape.shown,
                 made |-> scrape.made + 1, from |-> scrape.from, to |-> scrape.to]
  BY <1>1, Zenon DEF RenderDone, ScrapeType
<1>3. /\ scrape'.pc = "idle" /\ scrape'.left = {} /\ scrape'.shown = scrape.shown
      /\ scrape'.made = scrape.made + 1 /\ scrape'.from = scrape.from /\ scrape'.to = scrape.to
  BY <1>2, Zenon
<1>4. ScrapeType'
  <2>1. scrape' = [pc |-> scrape'.pc, left |-> scrape'.left, shown |-> scrape'.shown,
                   made |-> scrape'.made, from |-> scrape'.from, to |-> scrape'.to]
    BY <1>2, Zenon
  <2>2. scrape.made + 1 \in Nat
    BY DEF ScrapeType
  <2> QED
    BY <1>3, <2>1, <2>2, Zenon DEF ScrapeType, Families
<1>5. ASSUME NEW f, NEW labels PROVE View(f, labels)' = View(f, labels)
  BY <1>1, <1>3 DEF View
<1>6. PacketsView' = PacketsView /\ RejectsView' = RejectsView
  BY <1>5 DEF PacketsView, RejectsView
<1>7. ViewInv'
  BY <1>1, <1>3, <1>6, Zenon DEF ViewInv
<1> QED
  BY <1>4, <1>7

(* Every step of the three goroutines keeps the invariant. *)
LEMMA NextServerInv == ServerInv /\ [ServerNext]_vars => ServerInv'
<1> SUFFICES ASSUME ServerInv, [ServerNext]_vars PROVE ServerInv'
  OBVIOUS
<1>1. TodoInv /\ CountInv /\ ScrapeType /\ ViewInv
  BY DEF ServerInv
<1>2. ASSUME UNCHANGED scrape, SeriesGrow, TodoInv', CountInv' PROVE ServerInv'
  BY <1>1, <1>2, ViewKept DEF ServerInv
<1>3. ASSUME UNCHANGED series PROVE SeriesGrow
  <2>1. \A f \in Families : Vec(series[f], IF f = "packets" THEN PacketLabels ELSE ReasonLabels)
    BY <1>1 DEF CountInv, Families
  <2>2. \A f \in Families : \A l : Value(series[f], l) \in Nat
    BY <2>1, ValueNat
  <2>3. \A n \in Nat : n <= n
    OBVIOUS
  <2> QED
    BY <1>3, <2>2, <2>3, ZenonT(30) DEF SeriesGrow
<1>4. ASSUME NEW d \in Datagrams, Handle(d) PROVE ServerInv'
  <2>1. UNCHANGED series /\ UNCHANGED scrape
    BY <1>4 DEF Handle
  <2>2. TodoInv' /\ CountInv'
    BY <1>1, <1>4, HandleInv
  <2> QED
    BY <1>2, <1>3, <2>1, <2>2
<1>5. CASE SampleFor
  <2>1. UNCHANGED scrape
    BY <1>5 DEF SampleFor
  <2> QED
    BY <1>1, <1>2, <1>5, <2>1, SampleForInv
<1>6. CASE Add
  <2>1. UNCHANGED scrape
    BY <1>6 DEF Add
  <2> QED
    BY <1>1, <1>2, <1>6, <2>1, AddInv
<1>7. CASE HandleDone
  <2>1. UNCHANGED series /\ UNCHANGED scrape
    BY <1>7 DEF HandleDone
  <2>2. TodoInv' /\ CountInv'
    BY <1>1, <1>7, HandleDoneInv
  <2> QED
    BY <1>2, <1>3, <2>1, <2>2
<1>8. CASE \/ ServeReturns \/ ServeFails \/ Cancel \/ CloseConn \/ Terminated
           \/ UNCHANGED vars
  <2>1. /\ UNCHANGED <<seen, todo, found, counters, series, processed, summary>>
        /\ UNCHANGED scrape
        /\ pc' = pc \/ (pc = "read" /\ pc' = "returned")
    BY <1>8, Zenon DEF ServeReturns, ServeFails, Cancel, CloseConn, Terminated, vars, serverVars,
                windowVars
  <2>2. TodoInv' /\ CountInv'
    BY <1>1, <2>1, ServerQuiet
  <2>3. UNCHANGED series
    BY <2>1
  <2> QED
    BY <1>2, <1>3, <2>1, <2>2, <2>3
<1>9. CASE Render
  <2>1. /\ UNCHANGED <<seen, todo, found, counters, series, processed, summary>>
        /\ pc' = pc
    BY <1>9, Zenon DEF Render, RenderBegin, RenderLoad, RenderNextFamily, RenderDone,
                serverVars, windowVars
  <2>2. TodoInv' /\ CountInv'
    BY <1>1, <2>1, ServerQuiet
  <2>3. ScrapeType' /\ ViewInv'
    BY <1>1, <1>9, <2>2, RenderBeginInv, RenderLoadInv, RenderNextFamilyInv, RenderDoneInv
       DEF Render
  <2> QED
    BY <2>2, <2>3 DEF ServerInv
<1> QED
  BY <1>4, <1>5, <1>6, <1>7, <1>8, <1>9 DEF ServerNext, Serve

(* The invariant holds in every state the server reaches. *)
THEOREM ServerInvariance == ServerSpec => []ServerInv
  BY InitServerInv, NextServerInv, PTL DEF ServerSpec

(* For every window, every datagram and any number of them: between two
   datagrams the atomics, the series Handle updates and Serve's own count
   agree, and every summary logged adds up to the datagrams it covers. *)
THEOREM CountersAreConserved == ServerSpec => []CountersConserve
<1>1. ServerInv => CountersConserve
  <2> SUFFICES ASSUME ServerInv PROVE CountersConserve
    OBVIOUS
  <2>1. pc = "read" => todo = <<>>
    BY DEF ServerInv, TodoInv
  <2>2. PICK f, r : f = series["packets"] /\ r = series["rejects"]
    BY Zenon
  <2>3. (\A l : Value(f, l) \in Nat) /\ (\A l : Value(r, l) \in Nat)
    BY <2>2, ValueNat, Zenon DEF ServerInv, CountInv
  <2>4. (\A d : OfDecision(f, d) \in Nat) /\ Reasons(r) \in Nat
    BY <2>3, SumsNat
  <2>5. /\ counters \in [firstCopies : Nat, duplicates : Nat, rejected : Nat]
        /\ processed \in Nat
        /\ counters.firstCopies = OfDecision(f, "first-copy") + Pending(todo, "first-copy")
        /\ counters.duplicates = OfDecision(f, "duplicate") + Pending(todo, "duplicate")
        /\ counters.rejected = OfDecision(f, "rejected") + Pending(todo, "rejected")
        /\ counters.rejected = Reasons(r) + PendingReason(todo)
        /\ counters.firstCopies + counters.duplicates + counters.rejected
             = processed + (IF pc = "metrics" THEN 1 ELSE 0)
        /\ summary.stats.firstCopies + summary.stats.duplicates
             + summary.stats.rejected = summary.processed
    BY <2>2, ZenonT(30) DEF ServerInv, CountInv
  <2>6. pc = "read" =>
          /\ counters.firstCopies + counters.duplicates + counters.rejected = processed
          /\ OfDecision(f, "first-copy") = counters.firstCopies
          /\ OfDecision(f, "duplicate") = counters.duplicates
          /\ OfDecision(f, "rejected") = counters.rejected
          /\ Reasons(r) = counters.rejected
    BY <2>1, <2>4, <2>5, NoUpdate
  <2> QED
    BY <2>2, <2>5, <2>6, Zenon DEF CountersConserve
<1> QED
  BY <1>1, ServerInvariance, PTL

(* A scrape is honest whatever Serve does while it is rendered: the packets
   it shows add up to a total between those at its two ends, a duplicate is
   never shown without a first copy, and it is one reason short at most. *)
THEOREM ScrapesAreHonest == ServerSpec => []ScrapeHonest
<1>1. ServerInv => ScrapeHonest
  <2> SUFFICES ASSUME ServerInv PROVE ScrapeHonest
    OBVIOUS
  <2>1. PICK g, r : g = scrape.shown["packets"] /\ r = scrape.shown["rejects"]
    BY ZenonT(30)
  <2>2. /\ Vec(g, PacketLabels) /\ Vec(r, ReasonLabels)
        /\ scrape.from \in Nat /\ scrape.to \in Nat
    BY <2>1 DEF ServerInv, ScrapeType
  <2>3. (\A l : Value(g, l) \in Nat) /\ (\A l : Value(r, l) \in Nat)
    BY <2>2, ValueNat
  <2>4. (\A d : OfDecision(g, d) \in Nat) /\ Total(g) \in Nat /\ Reasons(r) \in Nat
    BY <2>3, SumsNat
  <2>5. PICK V, S : V = PacketsView /\ S = RejectsView
    BY Zenon
  <2>6. ASSUME scrape.pc # "packets"
        PROVE  /\ \A d : OfDecision(V, d) = OfDecision(g, d)
               /\ Total(V) = Total(g)
    <3>1. V = [l \in PacketLabels |-> Value(g, l)]
      BY <2>1, <2>5, <2>6 DEF PacketsView, View
    <3>2. \A l : Value(V, l) = Value(g, l)
      BY <2>2, <3>1 DEF Value, Vec
    <3> QED
      BY <3>2, SumsSame, ZenonT(30)
  <2>7. ASSUME scrape.pc = "idle" PROVE Reasons(S) = Reasons(r)
    <3>1. S = [l \in ReasonLabels |-> Value(r, l)]
      BY <2>1, <2>5, <2>7 DEF RejectsView, View
    <3>2. \A l : Value(S, l) = Value(r, l)
      BY <2>2, <3>1 DEF Value, Vec
    <3> QED
      BY <3>2, SumsSame, ZenonT(30)
  <2>8. /\ scrape.from <= Total(V)
        /\ scrape.pc # "packets" => /\ Total(g) <= scrape.to
                                    /\ OfDecision(g, "rejected") <= Reasons(S) + 1
        /\ (\E p \in PathTags : <<"duplicate", p>> \in DOMAIN g)
             => OfDecision(V, "first-copy") > 0
    BY <2>1, <2>5, Zenon DEF ServerInv, ViewInv
  <2>9. OfDecision(g, "duplicate") > 0 => \E p \in PathTags : <<"duplicate", p>> \in DOMAIN g
    <3>1. ASSUME \A p \in PathTags : <<"duplicate", p>> \notin DOMAIN g
          PROVE  OfDecision(g, "duplicate") = 0
      <4>1. \A p \in PathTags : Value(g, <<"duplicate", p>>) = 0
        BY <3>1, ZenonT(30) DEF Value
      <4> QED
        BY <4>1 DEF OfDecision, PathTags
    <3> QED
      BY <3>1
  <2>10. scrape.pc = "rejects" => Total(g) \in scrape.from..scrape.to
    BY <2>2, <2>4, <2>6, <2>8
  <2>11. scrape.pc = "idle" =>
           /\ OfDecision(g, "duplicate") > 0 => OfDecision(g, "first-copy") > 0
           /\ OfDecision(g, "rejected") <= Reasons(r) + 1
    <3>1. CASE scrape.pc = "idle"
      BY <2>6, <2>7, <2>8, <2>9, <3>1
    <3> QED
      BY <3>1, ZenonT(30)
  <2> QED
    BY <2>1, <2>10, <2>11, Zenon DEF ScrapeHonest
<1> QED
  BY <1>1, ServerInvariance, PTL
=============================================================================
