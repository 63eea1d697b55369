------------------------- MODULE BroadcastDeskProofs ------------------------
(***************************************************************************)
(* Proof about BroadcastDesk, for any number of adverts, targets,          *)
(* customers, handlers, keys and drafts, that whatever is launched is what *)
(* a preview showed, and that no preview and no draft is launched twice.   *)
(* LaunchInv is the invariant: a key goes with its fingerprint from the    *)
(* preview on, through every copy a handler or a request makes of it, and  *)
(* the keys of the chat and of the panel are different ones.               *)
(***************************************************************************)
EXTENDS BroadcastDesk, SequenceTheorems, TLAPS

Shown == [advert: Adverts \cup {Blank}, caption: Captions \cup {Blank},
          link: Captions \cup {Blank}, target: Targets, crowd: SUBSET Listeners]
Answers == [advert: Adverts \cup {Blank}, caption: Captions \cup {Blank},
            link: Captions \cup {Blank}, target: Targets \cup {Blank},
            seen: Shown \cup {Blank}, key: Nat]

Previewing == [at: {"preview"}, notes: Answers, target: Targets]
Confirming == [at: {"confirm"}]
Sending == [at: {"send"}, notes: Answers]
Closing == [at: {"closing"}, key: Nat, content: Shown]

\* The shape of what a key is compared with.
DeskShape ==
    /\ notes \in Answers
    /\ tap \in [Taps -> {NoTap} \cup Previewing \cup Confirming \cup Sending \cup Closing]
    /\ reach \in [Targets -> SUBSET Listeners]
    /\ campaign \in Seq([content: Shown, key: Nat])
    /\ requests \subseteq [row: Nat, key: Nat, seen: Shown]
    /\ promise \in Seq(Shown)
    /\ launches \subseteq [row: Nat, key: Nat, content: Shown]

Keys == 1 .. Len(promise)
Is(t, phase) == tap[t] # NoTap /\ tap[t].at = phase

\* Keys of the chat and what they were shown with.
ChatKeys ==
    /\ notes.key # 0 => notes.key \in Keys /\ notes.seen = promise[notes.key]
    /\ \A t \in Taps : Is(t, "send") =>
         tap[t].notes.key \in Keys /\ tap[t].notes.seen = promise[tap[t].notes.key]
    /\ \A t \in Taps : Is(t, "closing") =>
         /\ tap[t].key \in Keys /\ tap[t].content = promise[tap[t].key]
         /\ KeyUnused(tap[t].key)
    /\ \A t, u \in Taps : Is(t, "closing") /\ Is(u, "closing") => t = u

\* Keys of the panel, none of which the chat has.
PanelKeys ==
    \A r \in requests :
        /\ r.row \in DOMAIN campaign /\ r.key \in Keys /\ r.seen = promise[r.key]
        /\ r.key # notes.key
        /\ \A t \in Taps : /\ Is(t, "send") => r.key # tap[t].notes.key
                           /\ Is(t, "closing") => r.key # tap[t].key

LaunchesStand ==
    /\ \A l \in launches : /\ l.key \in Keys /\ l.content = promise[l.key]
                           /\ l.row \in DOMAIN campaign /\ campaign[l.row].key = l.key
    /\ \A l, m \in launches : l.key = m.key \/ l.row = m.row => l = m

LaunchInv == DeskShape /\ ChatKeys /\ PanelKeys /\ LaunchesStand

LEMMA ContentShown ==
    ASSUME NEW n, n.advert \in Adverts \cup {Blank}, n.caption \in Captions \cup {Blank},
           n.link \in Captions \cup {Blank}, NEW g \in Targets,
           reach \in [Targets -> SUBSET Listeners]
    PROVE  Content(n, g) \in Shown
BY DEF Content, Shown

LEMMA DeskStart == BroadcastDeskInit => LaunchInv
<1> SUFFICES ASSUME BroadcastDeskInit PROVE LaunchInv
  OBVIOUS
<1>1. notes \in Answers /\ notes.key = 0
  BY DEF BroadcastDeskInit, EmptyNotes, Answers
<1>2. tap \in [Taps -> {NoTap}] /\ requests = {} /\ launches = {}
      /\ promise = <<>> /\ campaign = <<>>
  BY DEF BroadcastDeskInit
<1>3. promise \in Seq(Shown) /\ campaign \in Seq([content: Shown, key: Nat])
  BY <1>2
<1>4. DeskShape
  BY <1>1, <1>2, <1>3 DEF BroadcastDeskInit, DeskShape
<1> QED  BY <1>1, <1>2, <1>4 DEF LaunchInv, ChatKeys, PanelKeys, LaunchesStand, Is

\* A step of the chat that draws no key and launches nothing.
LEMMA Chatting ==
    ASSUME LaunchInv, notes' \in Answers,
           UNCHANGED <<tap, reach, campaign, requests, promise, launches>>,
           notes'.key \in {0, notes.key},
           notes'.key # 0 => notes'.seen = notes.seen
    PROVE  LaunchInv'
<1>1. DeskShape'
  BY DEF LaunchInv, DeskShape
<1>2. ChatKeys' /\ PanelKeys'
  BY DEF LaunchInv, DeskShape, ChatKeys, PanelKeys, Is, KeyUnused, Keys
<1>3. LaunchesStand'
  BY DEF LaunchInv, LaunchesStand, Keys
<1> QED  BY <1>1, <1>2, <1>3 DEF LaunchInv

\* A step of one handler that leaves everything but the notes and its own
\* record, and goes on with no key or with the one in the notes.
LEMMA Handling ==
    ASSUME LaunchInv, NEW t \in Taps, NEW record, Taken(t, record),
           record \in {NoTap} \cup Previewing \cup Confirming \cup Sending,
           record # NoTap /\ record \in Sending => record.notes = notes /\ notes.key # 0,
           notes' \in {notes, EmptyNotes},
           UNCHANGED <<reach, campaign, requests, promise, launches>>
    PROVE  LaunchInv'
<1>1. notes' \in Answers /\ notes'.key \in {0, notes.key}
      /\ (notes'.key # 0 => notes'.seen = notes.seen)
  BY DEF EmptyNotes, Answers, LaunchInv, DeskShape
<1>2. /\ tap' \in [Taps -> {NoTap} \cup Previewing \cup Confirming \cup Sending \cup Closing]
      /\ tap'[t] = record /\ \A u \in Taps \ {t} : tap'[u] = tap[u]
  BY DEF Taken, LaunchInv, DeskShape
<1>3. DeskShape'
  BY <1>1, <1>2 DEF LaunchInv, DeskShape
<1>4. record # NoTap => record.at # "closing" /\ (record.at = "send" => record \in Sending)
  BY DEF Previewing, Confirming, Sending
<1>5. ChatKeys'
  BY <1>1, <1>2, <1>4 DEF LaunchInv, ChatKeys, Is, KeyUnused, Keys
<1>6. PanelKeys'
  <2> SUFFICES ASSUME NEW r \in requests
               PROVE  /\ r.row \in DOMAIN campaign /\ r.key \in Keys /\ r.seen = promise[r.key]
                      /\ r.key # notes'.key
                      /\ \A u \in Taps : /\ Is(u, "send")' => r.key # tap'[u].notes.key
                                         /\ Is(u, "closing")' => r.key # tap'[u].key
    BY DEF PanelKeys, Keys
  <2>1. /\ r.row \in DOMAIN campaign /\ r.key \in Keys /\ r.seen = promise[r.key]
        /\ r.key # notes.key
        /\ \A u \in Taps : /\ Is(u, "send") => r.key # tap[u].notes.key
                           /\ Is(u, "closing") => r.key # tap[u].key
    BY DEF LaunchInv, PanelKeys
  <2>2. r.key # 0
    BY <2>1 DEF Keys
  <2>3. r.key # notes'.key
    BY <1>1, <2>1, <2>2
  <2>4. ASSUME NEW u \in Taps
        PROVE  /\ Is(u, "send")' => r.key # tap'[u].notes.key
               /\ Is(u, "closing")' => r.key # tap'[u].key
    <3>1. CASE u = t
      BY <3>1, <1>2, <1>4, <2>1 DEF Is
    <3>2. CASE u # t
      BY <3>2, <1>2, <2>1 DEF Is
    <3> QED  BY <3>1, <3>2
  <2> QED  BY <2>1, <2>3, <2>4
<1>7. LaunchesStand'
  BY DEF LaunchInv, LaunchesStand, Keys
<1> QED  BY <1>3, <1>5, <1>6, <1>7 DEF LaunchInv

LEMMA EmptyIsAnswers == EmptyNotes \in Answers /\ EmptyNotes.key = 0
BY DEF EmptyNotes, Answers

\* A preview is noted under a key nobody has.
LEMMA PreviewShown ==
    ASSUME LaunchInv, NEW t \in Taps, ShowPreview(t)
    PROVE  LaunchInv'
<1> DEFINE n == tap[t].notes
           g == tap[t].target
           seen == Content(n, g)
           key == Len(promise) + 1
<1>1. n \in Answers /\ g \in Targets
  BY DEF ShowPreview, LaunchInv, DeskShape, Previewing, Confirming, Sending, Closing
<1>2. seen \in Shown
  BY <1>1, ContentShown DEF LaunchInv, DeskShape, Answers
<1>3. CASE ~Valid(n)
  <2>1. /\ Taken(t, NoTap) /\ notes' = notes
        /\ UNCHANGED <<reach, campaign, requests, promise, launches>>
    BY <1>3 DEF ShowPreview
  <2> QED  BY <2>1, Handling
<1>4. CASE Valid(n)
  <2>1. /\ notes' = [notes EXCEPT !.target = g, !.seen = seen, !.key = key]
        /\ promise' = Append(promise, seen) /\ Taken(t, NoTap)
        /\ UNCHANGED <<reach, campaign, requests, launches>>
    BY <1>4 DEF ShowPreview
  <2> HIDE DEF seen, n, g
  <2>2. /\ promise \in Seq(Shown) /\ promise' \in Seq(Shown)
        /\ Len(promise') = key /\ promise'[key] = seen
        /\ \A k \in Keys : k \in Keys' /\ promise'[k] = promise[k] /\ k # key
        /\ key \in Keys'
    BY <1>2, <2>1 DEF LaunchInv, DeskShape, Keys
  <2>3. notes' \in Answers /\ notes'.key = key /\ notes'.seen = seen
    <3>1. notes \in Answers /\ key \in Nat
      BY <2>2 DEF LaunchInv, DeskShape
    <3> HIDE DEF key
    <3> QED  BY <1>1, <1>2, <2>1, <3>1 DEF Answers
  <2>4. /\ tap' \in [Taps -> {NoTap} \cup Previewing \cup Confirming \cup Sending \cup Closing]
        /\ tap'[t] = NoTap /\ \A u \in Taps \ {t} : tap'[u] = tap[u]
    BY <2>1 DEF Taken, LaunchInv, DeskShape
  <2>5. DeskShape'
    BY <2>1, <2>2, <2>3, <2>4 DEF LaunchInv, DeskShape
  <2>6. ChatKeys'
    <3>1. notes'.key \in Keys' /\ notes'.seen = promise'[notes'.key]
      BY <2>2, <2>3
    <3>2. ASSUME NEW u \in Taps, Is(u, "send")'
          PROVE  tap'[u].notes.key \in Keys' /\ tap'[u].notes.seen = promise'[tap'[u].notes.key]
      BY <3>2, <2>2, <2>4 DEF LaunchInv, ChatKeys, Is
    <3>3. ASSUME NEW u \in Taps, Is(u, "closing")'
          PROVE  /\ tap'[u].key \in Keys' /\ tap'[u].content = promise'[tap'[u].key]
                 /\ KeyUnused(tap[u].key)' /\ u # t /\ Is(u, "closing")
      <4>1. u # t /\ Is(u, "closing") /\ tap'[u] = tap[u]
        BY <3>3, <2>4 DEF Is
      <4>2. /\ tap[u].key \in Keys /\ tap[u].content = promise[tap[u].key]
            /\ KeyUnused(tap[u].key)
        BY <4>1 DEF LaunchInv, ChatKeys
      <4>3. KeyUnused(tap[u].key)'
        BY <4>1, <4>2, <2>1 DEF KeyUnused
      <4>4. tap'[u].key \in Keys' /\ promise'[tap'[u].key] = promise[tap[u].key]
        BY <4>1, <4>2, <2>2, Zenon
      <4> QED  BY <4>1, <4>2, <4>3, <4>4
    <3>4. \A u, v \in Taps : Is(u, "closing")' /\ Is(v, "closing")' => u = v
      BY <3>3 DEF LaunchInv, ChatKeys
    <3> QED  BY <3>1, <3>2, <3>3, <3>4 DEF ChatKeys, Is, KeyUnused
  <2>7. PanelKeys'
    <3>1. ASSUME NEW r \in requests
          PROVE  /\ r.row \in DOMAIN campaign' /\ r.key \in Keys' /\ r.seen = promise'[r.key]
                 /\ r.key # notes'.key
      <4>1. r.row \in DOMAIN campaign /\ r.key \in Keys /\ r.seen = promise[r.key]
        BY DEF LaunchInv, PanelKeys
      <4> QED  BY <4>1, <2>1, <2>2, <2>3
    <3>2. ASSUME NEW r \in requests, NEW u \in Taps
          PROVE  /\ Is(u, "send")' => r.key # tap'[u].notes.key
                 /\ Is(u, "closing")' => r.key # tap'[u].key
      BY <2>4 DEF LaunchInv, PanelKeys, Is
    <3> QED  BY <3>1, <3>2, <2>1 DEF PanelKeys
  <2>8. LaunchesStand'
    BY <2>1, <2>2 DEF LaunchInv, LaunchesStand
  <2> QED  BY <2>5, <2>6, <2>7, <2>8 DEF LaunchInv
<1> QED  BY <1>3, <1>4

\* A launch begins: what it is about to store is what its key was shown
\* with, and no other launch is under way.
LEMMA LaunchBegun ==
    ASSUME LaunchInv, NEW t \in Taps, DraftAndLaunch(t)
    PROVE  LaunchInv'
<1> DEFINE n == tap[t].notes
           now == Content(n, n.target)
           begun == [at |-> "closing", key |-> n.key, content |-> now]
<1>1. n \in Answers /\ Is(t, "send")
  BY DEF DraftAndLaunch, LaunchInv, DeskShape, Previewing, Confirming, Sending, Closing, Is
<1>2. n.key \in Keys /\ n.seen = promise[n.key] /\ n.key # 0
  BY <1>1 DEF LaunchInv, ChatKeys, Keys
<1>3. /\ UNCHANGED <<notes, reach, campaign, requests, promise, launches>>
      /\ Taken(t, NoTap) \/ (Taken(t, begun) /\ n.seen = now /\ KeyUnused(n.key))
  BY DEF DraftAndLaunch, StillAsSeen, chatOnly
<1>4. CASE Taken(t, NoTap)
  BY <1>3, <1>4, Handling
<1>5. CASE Taken(t, begun) /\ n.seen = now /\ KeyUnused(n.key)
  <2>1. begun \in Closing /\ begun.content = promise[n.key]
    <3>1. promise[n.key] \in Shown /\ n.key \in Nat
      BY <1>2 DEF LaunchInv, DeskShape, Keys
    <3>2. now = promise[n.key]
      BY <1>2, <1>5
    <3> HIDE DEF now, n
    <3> QED  BY <3>1, <3>2 DEF Closing
  <2>2. /\ tap' \in [Taps -> {NoTap} \cup Previewing \cup Confirming \cup Sending \cup Closing]
        /\ tap'[t] = begun /\ \A u \in Taps \ {t} : tap'[u] = tap[u]
    BY <1>5, <2>1 DEF Taken, LaunchInv, DeskShape
  <2>3. \A u \in Taps : ~Is(u, "closing")
    BY DEF DraftAndLaunch, ActorFree, Is
  <2>4. DeskShape'
    BY <1>3, <2>2 DEF LaunchInv, DeskShape
  <2>5. ChatKeys'
    <3>1. \A u \in Taps : Is(u, "send")' => u # t /\ Is(u, "send") /\ tap'[u] = tap[u]
      BY <2>2 DEF Is
    <3>2. \A u \in Taps : Is(u, "closing")' => u = t
      BY <2>2, <2>3 DEF Is
    <3>3. /\ tap'[t].key \in Keys' /\ tap'[t].content = promise'[tap'[t].key]
          /\ KeyUnused(tap[t].key)'
      <4>1. tap'[t].key = n.key /\ tap'[t].content = promise[n.key]
        BY <2>1, <2>2
      <4>2. n.key \in Keys /\ KeyUnused(n.key) /\ UNCHANGED <<promise, launches>>
        BY <1>2, <1>3, <1>5
      <4> HIDE DEF n, now, begun
      <4>3. KeyUnused(tap[t].key)'
        BY <4>1, <4>2 DEF KeyUnused
      <4>4. tap'[t].key \in Keys' /\ promise' = promise
        BY <4>1, <4>2 DEF Keys
      <4> QED  BY <4>1, <4>3, <4>4
    <3>4. /\ notes'.key # 0 => notes'.key \in Keys' /\ notes'.seen = promise'[notes'.key]
          /\ \A u \in Taps : Is(u, "send")' =>
               tap'[u].notes.key \in Keys' /\ tap'[u].notes.seen = promise'[tap'[u].notes.key]
      BY <1>3, <3>1 DEF LaunchInv, ChatKeys, Keys
    <3>5. \A u \in Taps : Is(u, "closing")' =>
            /\ tap'[u].key \in Keys' /\ tap'[u].content = promise'[tap'[u].key]
            /\ KeyUnused(tap[u].key)'
      BY <3>2, <3>3 DEF KeyUnused, Is
    <3>6. \A u, v \in Taps : Is(u, "closing")' /\ Is(v, "closing")' => u = v
      BY <3>2
    <3> QED  BY <3>4, <3>5, <3>6 DEF ChatKeys, Is, KeyUnused
  <2>6. PanelKeys'
    <3>1. ASSUME NEW r \in requests, NEW u \in Taps
          PROVE  /\ Is(u, "send")' => r.key # tap'[u].notes.key
                 /\ Is(u, "closing")' => r.key # tap'[u].key
      <4>1. r.key # n.key
        BY <1>1 DEF LaunchInv, PanelKeys
      <4>2. CASE u = t
        BY <4>1, <4>2, <2>2 DEF Is
      <4>3. CASE u # t
        BY <4>3, <2>2 DEF LaunchInv, PanelKeys, Is
      <4> QED  BY <4>2, <4>3
    <3> QED  BY <3>1, <1>3 DEF LaunchInv, PanelKeys, Keys
  <2>7. LaunchesStand'
    BY <1>3 DEF LaunchInv, LaunchesStand, Keys
  <2> QED  BY <2>4, <2>5, <2>6, <2>7 DEF LaunchInv
<1> QED  BY <1>3, <1>4, <1>5

\* A launch is committed, or rolled back because the chat cannot be told.
LEMMA LaunchClosed ==
    ASSUME LaunchInv, NEW t \in Taps, NEW told \in BOOLEAN, CloseLaunch(t, told)
    PROVE  LaunchInv'
<1> DEFINE k == tap[t].key
           content == tap[t].content
           row == Len(campaign) + 1
<1>1. /\ Taken(t, NoTap) /\ notes' = EmptyNotes /\ UNCHANGED <<reach, requests, promise>>
      /\ Is(t, "closing")
  BY DEF CloseLaunch, Is
<1>2. CASE ~told
  BY <1>1, <1>2, Handling DEF CloseLaunch
<1>3. CASE told
  <2>1. /\ campaign' = Append(campaign, [content |-> content, key |-> k])
        /\ launches' = launches \cup {[row |-> Len(campaign'), key |-> k, content |-> content]}
    BY <1>3 DEF CloseLaunch
  <2>2. k \in Keys /\ k \in Nat /\ content = promise[k] /\ content \in Shown /\ KeyUnused(k)
    BY <1>1 DEF LaunchInv, ChatKeys, DeskShape, Keys
  <2> HIDE DEF k, content
  <2>3. /\ campaign' \in Seq([content: Shown, key: Nat]) /\ Len(campaign') = row
        /\ row \in DOMAIN campaign' /\ campaign'[row].key = k
        /\ \A i \in DOMAIN campaign : /\ i \in DOMAIN campaign' /\ campaign'[i] = campaign[i]
                                      /\ i # row
    BY <2>1, <2>2 DEF LaunchInv, DeskShape
  <2>4. /\ tap' \in [Taps -> {NoTap} \cup Previewing \cup Confirming \cup Sending \cup Closing]
        /\ tap'[t] = NoTap /\ \A u \in Taps \ {t} : tap'[u] = tap[u]
    BY <1>1 DEF Taken, LaunchInv, DeskShape
  <2>5. DeskShape'
    <3>1. row \in Nat
      BY DEF LaunchInv, DeskShape
    <3>2. launches' \subseteq [row: Nat, key: Nat, content: Shown]
      BY <2>1, <2>2, <2>3, <3>1 DEF LaunchInv, DeskShape
    <3> QED  BY <1>1, <2>3, <2>4, <3>2, EmptyIsAnswers DEF LaunchInv, DeskShape
  <2>6. \A u \in Taps : ~Is(u, "closing")'
    BY <1>1, <2>4 DEF LaunchInv, ChatKeys, Is
  <2>7. \A u \in Taps : Is(u, "send")' => Is(u, "send") /\ tap'[u] = tap[u]
    BY <2>4 DEF Is
  <2>8. ChatKeys'
    BY <1>1, <2>6, <2>7, EmptyIsAnswers DEF LaunchInv, ChatKeys, Keys
  <2>9. PanelKeys'
    <3>1. ASSUME NEW r \in requests
          PROVE  /\ r.row \in DOMAIN campaign' /\ r.key \in Keys' /\ r.seen = promise'[r.key]
                 /\ r.key # notes'.key
                 /\ \A u \in Taps : Is(u, "send")' => r.key # tap'[u].notes.key
      <4>1. /\ r.row \in DOMAIN campaign /\ r.key \in Keys /\ r.seen = promise[r.key]
            /\ \A u \in Taps : Is(u, "send") => r.key # tap[u].notes.key
        BY DEF LaunchInv, PanelKeys
      <4> QED  BY <4>1, <1>1, <2>3, <2>7, EmptyIsAnswers DEF Keys
    <3> QED  BY <3>1, <1>1, <2>6 DEF PanelKeys
  <2>10. LaunchesStand'
    <3> DEFINE new == [row |-> row, key |-> k, content |-> content]
    <3>1. launches' = launches \cup {new}
      BY <2>1, <2>3
    <3>2. \A l \in launches : /\ l.key \in Keys /\ l.content = promise[l.key] /\ l.key # k
                              /\ l.row \in DOMAIN campaign /\ campaign[l.row].key = l.key
      BY <2>2 DEF LaunchInv, LaunchesStand, KeyUnused
    <3>3. \A l \in launches : l.row # row /\ l.row \in DOMAIN campaign' /\ campaign'[l.row].key = l.key
      BY <3>2, <2>3
    <3>4. \A l, m \in launches : l.key = m.key \/ l.row = m.row => l = m
      BY DEF LaunchInv, LaunchesStand
    <3>5. Keys' = Keys /\ promise' = promise
      BY <1>1 DEF Keys
    <3>6. new.key = k /\ new.row = row /\ new.content = promise[k]
      BY <2>2
    <3> HIDE DEF new, row
    <3>7. \A l \in launches' : /\ l.key \in Keys' /\ l.content = promise'[l.key]
                               /\ l.row \in DOMAIN campaign' /\ campaign'[l.row].key = l.key
      BY <3>1, <3>2, <3>3, <3>5, <3>6, <2>2, <2>3
    <3>8. \A l, m \in launches' : l.key = m.key \/ l.row = m.row => l = m
      BY <3>1, <3>2, <3>3, <3>4, <3>6
    <3> QED  BY <3>7, <3>8 DEF LaunchesStand
  <2> QED  BY <2>5, <2>8, <2>9, <2>10 DEF LaunchInv
<1> QED  BY <1>2, <1>3

LEMMA Drafted ==
    ASSUME LaunchInv, NEW a \in Adverts, NEW g \in Targets, WebDraft(a, g)
    PROVE  LaunchInv'
<1> DEFINE shown == Content(WebNotes(a), g)
<1>1. shown \in Shown
  BY ContentShown DEF WebNotes, LaunchInv, DeskShape
<1>2. /\ campaign' = Append(campaign, [content |-> shown, key |-> 0])
      /\ UNCHANGED <<notes, tap, reach, requests, promise, launches>>
  BY DEF WebDraft
<1> HIDE DEF shown
<1>3. /\ campaign' \in Seq([content: Shown, key: Nat])
      /\ \A i \in DOMAIN campaign : i \in DOMAIN campaign' /\ campaign'[i] = campaign[i]
  BY <1>1, <1>2 DEF LaunchInv, DeskShape
<1>4. DeskShape'
  BY <1>2, <1>3 DEF LaunchInv, DeskShape
<1>5. ChatKeys' /\ PanelKeys'
  BY <1>2, <1>3 DEF LaunchInv, ChatKeys, PanelKeys, Is, KeyUnused, Keys
<1>6. LaunchesStand'
  BY <1>2, <1>3 DEF LaunchInv, LaunchesStand, Keys
<1> QED  BY <1>4, <1>5, <1>6 DEF LaunchInv

LEMMA DraftIsShown ==
    ASSUME LaunchInv, NEW i \in DOMAIN campaign
    PROVE  i \in Nat /\ campaign[i].content \in Shown
<1>1. campaign \in Seq([content: Shown, key: Nat])
  BY DEF LaunchInv, DeskShape
<1>2. i \in 1 .. Len(campaign)
  BY <1>1
<1>3. campaign[i] \in [content: Shown, key: Nat]
  BY <1>1, <1>2, ElementOfSeq
<1> QED  BY <1>2, <1>3

LEMMA Confirmed ==
    ASSUME LaunchInv, NEW i \in DOMAIN campaign, WebConfirm(i)
    PROVE  LaunchInv'
<1> DEFINE draft == campaign[i].content
           seen == Content(draft, draft.target)
           key == Len(promise) + 1
           new == [row |-> i, key |-> Len(promise'), seen |-> seen]
<1>1. draft \in Shown /\ i \in Nat
  BY DraftIsShown
<1>2. seen \in Shown
  BY <1>1, ContentShown DEF Shown, LaunchInv, DeskShape
<1>3. /\ promise' = Append(promise, seen) /\ requests' = requests \cup {new}
      /\ UNCHANGED <<notes, tap, reach, campaign, launches>>
  BY DEF WebConfirm
<1> HIDE DEF draft, seen
<1>4. /\ promise \in Seq(Shown) /\ promise' \in Seq(Shown)
      /\ Len(promise') = key /\ promise'[key] = seen /\ key \in Nat
      /\ \A k \in Keys : k \in Keys' /\ promise'[k] = promise[k] /\ k # key
      /\ key \in Keys' /\ key # 0
  BY <1>2, <1>3 DEF LaunchInv, DeskShape, Keys
<1>5. new.row = i /\ new.key = key /\ new.seen = seen
      /\ new \in [row: Nat, key: Nat, seen: Shown]
  BY <1>1, <1>2, <1>4
<1> HIDE DEF new, key
<1>6. DeskShape'
  BY <1>3, <1>4, <1>5 DEF LaunchInv, DeskShape
<1>7. ChatKeys'
  <2>1. notes.key # 0 => notes.key \in Keys' /\ notes.seen = promise'[notes.key]
    BY <1>4 DEF LaunchInv, ChatKeys
  <2>2. \A u \in Taps : Is(u, "send") =>
          tap[u].notes.key \in Keys' /\ tap[u].notes.seen = promise'[tap[u].notes.key]
    BY <1>4 DEF LaunchInv, ChatKeys
  <2>3. \A u \in Taps : Is(u, "closing") =>
          /\ tap[u].key \in Keys' /\ tap[u].content = promise'[tap[u].key]
          /\ KeyUnused(tap[u].key)
    BY <1>4 DEF LaunchInv, ChatKeys
  <2>4. \A u, v \in Taps : Is(u, "closing") /\ Is(v, "closing") => u = v
    BY DEF LaunchInv, ChatKeys
  <2> QED  BY <2>1, <2>2, <2>3, <2>4, <1>3 DEF ChatKeys, Is, KeyUnused
<1>8. PanelKeys'
  <2>1. ASSUME NEW r \in requests
        PROVE  /\ r.row \in DOMAIN campaign /\ r.key \in Keys' /\ r.seen = promise'[r.key]
               /\ r.key # notes.key
               /\ \A u \in Taps : /\ Is(u, "send") => r.key # tap[u].notes.key
                                  /\ Is(u, "closing") => r.key # tap[u].key
    BY <1>4 DEF LaunchInv, PanelKeys
  <2>2. /\ key # notes.key
        /\ \A u \in Taps : /\ Is(u, "send") => key # tap[u].notes.key
                           /\ Is(u, "closing") => key # tap[u].key
    BY <1>4 DEF LaunchInv, ChatKeys
  <2>3. \A r \in requests' : r \in requests \/ r = new
    BY <1>3
  <2>4. /\ new.row \in DOMAIN campaign /\ new.key \in Keys' /\ new.seen = promise'[new.key]
        /\ new.key = key
    BY <1>4, <1>5
  <2>5. /\ UNCHANGED <<notes, tap, campaign>>
    BY <1>3
  <2> HIDE DEF new, key
  <2>6. ASSUME NEW r \in requests'
        PROVE  /\ r.row \in DOMAIN campaign /\ r.key \in Keys' /\ r.seen = promise'[r.key]
               /\ r.key # notes.key
               /\ \A u \in Taps : /\ Is(u, "send") => r.key # tap[u].notes.key
                                  /\ Is(u, "closing") => r.key # tap[u].key
    BY <2>1, <2>2, <2>3, <2>4
  <2> QED  BY <2>5, <2>6 DEF PanelKeys, Is
<1>9. LaunchesStand'
  BY <1>3, <1>4 DEF LaunchInv, LaunchesStand
<1> QED  BY <1>6, <1>7, <1>8, <1>9 DEF LaunchInv

LEMMA LaunchArrived ==
    ASSUME LaunchInv, NEW r \in requests, WebLaunch(r)
    PROVE  LaunchInv'
<1> DEFINE draft == campaign[r.row].content
           now == Content(draft, draft.target)
           new == [row |-> r.row, key |-> r.key, content |-> now]
<1>1. /\ r.row \in DOMAIN campaign /\ r.key \in Keys /\ r.seen = promise[r.key]
      /\ \A u \in Taps : Is(u, "closing") => r.key # tap[u].key
  BY DEF LaunchInv, PanelKeys
<1>2. draft \in Shown /\ r.row \in Nat /\ r.key \in Nat
  BY <1>1, DraftIsShown DEF Keys
<1>3. now \in Shown
  <2>1. /\ draft.advert \in Adverts \cup {Blank} /\ draft.caption \in Captions \cup {Blank}
        /\ draft.link \in Captions \cup {Blank} /\ draft.target \in Targets
        /\ reach \in [Targets -> SUBSET Listeners]
    BY <1>2 DEF Shown, LaunchInv, DeskShape
  <2> HIDE DEF draft
  <2> QED  BY <2>1, ContentShown
<1>4. /\ KeyUnused(r.key) /\ campaign[r.row].key = 0 /\ r.seen = now
      /\ campaign' = [campaign EXCEPT ![r.row] = [content |-> now, key |-> r.key]]
      /\ launches' = launches \cup {new}
      /\ UNCHANGED <<notes, tap, reach, requests, promise>>
  BY DEF WebLaunch, StillAsSeen
<1> HIDE DEF draft, now
<1>5. /\ campaign' \in Seq([content: Shown, key: Nat]) /\ DOMAIN campaign' = DOMAIN campaign
      /\ campaign'[r.row].key = r.key
      /\ \A i \in DOMAIN campaign \ {r.row} : campaign'[i] = campaign[i]
  BY <1>1, <1>2, <1>3, <1>4 DEF LaunchInv, DeskShape
<1>6. new.row = r.row /\ new.key = r.key /\ new.content = now
      /\ new \in [row: Nat, key: Nat, content: Shown]
  BY <1>2, <1>3
<1> HIDE DEF new
<1>7. DeskShape'
  BY <1>4, <1>5, <1>6 DEF LaunchInv, DeskShape
<1>8. ChatKeys'
  <2>1. ASSUME NEW u \in Taps, Is(u, "closing")'
        PROVE  KeyUnused(tap[u].key)'
    BY <2>1, <1>1, <1>4, <1>6 DEF LaunchInv, ChatKeys, Is, KeyUnused
  <2> QED  BY <2>1, <1>4 DEF LaunchInv, ChatKeys, Is, Keys
<1>9. PanelKeys'
  BY <1>4, <1>5 DEF LaunchInv, PanelKeys, Is, Keys
<1>10. LaunchesStand'
  <2>1. \A l \in launches : /\ l.key \in Keys /\ l.content = promise[l.key] /\ l.key # r.key
                            /\ l.row \in DOMAIN campaign /\ campaign[l.row].key = l.key
    BY <1>4 DEF LaunchInv, LaunchesStand, KeyUnused
  <2>2. \A l \in launches : l.row # r.row
    BY <2>1, <1>4 DEF Keys
  <2>3. \A l, m \in launches : l.key = m.key \/ l.row = m.row => l = m
    BY DEF LaunchInv, LaunchesStand
  <2>4. Keys' = Keys /\ promise' = promise
    BY <1>4 DEF Keys
  <2>5. \A l \in launches' : /\ l.key \in Keys' /\ l.content = promise'[l.key]
                             /\ l.row \in DOMAIN campaign' /\ campaign'[l.row].key = l.key
    BY <2>1, <2>2, <2>4, <1>1, <1>4, <1>5, <1>6, ZenonT(60)
  <2>6. \A l, m \in launches' : l.key = m.key \/ l.row = m.row => l = m
    BY <2>1, <2>2, <2>3, <1>4, <1>6
  <2> QED  BY <2>5, <2>6 DEF LaunchesStand
<1> QED  BY <1>7, <1>8, <1>9, <1>10 DEF LaunchInv

LEMMA ReachChanged == LaunchInv /\ ReachChanges => LaunchInv'
<1> SUFFICES ASSUME LaunchInv, ReachChanges PROVE LaunchInv'
  OBVIOUS
<1>1. /\ reach' \in [Targets -> SUBSET Listeners]
      /\ UNCHANGED <<notes, tap, campaign, requests, promise, launches>>
  BY DEF ReachChanges
<1>2. DeskShape'
  BY <1>1 DEF LaunchInv, DeskShape
<1>3. ChatKeys' /\ PanelKeys' /\ LaunchesStand'
  BY <1>1 DEF LaunchInv, ChatKeys, PanelKeys, LaunchesStand, Is, KeyUnused, Keys
<1> QED  BY <1>2, <1>3 DEF LaunchInv

\* The steps that only collect answers.
LEMMA Answered ==
    ASSUME LaunchInv,
           \/ OpenComposer \/ LeaveComposer
           \/ \E a \in Adverts : EnterAdvert(a)
           \/ \E wanted \in BOOLEAN : ChooseButton(wanted)
           \/ \E c \in Captions : EnterCaption(c) \/ EnterLink(c)
    PROVE  LaunchInv'
<1>1. UNCHANGED <<tap, reach, campaign, requests, promise, launches>>
  BY DEF OpenComposer, LeaveComposer, EnterAdvert, ChooseButton, EnterCaption, EnterLink,
         Ask, chatOnly
<1>2. \/ notes' = notes \/ notes' = EmptyNotes
      \/ \E a \in Adverts : notes' = [notes EXCEPT !.advert = a]
      \/ notes' = [notes EXCEPT !.caption = Blank, !.link = Blank]
      \/ \E c \in Captions : notes' = [notes EXCEPT !.caption = c]
      \/ \E c \in Captions : notes' = [notes EXCEPT !.link = c]
  BY DEF OpenComposer, LeaveComposer, EnterAdvert, ChooseButton, EnterCaption, EnterLink
<1>3. notes \in Answers
  BY DEF LaunchInv, DeskShape
<1>4. notes' \in Answers /\ notes'.key \in {0, notes.key} /\ (notes'.key # 0 => notes'.seen = notes.seen)
  BY <1>2, <1>3, EmptyIsAnswers DEF Answers
<1> QED  BY <1>1, <1>4, Chatting

\* The steps by which a handler reads.
LEMMA Listened ==
    ASSUME LaunchInv, NEW t \in Taps,
           (\E g \in Targets : ChooseTarget(t, g)) \/ ConfirmLaunch(t) \/ ReadNotes(t)
    PROVE  LaunchInv'
<1>1. notes \in Answers
  BY DEF LaunchInv, DeskShape
<1>2. ASSUME NEW g \in Targets, ChooseTarget(t, g)
      PROVE  LaunchInv'
  <2> DEFINE record == [at |-> "preview", notes |-> notes, target |-> g]
  <2>1. record \in Previewing /\ record \notin Sending
    BY <1>1 DEF Previewing, Sending
  <2>2. Taken(t, record) /\ notes' = notes
        /\ UNCHANGED <<reach, campaign, requests, promise, launches>>
    BY <1>2 DEF ChooseTarget, chatOnly
  <2> HIDE DEF record
  <2> QED  BY <2>1, <2>2, Handling
<1>3. CASE ConfirmLaunch(t)
  <2> DEFINE record == [at |-> "confirm"]
  <2>1. record \in Confirming /\ record \notin Sending
    BY DEF Confirming, Sending
  <2>2. Taken(t, record) /\ notes' = notes
        /\ UNCHANGED <<reach, campaign, requests, promise, launches>>
    BY <1>3 DEF ConfirmLaunch, chatOnly
  <2> HIDE DEF record
  <2> QED  BY <2>1, <2>2, Handling
<1>4. CASE ReadNotes(t)
  <2> DEFINE record == [at |-> "send", notes |-> notes]
  <2>1. record \in Sending /\ record.notes = notes
    BY <1>1 DEF Sending
  <2>2. /\ UNCHANGED <<reach, campaign, requests, promise, launches>>
        /\ \/ Taken(t, NoTap) /\ notes' = EmptyNotes
           \/ Taken(t, record) /\ notes' = notes /\ notes.key # 0
    BY <1>4 DEF ReadNotes, chatOnly
  <2> HIDE DEF record
  <2>3. CASE Taken(t, NoTap) /\ notes' = EmptyNotes
    BY <2>2, <2>3, Handling
  <2>4. CASE Taken(t, record) /\ notes' = notes /\ notes.key # 0
    BY <2>1, <2>2, <2>4, Handling
  <2> QED  BY <2>2, <2>3, <2>4
<1> QED  BY <1>2, <1>3, <1>4

LEMMA LaunchInductive ==
    LaunchInv /\ [ChatNext \/ PanelNext]_deskOfBroadcastVars => LaunchInv'
<1> SUFFICES ASSUME LaunchInv, [ChatNext \/ PanelNext]_deskOfBroadcastVars
             PROVE  LaunchInv'
  OBVIOUS
<1>1. CASE UNCHANGED deskOfBroadcastVars
  <2>1. UNCHANGED <<notes, tap, reach, campaign, requests, promise, launches>>
    BY <1>1 DEF deskOfBroadcastVars
  <2>2. notes \in Answers
    BY DEF LaunchInv, DeskShape
  <2> QED  BY <2>1, <2>2, Chatting
<1>2. CASE ChatNext
  BY <1>2, ReachChanged, Answered, Listened, PreviewShown, LaunchBegun, LaunchClosed
  DEF ChatNext
<1>3. CASE PanelNext
  BY <1>3, ReachChanged, Drafted, Confirmed, LaunchArrived DEF PanelNext
<1> QED  BY <1>1, <1>2, <1>3

\* What is launched is what a preview showed, once per preview and per draft
\* (bot/handlers/admin/broadcast.py on_broadcast_send, launch_broadcast).
THEOREM LaunchesAsShown == BroadcastDeskSpec => []LaunchedAsShown
<1>1. LaunchInv => LaunchedAsShown
  BY DEF LaunchInv, LaunchesStand, LaunchedAsShown
<1> QED  BY <1>1, DeskStart, LaunchInductive, PTL DEF BroadcastDeskSpec
=============================================================================
