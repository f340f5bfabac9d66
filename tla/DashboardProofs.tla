---------------------------- MODULE DashboardProofs ----------------------------
(***************************************************************************)
(* Proofs about Dashboard for every page size, every length of the list of *)
(* predictions, every number of alerts, predictions, rules, requests that  *)
(* overlap and failures: its types, that the alerts page never leaves its  *)
(* first page, and what the list and the gauges of the predictions panel   *)
(* say of the table and of each other.                                     *)
(***************************************************************************)
EXTENDS Dashboard, FiniteSetTheorems, SequenceTheorems, WellFoundedInduction, TLAPS

-----------------------------------------------------------------------------
(* The alerts page: its invariant.                                          *)

(* What one page of the API holds.                                          *)
Few == {alerts \in SUBSET Alerts : IsFiniteSet(alerts) /\ Cardinality(alerts) <= PageSize}

FirstPagePoll == [state : {"asked", "failed"}, page : {1}]
                   \cup [state : {"answered"}, page : {1}, alerts : Few]

FirstPage == [mounted : BOOLEAN, page : {1}, total : 0 .. PageSize, alerts : Few,
              loading : BOOLEAN, error : BOOLEAN]

(* Every request, answered or not, is for page 1, and page 1 is shown: a    *)
(* total that is no larger than what such an answer holds offers no other.  *)
AlertsInv ==
    /\ created \in 0 .. MaxAlerts
    /\ alertsPage \in FirstPage
    /\ polls \in Seq(FirstPagePoll)
    /\ Len(polls) <= MaxPolls
    /\ ~alertsPage.mounted => polls = <<>>

-----------------------------------------------------------------------------
(* Lemmas about the operators of the page.                                  *)

(* RemoveAt takes one entry out and keeps the others.                       *)
LEMMA RemoveAtType ==
    ASSUME NEW S, NEW s \in Seq(S), NEW i \in DOMAIN s
    PROVE  RemoveAt(s, i) \in Seq(S) /\ Len(RemoveAt(s, i)) = Len(s) - 1
  <1>1. Len(s) \in Nat /\ DOMAIN s = 1 .. Len(s) /\ i \in 1 .. Len(s)
    BY LenProperties
  <1>2. SubSeq(s, 1, i - 1) \in Seq(S) /\ Len(SubSeq(s, 1, i - 1)) = i - 1
    <2>1. \A j \in 1 .. i - 1 : s[j] \in S
      BY <1>1, ElementOfSeq
    <2> QED
      BY <1>1, <2>1, SubSeqProperties
  <1>3. SubSeq(s, i + 1, Len(s)) \in Seq(S) /\ Len(SubSeq(s, i + 1, Len(s))) = Len(s) - i
    <2>1. \A j \in i + 1 .. Len(s) : s[j] \in S
      BY <1>1, ElementOfSeq
    <2> QED
      BY <1>1, <2>1, SubSeqProperties
  <1> DEFINE before == SubSeq(s, 1, i - 1)
             after == SubSeq(s, i + 1, Len(s))
  <1>4. RemoveAt(s, i) = before \o after
    BY DEF RemoveAt
  <1> HIDE DEF before, after
  <1>5. /\ before \in Seq(S) /\ Len(before) = i - 1
        /\ after \in Seq(S) /\ Len(after) = Len(s) - i
    BY <1>2, <1>3 DEF before, after
  <1>6. before \o after \in Seq(S) /\ Len(before \o after) = Len(before) + Len(after)
    BY <1>5, ConcatProperties
  <1> QED
    BY <1>1, <1>4, <1>5, <1>6

(* limit bounds what the API answers, whatever the offset.                  *)
LEMMA AnswerIsFew ==
    ASSUME created \in 0 .. MaxAlerts, NEW skip \in Nat
    PROVE  list_alerts(skip, PageSize) \in Few
  <1> DEFINE list == list_alerts(skip, PageSize)
             last == created - skip
             first == last - PageSize + 1
  <1>1. PageSize \in Nat \ {0} /\ MaxAlerts \in Nat /\ created \in Nat /\ created <= MaxAlerts
    BY AlertsAssumption
  <1>2. list \subseteq first .. last /\ list \subseteq Alerts
    BY <1>1 DEF list_alerts, Alerts
  <1>3. IsFiniteSet(first .. last) /\ Cardinality(first .. last) = PageSize
    BY <1>1, FS_Interval
  <1>4. IsFiniteSet(list) /\ Cardinality(list) <= PageSize
    BY <1>2, <1>3, FS_Subset
  <1> QED
    BY <1>2, <1>4 DEF Few

LEMMA NoneIsFew == {} \in Few
  BY AlertsAssumption, FS_EmptySet DEF Few

(* A total within the page size is one page.                                *)
LEMMA OnePage ==
    ASSUME alertsPage.total \in 0 .. PageSize
    PROVE  totalPages = 1
  BY AlertsAssumption DEF totalPages, Greater

-----------------------------------------------------------------------------
(* Steps of the page.                                                       *)

(* The unmounted page, and the effect of the mounted one.                   *)
LEMMA UnmountedType == AlertsUnmounted \in FirstPage /\ ~AlertsUnmounted.mounted
  BY NoneIsFew, AlertsAssumption DEF AlertsUnmounted, FirstPage

LEMMA LoadFirstType ==
    ASSUME NEW component \in FirstPage, component.mounted, LoadFirst(component)
    PROVE  /\ alertsPage' \in FirstPage /\ alertsPage'.mounted
           /\ polls' \in Seq(FirstPagePoll) /\ Len(polls') <= MaxPolls
  <1>1. Asked(component.page) \in FirstPagePoll
    BY DEF Asked, FirstPagePoll, FirstPage
  <1>2. polls' = <<Asked(component.page)>>
    BY DEF LoadFirst
  <1>3. polls' \in Seq(FirstPagePoll) /\ Len(polls') = 1
    BY <1>1, <1>2
  <1>4. alertsPage' \in FirstPage /\ alertsPage'.mounted
    BY DEF LoadFirst, FirstPage
  <1> QED
    BY <1>3, <1>4, AlertsAssumption

LEMMA PageSteps ==
    ASSUME AlertsInv,
           create_alert \/ AlertsMount \/ AlertsUnmount \/ loadAlerts \/ ClickPager
             \/ \E i \in DOMAIN polls : ServeAlerts(i) \/ RefuseAlerts(i) \/ AlertsArrive(i)
    PROVE  AlertsInv'
  <1> USE DEF AlertsInv
  <1>1. CASE create_alert
    BY <1>1, AlertsAssumption DEF create_alert
  <1>2. CASE AlertsMount
    <2>1. [AlertsUnmounted EXCEPT !.mounted = TRUE] \in FirstPage
          /\ [AlertsUnmounted EXCEPT !.mounted = TRUE].mounted
      BY UnmountedType DEF FirstPage
    <2> QED
      BY <1>2, <2>1, LoadFirstType DEF AlertsMount
  <1>3. CASE AlertsUnmount
    BY <1>3, UnmountedType, AlertsAssumption DEF AlertsUnmount
  <1>4. CASE loadAlerts
    <2>1. /\ alertsPage.mounted /\ Len(polls) < MaxPolls
          /\ alertsPage' = [alertsPage EXCEPT !.loading = TRUE, !.error = FALSE]
          /\ polls' = Append(polls, Asked(alertsPage.page))
          /\ UNCHANGED created
      BY <1>4 DEF loadAlerts
    <2>2. Asked(alertsPage.page) \in FirstPagePoll
      BY DEF Asked, FirstPagePoll, FirstPage
    <2>3. polls' \in Seq(FirstPagePoll) /\ Len(polls') = Len(polls) + 1
      BY <2>1, <2>2, AppendProperties
    <2>4. alertsPage' \in FirstPage /\ alertsPage'.mounted
      BY <2>1 DEF FirstPage
    <2> QED
      BY <2>1, <2>3, <2>4, LenProperties, AlertsAssumption
  <1>5. CASE ClickPager
    <2>1. totalPages = 1 /\ alertsPage.page = 1
      BY OnePage DEF FirstPage
    <2>2. Previous = 1 /\ Following = 1
      BY <2>1 DEF Previous, Following
    <2>3. UNCHANGED <<created, alertsPage, polls>>
      BY <1>5, <2>1, <2>2 DEF ClickPager
    <2> QED
      BY <2>3
  <1>6. ASSUME NEW i \in DOMAIN polls
        PROVE  /\ polls[i] \in FirstPagePoll /\ polls[i].page = 1
               /\ alertsPage.mounted
               /\ \A p \in FirstPagePoll :
                    LET new == [polls EXCEPT ![i] = p]
                    IN  new \in Seq(FirstPagePoll) /\ Len(new) = Len(polls)
    <2>1. i \in 1 .. Len(polls)
      BY LenProperties
    <2>2. polls[i] \in FirstPagePoll
      BY <2>1, ElementOfSeq
    <2>3. polls # <<>>
      BY <2>1
    <2> QED
      BY <2>1, <2>2, <2>3, ExceptSeq DEF FirstPagePoll
  <1>7. ASSUME NEW i \in DOMAIN polls, ServeAlerts(i)
        PROVE  AlertsInv'
    <2> DEFINE answer == [state |-> "answered", page |-> polls[i].page,
                          alerts |-> list_alerts(skipOf(polls[i].page), PageSize)]
    <2>1. skipOf(polls[i].page) \in Nat
      BY <1>6, AlertsAssumption DEF skipOf
    <2>2. answer \in FirstPagePoll
      BY <1>6, <2>1, AnswerIsFew DEF FirstPagePoll
    <2>3. polls' = [polls EXCEPT ![i] = answer] /\ UNCHANGED <<created, alertsPage>>
      BY <1>7 DEF ServeAlerts
    <2> HIDE DEF answer
    <2> QED
      BY <1>6, <2>2, <2>3
  <1>8. ASSUME NEW i \in DOMAIN polls, RefuseAlerts(i)
        PROVE  AlertsInv'
    <2> DEFINE answer == [state |-> "failed", page |-> polls[i].page]
    <2>1. answer \in FirstPagePoll
      BY <1>6 DEF FirstPagePoll
    <2>2. polls' = [polls EXCEPT ![i] = answer] /\ UNCHANGED <<created, alertsPage>>
      BY <1>8 DEF RefuseAlerts
    <2> HIDE DEF answer
    <2> QED
      BY <1>6, <2>1, <2>2
  <1>9. ASSUME NEW i \in DOMAIN polls, AlertsArrive(i)
        PROVE  AlertsInv'
    <2>1. /\ polls[i].state # "asked"
          /\ polls' = RemoveAt(polls, i)
          /\ alertsPage' =
               IF polls[i].state = "failed"
               THEN [alertsPage EXCEPT !.loading = FALSE, !.error = TRUE]
               ELSE [alertsPage EXCEPT !.loading = FALSE, !.alerts = polls[i].alerts,
                          !.total = totalOf(polls[i].alerts, skipOf(polls[i].page))]
          /\ UNCHANGED created
      BY <1>9 DEF AlertsArrive
    <2>2. polls' \in Seq(FirstPagePoll) /\ Len(polls') <= MaxPolls
      BY <2>1, RemoveAtType, LenProperties, AlertsAssumption
    <2>3. CASE polls[i].state = "failed"
      <3>1. alertsPage' \in FirstPage /\ alertsPage'.mounted
        BY <1>6, <2>1, <2>3 DEF FirstPage
      <3> QED
        BY <2>1, <2>2, <3>1
    <2>4. CASE polls[i].state # "failed"
      <3>1. polls[i].alerts \in Few
        BY <1>6, <2>1, <2>4 DEF FirstPagePoll
      <3>2. skipOf(polls[i].page) = 0
        BY <1>6, AlertsAssumption DEF skipOf
      <3>3. Cardinality(polls[i].alerts) \in Nat /\ Cardinality(polls[i].alerts) <= PageSize
        BY <3>1, FS_CardinalityType DEF Few
      <3>4. totalOf(polls[i].alerts, skipOf(polls[i].page)) \in 0 .. PageSize
        BY <3>2, <3>3, AlertsAssumption DEF totalOf
      <3>5. alertsPage' \in FirstPage /\ alertsPage'.mounted
        BY <1>6, <2>1, <2>4, <3>1, <3>4 DEF FirstPage
      <3> QED
        BY <2>1, <2>2, <3>5
    <2> QED
      BY <2>3, <2>4
  <1> QED
    BY <1>1, <1>2, <1>3, <1>4, <1>5, <1>7, <1>8, <1>9

LEMMA AlertsEstablished == Init => AlertsInv
  <1> SUFFICES ASSUME Init PROVE AlertsInv
    OBVIOUS
  <1>1. created = 0 /\ alertsPage = AlertsUnmounted /\ polls = <<>>
    BY DEF Init, AlertsInit
  <1> QED
    BY <1>1, UnmountedType, AlertsAssumption DEF AlertsInv

-----------------------------------------------------------------------------
(* The predictions panel: the lists it keeps.                               *)

(* A set of numbers that is not empty has a least one.                      *)
LEMMA LeastElement ==
    ASSUME NEW I \in SUBSET Nat, I # {}
    PROVE  Min(I) \in I /\ \A j \in I : Min(I) <= j
  <1>1. PICK x \in I : \A y \in I : ~(<<y, x>> \in OpToRel(<, Nat))
    BY NatLessThanWellFounded, WFMin
  <1>2. \A y \in Nat : y < x => <<y, x>> \in OpToRel(<, Nat)
    BY DEF OpToRel
  <1>3. \A y \in I : y \in Nat /\ x \in Nat /\ ~(y < x)
    BY <1>1, <1>2
  <1>4. \A y \in I : x <= y
    BY <1>3
  <1> QED
    BY <1>4 DEF Min

(* What a list holds, when it grows and when it is read.                    *)
LEMMA Holds ==
    ASSUME NEW S, NEW s \in Seq(S)
    PROVE  /\ ToSet(s) \subseteq S
           /\ \A x : x \in ToSet(s) <=> \E i \in 1 .. Len(s) : s[i] = x
           /\ \A x \in S : ToSet(Append(s, x)) = ToSet(s) \cup {x}
           /\ s # <<>> => ToSet(s) = ToSet(Tail(s)) \cup {Head(s)}
  <1>1. ASSUME NEW t \in Seq(S)
        PROVE  \A x : x \in ToSet(t) <=> \E i \in 1 .. Len(t) : t[i] = x
    <2>1. DOMAIN t = 1 .. Len(t)
      BY LenProperties
    <2> QED
      BY <2>1 DEF ToSet
  <1>2. ToSet(s) \subseteq S
    BY <1>1, ElementOfSeq
  <1>3. ASSUME NEW x \in S
        PROVE  ToSet(Append(s, x)) = ToSet(s) \cup {x}
    <2>1. /\ Append(s, x) \in Seq(S) /\ Len(Append(s, x)) = Len(s) + 1
          /\ \A i \in 1 .. Len(s) : Append(s, x)[i] = s[i]
          /\ Append(s, x)[Len(s) + 1] = x
          /\ Len(s) \in Nat
      BY AppendProperties, LenProperties
    <2>2. 1 .. Len(s) + 1 = (1 .. Len(s)) \cup {Len(s) + 1}
      BY <2>1
    <2>3. /\ \A y : y \in ToSet(s) <=> \E i \in 1 .. Len(s) : s[i] = y
          /\ \A y : y \in ToSet(Append(s, x)) <=>
                    \E i \in 1 .. Len(Append(s, x)) : Append(s, x)[i] = y
      BY <1>1, <2>1
    <2> DEFINE longer == Append(s, x)
               n == Len(s)
    <2>4. /\ \A i \in 1 .. n : longer[i] = s[i]
          /\ longer[n + 1] = x
          /\ \A y : y \in ToSet(s) <=> \E i \in 1 .. n : s[i] = y
          /\ \A y : y \in ToSet(longer) <=> \E i \in 1 .. n + 1 : longer[i] = y
          /\ 1 .. n + 1 = (1 .. n) \cup {n + 1}
      BY <2>1, <2>2, <2>3
    <2> HIDE DEF longer, n
    <2>5. \A y : y \in ToSet(longer) <=> y \in ToSet(s) \cup {x}
      BY <2>4
    <2> QED
      BY <2>5 DEF longer
  <1>4. ASSUME s # <<>>
        PROVE  ToSet(s) = ToSet(Tail(s)) \cup {Head(s)}
    <2>1. /\ Tail(s) \in Seq(S) /\ Len(Tail(s)) = Len(s) - 1
          /\ \A i \in 1 .. Len(Tail(s)) : Tail(s)[i] = s[i + 1]
          /\ Head(s) = s[1]
          /\ Len(s) \in Nat \ {0}
      BY <1>4, HeadTailProperties, LenProperties, EmptySeq
    <2>2. ASSUME NEW y \in ToSet(s)
          PROVE  y \in ToSet(Tail(s)) \cup {Head(s)}
      <3>1. PICK i \in 1 .. Len(s) : s[i] = y
        BY <1>1
      <3>2. CASE i = 1
        BY <2>1, <3>1, <3>2
      <3>3. CASE i # 1
        <4>1. i - 1 \in 1 .. Len(Tail(s)) /\ (i - 1) + 1 = i
          BY <2>1, <3>3
        <4>2. Tail(s)[i - 1] = y
          BY <2>1, <3>1, <4>1
        <4> QED
          BY <1>1, <2>1, <4>1, <4>2
      <3> QED
        BY <3>2, <3>3
    <2>3. ASSUME NEW y \in ToSet(Tail(s)) \cup {Head(s)}
          PROVE  y \in ToSet(s)
      <3>1. CASE y = Head(s)
        <4>1. 1 \in 1 .. Len(s)
          BY <2>1
        <4> QED
          BY <1>1, <2>1, <3>1, <4>1
      <3>2. CASE y \in ToSet(Tail(s))
        <4>1. PICK i \in 1 .. Len(Tail(s)) : Tail(s)[i] = y
          BY <1>1, <2>1, <3>2
        <4>2. i + 1 \in 1 .. Len(s) /\ s[i + 1] = y
          BY <2>1, <4>1
        <4> QED
          BY <1>1, <4>2
      <3> QED
        BY <2>3, <3>1, <3>2
    <2> QED
      BY <2>2, <2>3
  <1> QED
    BY <1>1, <1>2, <1>3, <1>4

(* The first Cap entries.                                                   *)
LEMMA LatestIs ==
    ASSUME NEW S, NEW s \in Seq(S)
    PROVE  /\ Latest(s) \in Seq(S)
           /\ Len(Latest(s)) = IF Len(s) < Cap THEN Len(s) ELSE Cap
           /\ \A i \in 1 .. Len(Latest(s)) : Latest(s)[i] = s[i]
  <1> DEFINE n == IF Len(s) < Cap THEN Len(s) ELSE Cap
  <1>1. n \in Nat /\ n <= Len(s)
    BY PanelAssumption, LenProperties
  <1>2. Latest(s) = SubSeq(s, 1, n)
    BY DEF Latest
  <1> HIDE DEF n
  <1>3. \A i \in 1 .. n : s[i] \in S
    BY <1>1, ElementOfSeq, LenProperties
  <1>4. /\ SubSeq(s, 1, n) \in Seq(S)
        /\ Len(SubSeq(s, 1, n)) = IF 1 <= n THEN n - 1 + 1 ELSE 0
        /\ \A i \in 1 .. n - 1 + 1 : SubSeq(s, 1, n)[i] = s[1 + i - 1]
    BY <1>1, <1>3, SubSeqProperties
  <1>5. /\ Len(SubSeq(s, 1, n)) = n
        /\ \A i \in 1 .. n : SubSeq(s, 1, n)[i] = s[i]
    BY <1>1, <1>4
  <1> QED
    BY <1>2, <1>4, <1>5 DEF n

(* A message in front moves the others by one, and the last out of a full   *)
(* list.                                                                    *)
LEMMA InFrontIs ==
    ASSUME NEW S, NEW p \in S, NEW list \in Seq(S), Len(list) <= Cap
    PROVE  /\ InFront(p, list) \in Seq(S)
           /\ Len(InFront(p, list)) \in 1 .. Cap
           /\ Len(InFront(p, list)) = IF Len(list) < Cap THEN Len(list) + 1 ELSE Cap
           /\ InFront(p, list)[1] = p
           /\ \A i \in 2 .. Len(InFront(p, list)) :
                i - 1 \in 1 .. Len(list) /\ InFront(p, list)[i] = list[i - 1]
  <1> DEFINE longer == <<p>> \o list
  <1>1. <<p>> \in Seq(S) /\ Len(<<p>>) = 1 /\ <<p>>[1] = p /\ Len(list) \in Nat
    BY LenProperties
  <1>2. /\ longer \in Seq(S) /\ Len(longer) = Len(list) + 1
        /\ \A i \in 1 .. Len(list) + 1 :
             longer[i] = IF i <= 1 THEN <<p>>[i] ELSE list[i - 1]
    BY <1>1, ConcatProperties
  <1>3. InFront(p, list) = Latest(longer)
    BY DEF InFront
  <1> HIDE DEF longer
  <1>4. /\ Latest(longer) \in Seq(S)
        /\ Len(Latest(longer)) = IF Len(longer) < Cap THEN Len(longer) ELSE Cap
        /\ \A i \in 1 .. Len(Latest(longer)) : Latest(longer)[i] = longer[i]
    BY <1>2, LatestIs
  <1>5. /\ Len(Latest(longer)) = IF Len(list) < Cap THEN Len(list) + 1 ELSE Cap
        /\ Len(Latest(longer)) \in 1 .. Cap
    BY <1>1, <1>2, <1>4, PanelAssumption
  <1>6. /\ Latest(longer)[1] = p
        /\ \A i \in 2 .. Len(Latest(longer)) :
             i - 1 \in 1 .. Len(list) /\ Latest(longer)[i] = list[i - 1]
    BY <1>1, <1>2, <1>4, <1>5, PanelAssumption
  <1> QED
    BY <1>3, <1>4, <1>5, <1>6

(* What is in front of a list, and what it loses.                           *)
LEMMA InFrontHolds ==
    ASSUME NEW S, NEW p \in S, NEW list \in Seq(S), Len(list) <= Cap
    PROVE  ToSet(list) \cup {p} \subseteq
             ToSet(InFront(p, list)) \cup {list[i] : i \in {Cap} \cap DOMAIN list}
  <1>1. /\ InFront(p, list) \in Seq(S)
        /\ Len(InFront(p, list)) = IF Len(list) < Cap THEN Len(list) + 1 ELSE Cap
        /\ InFront(p, list)[1] = p
        /\ \A i \in 2 .. Len(InFront(p, list)) : InFront(p, list)[i] = list[i - 1]
    BY InFrontIs
  <1>2. Cap \in Nat \ {0} /\ Len(list) \in Nat /\ DOMAIN list = 1 .. Len(list)
    BY PanelAssumption, LenProperties
  <1>3. p \in ToSet(InFront(p, list))
    <2>1. 1 \in 1 .. Len(InFront(p, list))
      BY <1>1, <1>2
    <2> QED
      BY <1>1, <2>1, Holds
  <1>4. ASSUME NEW x \in ToSet(list)
        PROVE  x \in ToSet(InFront(p, list)) \cup {list[i] : i \in {Cap} \cap DOMAIN list}
    <2>1. PICK i \in 1 .. Len(list) : list[i] = x
      BY Holds
    <2>2. CASE i = Cap
      BY <1>2, <2>1, <2>2
    <2>3. CASE i # Cap
      <3>1. i + 1 \in 2 .. Len(InFront(p, list)) /\ (i + 1) - 1 = i
        BY <1>1, <1>2, <2>3
      <3>2. i + 1 \in 1 .. Len(InFront(p, list)) /\ InFront(p, list)[i + 1] = x
        BY <1>1, <1>2, <2>1, <3>1
      <3>3. x \in ToSet(InFront(p, list))
        BY <1>1, <3>2, Holds
      <3> QED
        BY <3>3
    <2> QED
      BY <2>2, <2>3
  <1> QED
    BY <1>3, <1>4

(* The answer of the API: the latest predictions, newest first.             *)
LEMMA LatestPredictions ==
    ASSUME predictions \in Seq(Models)
    PROVE  get_latest_predictions \in Seq(Saved) /\ Len(get_latest_predictions) <= Cap
  <1> DEFINE ids == [p \in Saved |-> p]
             n == Len(predictions)
  <1>1. n \in Nat /\ Saved = 1 .. n
    BY LenProperties DEF Saved
  <1>2. ids \in Seq(Saved) /\ Len(ids) = n
    <2>1. ids \in [1 .. n -> Saved]
      BY <1>1
    <2> QED
      BY <1>1, <2>1, LenProperties
  <1> HIDE DEF n, ids
  <1>3. Reverse(ids) \in Seq(Saved)
    <2>1. Reverse(ids) = [i \in 1 .. n |-> ids[(n - i) + 1]]
      BY <1>2 DEF Reverse
    <2>2. \A i \in 1 .. n : (n - i) + 1 \in 1 .. n
      BY <1>1
    <2>3. Reverse(ids) \in [1 .. n -> Saved]
      BY <1>2, <2>1, <2>2, ElementOfSeq
    <2> QED
      BY <1>1, <2>3
  <1>4. get_latest_predictions = Latest(Reverse(ids))
    BY DEF get_latest_predictions, ids
  <1>5. Latest(Reverse(ids)) \in Seq(Saved) /\ Len(Latest(Reverse(ids))) <= Cap
    <2>1. Len(Reverse(ids)) \in Nat
      BY <1>3, LenProperties
    <2> QED
      BY <1>3, <2>1, LatestIs, PanelAssumption
  <1> QED
    BY <1>4, <1>5

-----------------------------------------------------------------------------
(* The predictions panel: the first entry of a model.                       *)

(* Position i is the first with an entry of model m, by a table.            *)
First(table, list, m, i) ==
    /\ i \in 1 .. Len(list)
    /\ table[list[i]] = m
    /\ \A j \in 1 .. i - 1 : table[list[j]] # m

LEMMA FirstIs ==
    ASSUME NEW S, NEW list \in Seq(S), NEW table, NEW m
    PROVE  LET first == SelectInSeq(list, LAMBDA p : table[p] = m)
           IN  /\ first # 0 => First(table, list, m, first)
               /\ \A i : First(table, list, m, i) => first = i /\ i # 0
  <1> DEFINE I == {i \in 1 .. Len(list) : table[list[i]] = m}
             first == SelectInSeq(list, LAMBDA p : table[p] = m)
  <1>1. first = IF I # {} THEN Min(I) ELSE 0
    BY DEF SelectInSeq
  <1>2. /\ Len(list) \in Nat /\ I \in SUBSET Nat
        /\ \A i : i \in I <=> i \in 1 .. Len(list) /\ table[list[i]] = m
    BY LenProperties
  <1> HIDE DEF I, first
  <1>3. I # {} => Min(I) \in I /\ \A j \in I : Min(I) <= j
    BY <1>2, LeastElement
  <1>4. ASSUME first # 0
        PROVE  First(table, list, m, first)
    <2>1. first \in I /\ \A j \in I : first <= j
      BY <1>1, <1>3, <1>4
    <2>2. first \in 1 .. Len(list) /\ table[list[first]] = m
      BY <1>2, <2>1
    <2>3. \A j \in 1 .. first - 1 : j \in 1 .. Len(list) /\ ~(first <= j)
      BY <1>2, <2>2
    <2>4. \A j \in 1 .. first - 1 : table[list[j]] # m
      BY <1>2, <2>1, <2>3
    <2> QED
      BY <2>2, <2>4 DEF First
  <1>5. ASSUME NEW i, First(table, list, m, i)
        PROVE  first = i /\ i # 0
    <2>1. i \in 1 .. Len(list) /\ i \in I /\ \A j \in 1 .. i - 1 : j \notin I
      BY <1>2, <1>5 DEF First
    <2>2. first \in I /\ first <= i /\ first \in 1 .. Len(list)
      BY <1>1, <1>2, <1>3, <2>1
    <2>3. ~(first < i)
      BY <1>2, <2>1, <2>2
    <2> QED
      BY <1>2, <2>1, <2>2, <2>3
  <1> QED
    BY <1>4, <1>5 DEF first

(* Every gauge shows the first entry of its model.                          *)
GaugesShow(table, gauge, list) ==
    \A m \in Models : \A i : First(table, list, m, i) => gauge[m] = list[i]

LEMMA FirstOfIs ==
    ASSUME NEW S, NEW list \in Seq(S), NEW m
    PROVE  /\ FirstOf(list, m) # 0 => First(predictions, list, m, FirstOf(list, m))
           /\ \A i : First(predictions, list, m, i) => FirstOf(list, m) = i /\ i # 0
  BY FirstIs DEF FirstOf, ModelOf

LEMMA GaugesAreFirst ==
    ASSUME NEW S, panel.history \in Seq(S)
    PROVE  (\A m \in Models :
              FirstOf(panel.history, m) # 0 =>
                panel.gauge[m] = panel.history[FirstOf(panel.history, m)])
             <=> GaugesShow(predictions, panel.gauge, panel.history)
  BY FirstOfIs DEF GaugesShow

LEMMA GaugesFromShows ==
    ASSUME NEW S, NEW list \in Seq(S)
    PROVE  GaugesShow(predictions, GaugesFrom(list), list)
  BY FirstOfIs DEF GaugesShow, GaugesFrom

-----------------------------------------------------------------------------
(* The predictions panel: its invariant.                                    *)

(* A panel whose lists and gauges speak of the predictions S.               *)
Answers(S) == [state : {"asked", "refused", "done"}]
                \cup [state : {"answered"}, list : {list \in Seq(S) : Len(list) <= Cap}]

Panels(S) == [mounted : BOOLEAN, history : Seq(S) \cup {NotAList},
              gauge : [Models -> S \cup {NoPrediction}], get : Answers(S),
              socket : SocketStates, subscribed : BOOLEAN, inbox : Seq(S)]

(* All that a panel holds is in the table, so that no model of an entry     *)
(* changes when a prediction is saved.                                      *)
PanelTyped ==
    /\ predictions \in Seq(Models)
    /\ Len(predictions) <= MaxPredictions
    /\ unpublished \in Saved \cup {NoPrediction}
    /\ panel \in Panels(Saved)
    /\ panel.history # NotAList => Len(panel.history) <= Cap
    /\ unheard \subseteq Saved
    /\ removed \subseteq Saved

GaugesShowFirst ==
    panel.history # NotAList => GaugesShow(predictions, panel.gauge, panel.history)

PanelInv == PanelTyped /\ GapsHaveTheirCause /\ GaugesShowFirst

LEMMA PanelMonotonic ==
    ASSUME NEW S, NEW T, S \subseteq T
    PROVE  Panels(S) \subseteq Panels(T)
  <1>1. Seq(S) \subseteq Seq(T)
    BY SeqMonotonic
  <1>2. Answers(S) \subseteq Answers(T)
    BY <1>1 DEF Answers
  <1>3. [Models -> S \cup {NoPrediction}] \subseteq [Models -> T \cup {NoPrediction}]
    OBVIOUS
  <1> QED
    BY <1>1, <1>2, <1>3 DEF Panels

LEMMA SavedIs == predictions \in Seq(Models) => Len(predictions) \in Nat /\ NoPrediction \notin Saved
  BY LenProperties DEF Saved, NoPrediction

(* The panel that is not mounted, and the one that has just been.           *)
LEMMA PanelUnmountedIs ==
    ASSUME NEW S
    PROVE  /\ PanelUnmounted \in Panels(S) /\ ~PanelUnmounted.mounted
           /\ PanelUnmounted.history = <<>> /\ PanelUnmounted.inbox = <<>>
  <1>1. <<>> \in Seq(S)
    BY EmptySeq
  <1>2. [m \in Models |-> NoPrediction] \in [Models -> S \cup {NoPrediction}]
    OBVIOUS
  <1>3. [state |-> "done"] \in Answers(S) /\ "closed" \in SocketStates
    BY DEF Answers, SocketStates
  <1> QED
    BY <1>1, <1>2, <1>3 DEF PanelUnmounted, Panels

(* An empty list shows nothing.                                             *)
LEMMA NothingShown ==
    ASSUME NEW table, NEW gauge
    PROVE  GaugesShow(table, gauge, <<>>)
  BY DEF GaugesShow, First

(* A step that leaves the list, the gauges and the messages under way, and  *)
(* what is known of them.                                                   *)
LEMMA QuietPanelStep ==
    ASSUME PanelInv, panel' \in Panels(Saved),
           panel'.history = panel.history, panel'.gauge = panel.gauge,
           panel'.inbox = panel.inbox, panel'.mounted = panel.mounted,
           UNCHANGED <<predictions, unpublished, unheard, removed>>
    PROVE  PanelInv'
  <1>1. Saved' = Saved
    BY DEF Saved
  <1>2. PanelTyped'
    BY <1>1 DEF PanelInv, PanelTyped
  <1>3. GapsHaveTheirCause'
    BY <1>1 DEF PanelInv, GapsHaveTheirCause
  <1>4. GaugesShowFirst'
    BY DEF PanelInv, GaugesShowFirst
  <1> QED
    BY <1>2, <1>3, <1>4 DEF PanelInv

-----------------------------------------------------------------------------
(* The predictions panel: its steps.                                        *)

LEMMA SavePredictionStep ==
    ASSUME PanelInv, SavePrediction
    PROVE  PanelInv'
  <1> DEFINE n == Len(predictions)
  <1>1. PICK m \in Models : predictions' = Append(predictions, m)
    BY DEF SavePrediction
  <1>2. /\ unpublished = NoPrediction /\ Len(predictions) < MaxPredictions
        /\ unpublished' = Len(predictions') /\ UNCHANGED <<panel, unheard, removed>>
    BY DEF SavePrediction
  <1>3. /\ predictions' \in Seq(Models) /\ Len(predictions') = n + 1 /\ n \in Nat
        /\ \A i \in 1 .. n : predictions'[i] = predictions[i]
    BY <1>1, AppendProperties, SavedIs DEF PanelInv, PanelTyped
  <1>4. Saved = 1 .. n /\ Saved' = Saved \cup {n + 1} /\ n + 1 \in Saved'
    BY <1>3 DEF Saved
  <1>5. panel' \in Panels(Saved')
    BY <1>2, <1>4, PanelMonotonic DEF PanelInv, PanelTyped
  <1>6. PanelTyped'
    <2>1. Len(predictions') <= MaxPredictions
      BY <1>2, <1>3, PanelAssumption
    <2>2. unpublished' \in Saved' \cup {NoPrediction}
      BY <1>2, <1>3, <1>4
    <2>3. unheard' \subseteq Saved' /\ removed' \subseteq Saved'
      BY <1>2, <1>4 DEF PanelInv, PanelTyped
    <2>4. panel'.history # NotAList => Len(panel'.history) <= Cap
      BY <1>2 DEF PanelInv, PanelTyped
    <2> QED
      BY <1>3, <1>5, <2>1, <2>2, <2>3, <2>4 DEF PanelTyped
  <1>7. GapsHaveTheirCause'
    <2>1. NoPrediction \notin Saved
      BY SavedIs DEF PanelInv, PanelTyped
    <2>2. unpublished' = n + 1 /\ Saved' = Saved \cup {unpublished'}
      BY <1>2, <1>3, <1>4
    <2> HIDE DEF n
    <2>3. panel.mounted /\ panel.history # NotAList =>
            Saved' \subseteq ToSet(panel.history) \cup ToSet(panel.inbox) \cup unheard
                                \cup removed \cup {unpublished'}
      BY <1>2, <2>1, <2>2 DEF PanelInv, GapsHaveTheirCause
    <2> QED
      BY <1>2, <2>3 DEF GapsHaveTheirCause
  <1>8. GaugesShowFirst'
    <2> SUFFICES ASSUME panel.history # NotAList
                 PROVE  GaugesShow(predictions', panel.gauge, panel.history)
      BY <1>2 DEF GaugesShowFirst
    <2>1. GaugesShow(predictions, panel.gauge, panel.history)
      BY DEF PanelInv, GaugesShowFirst
    <2>2. panel.history \in Seq(Saved)
      BY DEF PanelInv, PanelTyped, Panels
    <2>3. Len(panel.history) \in Nat
          /\ \A i \in 1 .. Len(panel.history) :
               predictions'[panel.history[i]] = predictions[panel.history[i]]
      BY <1>3, <1>4, <2>2, ElementOfSeq, LenProperties
    <2>4. ASSUME NEW x, NEW i, First(predictions', panel.history, x, i)
          PROVE  First(predictions, panel.history, x, i)
      <3>1. i \in 1 .. Len(panel.history) /\ predictions[panel.history[i]] = x
        BY <2>3, <2>4 DEF First
      <3>2. \A j \in 1 .. i - 1 : j \in 1 .. Len(panel.history)
        BY <2>3, <3>1
      <3>3. \A j \in 1 .. i - 1 : predictions[panel.history[j]] # x
        BY <2>3, <2>4, <3>2 DEF First
      <3> QED
        BY <3>1, <3>3 DEF First
    <2> QED
      BY <2>1, <2>4 DEF GaugesShow
  <1> QED
    BY <1>6, <1>7, <1>8 DEF PanelInv

LEMMA PublishPredictionStep ==
    ASSUME PanelInv, PublishPrediction
    PROVE  PanelInv'
  <1>1. /\ unpublished # NoPrediction /\ unpublished' = NoPrediction
        /\ UNCHANGED <<predictions, removed>>
        /\ unpublished \in Saved
    BY DEF PublishPrediction, PanelInv, PanelTyped
  <1>2. Saved' = Saved
    BY <1>1 DEF Saved
  <1>3. /\ panel.inbox \in Seq(Saved) /\ panel \in Panels(Saved)
    BY DEF PanelInv, PanelTyped, Panels
  <1>4. CASE panel' = [panel EXCEPT !.inbox = Append(@, unpublished)] /\ unheard' = unheard
    <2>1. Append(panel.inbox, unpublished) \in Seq(Saved)
      BY <1>1, <1>3, AppendProperties
    <2>2. /\ panel' \in Panels(Saved) /\ panel'.inbox = Append(panel.inbox, unpublished)
          /\ panel'.history = panel.history /\ panel'.gauge = panel.gauge
          /\ panel'.mounted = panel.mounted
      BY <1>3, <1>4, <2>1 DEF Panels
    <2>3. PanelTyped'
      BY <1>1, <1>2, <1>4, <2>2 DEF PanelInv, PanelTyped
    <2>4. ToSet(panel'.inbox) = ToSet(panel.inbox) \cup {unpublished}
      BY <1>1, <1>3, <2>2, Holds
    <2>5. GapsHaveTheirCause'
      BY <1>1, <1>2, <1>4, <2>2, <2>4 DEF PanelInv, GapsHaveTheirCause
    <2>6. GaugesShowFirst'
      BY <1>1, <2>2 DEF PanelInv, GaugesShowFirst
    <2> QED
      BY <2>3, <2>5, <2>6 DEF PanelInv
  <1>5. CASE panel' = panel
             /\ unheard' = IF panel.mounted THEN unheard \cup {unpublished} ELSE {}
    <2>1. PanelTyped'
      BY <1>1, <1>2, <1>5 DEF PanelInv, PanelTyped
    <2>2. GapsHaveTheirCause'
      BY <1>1, <1>2, <1>5 DEF PanelInv, GapsHaveTheirCause
    <2>3. GaugesShowFirst'
      BY <1>1, <1>5 DEF PanelInv, GaugesShowFirst
    <2> QED
      BY <2>1, <2>2, <2>3 DEF PanelInv
  <1> QED
    BY <1>4, <1>5 DEF PublishPrediction

LEMMA PanelMountStep ==
    ASSUME PanelInv, PanelMount \/ PanelUnmount
    PROVE  PanelInv'
  <1>1. Saved' = Saved /\ UNCHANGED <<predictions, unpublished>>
    BY DEF PanelMount, PanelUnmount, Saved
  <1>2. /\ panel' \in Panels(Saved) /\ panel'.history = <<>>
        /\ PanelUnmount => ~panel'.mounted
    <2>1. /\ PanelUnmounted \in Panels(Saved) /\ PanelUnmounted.history = <<>>
          /\ ~PanelUnmounted.mounted
      BY PanelUnmountedIs
    <2>2. CASE PanelMount
      <3>1. [state |-> "asked"] \in Answers(Saved) /\ "connecting" \in SocketStates
        BY DEF Answers, SocketStates
      <3>2. ~PanelUnmount
        BY <2>1, <2>2 DEF PanelMount, PanelUnmount, PanelUnmounted
      <3>3. panel' = [PanelUnmounted EXCEPT !.mounted = TRUE, !.get = [state |-> "asked"],
                                            !.socket = "connecting"]
        BY <2>2 DEF PanelMount
      <3>4. panel' \in Panels(Saved) /\ panel'.history = <<>>
        BY <2>1, <3>1, <3>3 DEF Panels
      <3> QED
        BY <3>2, <3>4
    <2>3. CASE PanelUnmount
      BY <2>1, <2>3 DEF PanelUnmount
    <2> QED
      BY <2>2, <2>3
  <1>3. removed' = {} /\ unheard' \subseteq Saved /\ (PanelMount => unheard' = Saved \ {unpublished})
    BY DEF PanelMount, PanelUnmount
  <1>4. PanelTyped'
    <2>1. Len(panel'.history) <= Cap
      BY <1>2, EmptySeq, PanelAssumption
    <2> QED
      BY <1>1, <1>2, <1>3, <2>1 DEF PanelInv, PanelTyped
  <1>5. GapsHaveTheirCause'
    BY <1>1, <1>2, <1>3 DEF GapsHaveTheirCause
  <1>6. GaugesShowFirst'
    BY <1>2, NothingShown DEF GaugesShowFirst
  <1> QED
    BY <1>4, <1>5, <1>6 DEF PanelInv

LEMMA PanelServedStep ==
    ASSUME PanelInv,
           Subscribe \/ ServePredictions \/ RefusePredictions \/ PredictionsFail \/ onopenPanel
    PROVE  PanelInv'
  <1>1. panel \in Panels(Saved)
    BY DEF PanelInv, PanelTyped
  <1>2. UNCHANGED <<predictions, unpublished, unheard, removed>>
    BY DEF Subscribe, ServePredictions, RefusePredictions, PredictionsFail, onopenPanel
  <1>3. CASE Subscribe
    BY <1>1, <1>2, <1>3, QuietPanelStep DEF Subscribe, Panels
  <1>4. CASE onopenPanel
    BY <1>1, <1>2, <1>4, QuietPanelStep DEF onopenPanel, Panels, SocketStates
  <1>5. ASSUME NEW answer \in Answers(Saved), panel' = [panel EXCEPT !.get = answer]
        PROVE  PanelInv'
    BY <1>1, <1>2, <1>5, QuietPanelStep DEF Panels
  <1>6. CASE ServePredictions
    <2>1. [state |-> "answered", list |-> get_latest_predictions] \in Answers(Saved)
      BY LatestPredictions DEF Answers, PanelInv, PanelTyped
    <2> QED
      BY <1>5, <1>6, <2>1 DEF ServePredictions
  <1>7. [state |-> "refused"] \in Answers(Saved) /\ [state |-> "done"] \in Answers(Saved)
    BY DEF Answers
  <1>8. CASE RefusePredictions \/ PredictionsFail
    BY <1>5, <1>7, <1>8 DEF RefusePredictions, PredictionsFail
  <1> QED
    BY <1>3, <1>4, <1>6, <1>8

(* The answer replaces the list, and the gauges it has an entry for.        *)
LEMMA PredictionsArriveStep ==
    ASSUME PanelInv, panel.history # NotAList, PredictionsArrive
    PROVE  PanelInv'
  <1> DEFINE list == panel.get.list
             gauge == GaugesFrom(list)
  <1>1. /\ panel.get.state = "answered"
        /\ panel' = [panel EXCEPT !.history = list, !.gauge = gauge, !.get = [state |-> "done"]]
        /\ removed' = removed \cup (ToSet(panel.history) \ ToSet(list))
        /\ UNCHANGED <<predictions, unpublished, unheard>>
    BY DEF PredictionsArrive
  <1>2. panel \in Panels(Saved) /\ panel.history \in Seq(Saved)
    BY DEF PanelInv, PanelTyped, Panels
  <1>3. list \in Seq(Saved) /\ Len(list) <= Cap
    BY <1>1, <1>2 DEF Panels, Answers
  <1>4. gauge \in [Models -> Saved \cup {NoPrediction}]
    <2>1. panel.gauge \in [Models -> Saved \cup {NoPrediction}]
      BY <1>2 DEF Panels
    <2>2. ASSUME NEW m \in Models, FirstOf(list, m) # 0
          PROVE  list[FirstOf(list, m)] \in Saved
      <3> HIDE DEF list
      <3>1. First(predictions, list, m, FirstOf(list, m))
        BY <1>3, <2>2, FirstOfIs
      <3> QED
        BY <1>3, <3>1, ElementOfSeq DEF First
    <2> QED
      BY <2>1, <2>2 DEF GaugesFrom
  <1>5. GaugesShow(predictions, gauge, list)
    BY <1>3, GaugesFromShows
  <1> HIDE DEF list, gauge
  <1>6. [state |-> "done"] \in Answers(Saved)
    BY DEF Answers
  <1>7. /\ panel' \in Panels(Saved) /\ panel'.history = list /\ panel'.gauge = gauge
        /\ panel'.inbox = panel.inbox /\ panel'.mounted = panel.mounted
    BY <1>1, <1>2, <1>3, <1>4, <1>6 DEF Panels
  <1>8. Saved' = Saved
    BY <1>1 DEF Saved
  <1>9. PanelTyped'
    <2>1. removed' \subseteq Saved
      BY <1>1, <1>2, Holds DEF PanelInv, PanelTyped
    <2> QED
      BY <1>1, <1>3, <1>7, <1>8, <2>1 DEF PanelInv, PanelTyped
  <1>10. GapsHaveTheirCause'
    BY <1>1, <1>7, <1>8 DEF PanelInv, GapsHaveTheirCause
  <1>11. GaugesShowFirst'
    BY <1>1, <1>5, <1>7 DEF GaugesShowFirst
  <1> QED
    BY <1>9, <1>10, <1>11 DEF PanelInv

LEMMA ErrorArrivesStep ==
    ASSUME PanelInv, ErrorArrives
    PROVE  PanelInv'
  <1>1. /\ panel' = [panel EXCEPT !.history = NotAList, !.get = [state |-> "done"]]
        /\ UNCHANGED <<predictions, unpublished, unheard, removed>>
    BY DEF ErrorArrives
  <1>2. [state |-> "done"] \in Answers(Saved) /\ panel \in Panels(Saved)
    BY DEF Answers, PanelInv, PanelTyped
  <1>3. panel' \in Panels(Saved) /\ panel'.history = NotAList
    BY <1>1, <1>2 DEF Panels
  <1>4. Saved' = Saved
    BY <1>1 DEF Saved
  <1> QED
    BY <1>1, <1>3, <1>4 DEF PanelInv, PanelTyped, GapsHaveTheirCause, GaugesShowFirst

(* What was under way is lost, and known to be.                             *)
LEMMA onclosePanelStep ==
    ASSUME PanelInv, onclosePanel
    PROVE  PanelInv'
  <1>1. /\ panel' = [panel EXCEPT !.socket = "closed", !.subscribed = FALSE, !.inbox = <<>>]
        /\ unheard' = unheard \cup ToSet(panel.inbox)
        /\ UNCHANGED <<predictions, unpublished, removed>>
    BY DEF onclosePanel
  <1>2. /\ <<>> \in Seq(Saved) /\ "closed" \in SocketStates
        /\ panel \in Panels(Saved) /\ panel.inbox \in Seq(Saved)
    BY EmptySeq DEF SocketStates, PanelInv, PanelTyped, Panels
  <1>3. /\ panel' \in Panels(Saved) /\ panel'.history = panel.history
        /\ panel'.gauge = panel.gauge /\ panel'.mounted = panel.mounted
    BY <1>1, <1>2 DEF Panels
  <1>4. Saved' = Saved
    BY <1>1 DEF Saved
  <1>5. PanelTyped'
    <2>1. unheard' \subseteq Saved
      BY <1>1, <1>2, Holds DEF PanelInv, PanelTyped
    <2> QED
      BY <1>1, <1>3, <1>4, <2>1 DEF PanelInv, PanelTyped
  <1>6. GapsHaveTheirCause'
    BY <1>1, <1>3, <1>4 DEF PanelInv, GapsHaveTheirCause
  <1>7. GaugesShowFirst'
    BY <1>1, <1>3 DEF PanelInv, GaugesShowFirst
  <1> QED
    BY <1>5, <1>6, <1>7 DEF PanelInv

(* The message goes to the front of the list and to the gauge of its model: *)
(* no other gauge has another first entry.                                  *)
LEMMA onmessagePanelStep ==
    ASSUME PanelInv, panel.history # NotAList, onmessagePanel
    PROVE  PanelInv'
  <1> DEFINE p == Head(panel.inbox)
             list == panel.history
             longer == InFront(p, list)
             model == predictions[p]
  <1>1. /\ panel.inbox # <<>>
        /\ panel' = [panel EXCEPT !.inbox = Tail(panel.inbox),
                                  !.gauge = [panel.gauge EXCEPT ![model] = p],
                                  !.history = longer]
        /\ removed' = removed \cup {list[i] : i \in {Cap} \cap DOMAIN list}
        /\ UNCHANGED <<predictions, unpublished, unheard>>
    BY DEF onmessagePanel, ModelOf
  <1>2. /\ panel \in Panels(Saved) /\ list \in Seq(Saved) /\ Len(list) <= Cap
        /\ panel.inbox \in Seq(Saved)
        /\ panel.gauge \in [Models -> Saved \cup {NoPrediction}]
        /\ predictions \in Seq(Models)
    BY DEF PanelInv, PanelTyped, Panels
  <1>3. /\ p \in Saved /\ Tail(panel.inbox) \in Seq(Saved)
        /\ ToSet(panel.inbox) = ToSet(Tail(panel.inbox)) \cup {p}
    BY <1>1, <1>2, HeadTailProperties, Holds
  <1>4. model \in Models
    BY <1>2, <1>3, ElementOfSeq DEF Saved
  <1> HIDE DEF p, list
  <1>5. /\ longer \in Seq(Saved) /\ Len(longer) \in 1 .. Cap /\ longer[1] = p
        /\ \A i \in 2 .. Len(longer) : i - 1 \in 1 .. Len(list) /\ longer[i] = list[i - 1]
    BY <1>2, <1>3, InFrontIs
  <1>6. ToSet(list) \cup {p} \subseteq
          ToSet(longer) \cup {list[i] : i \in {Cap} \cap DOMAIN list}
    BY <1>2, <1>3, InFrontHolds
  <1>7. GaugesShow(predictions, panel.gauge, list)
    BY DEF PanelInv, GaugesShowFirst, list
  <1> HIDE DEF longer, model
  <1> DEFINE gauge == [panel.gauge EXCEPT ![model] = p]
  <1>8. gauge \in [Models -> Saved \cup {NoPrediction}]
    BY <1>2, <1>3, <1>4
  <1>9. GaugesShow(predictions, gauge, longer)
    <2> SUFFICES ASSUME NEW m \in Models, NEW i, First(predictions, longer, m, i)
                 PROVE  gauge[m] = longer[i]
      BY DEF GaugesShow
    <2>1. /\ i \in 1 .. Len(longer) /\ predictions[longer[i]] = m
          /\ \A j \in 1 .. i - 1 : predictions[longer[j]] # m
          /\ Len(longer) \in Nat
      BY <1>5 DEF First
    <2>2. CASE i = 1
      BY <1>2, <1>5, <2>1, <2>2 DEF model
    <2>3. CASE i # 1
      <3>1. i \in 2 .. Len(longer) /\ 1 \in 1 .. i - 1
        BY <2>1, <2>3
      <3>2. m # model
        BY <1>5, <2>1, <3>1 DEF model
      <3>3. i - 1 \in 1 .. Len(list) /\ longer[i] = list[i - 1]
        BY <1>5, <3>1
      <3>4. ASSUME NEW j \in 1 .. (i - 1) - 1
            PROVE  predictions[list[j]] # m
        <4>1. j + 1 \in 2 .. Len(longer) /\ j + 1 \in 1 .. i - 1 /\ (j + 1) - 1 = j
          BY <2>1, <3>1
        <4>2. longer[j + 1] = list[j]
          BY <1>5, <4>1
        <4> QED
          BY <2>1, <4>1, <4>2
      <3>5. First(predictions, list, m, i - 1)
        BY <2>1, <3>3, <3>4 DEF First
      <3>6. panel.gauge[m] = list[i - 1]
        BY <1>7, <3>5 DEF GaugesShow
      <3> QED
        BY <1>2, <3>2, <3>3, <3>6
    <2> QED
      BY <2>2, <2>3
  <1>10. /\ panel' \in Panels(Saved) /\ panel'.history = longer /\ panel'.gauge = gauge
         /\ panel'.inbox = Tail(panel.inbox) /\ panel'.mounted = panel.mounted
    BY <1>1, <1>2, <1>3, <1>5, <1>8 DEF Panels
  <1>11. Saved' = Saved
    BY <1>1 DEF Saved
  <1>12. PanelTyped'
    <2>1. removed' \subseteq Saved
      <3>1. \A i \in DOMAIN list : list[i] \in Saved
        BY <1>2, LenProperties, ElementOfSeq
      <3> QED
        BY <1>1, <3>1 DEF PanelInv, PanelTyped
    <2>2. Len(panel'.history) <= Cap
      BY <1>5, <1>10, PanelAssumption
    <2> QED
      BY <1>1, <1>10, <1>11, <2>1, <2>2 DEF PanelInv, PanelTyped
  <1>13. GapsHaveTheirCause'
    <2>1. panel.mounted => Saved \subseteq ToSet(list) \cup ToSet(panel.inbox) \cup unheard
                                             \cup removed \cup {unpublished}
      BY DEF PanelInv, GapsHaveTheirCause, list
    <2>2. panel.mounted => Saved \subseteq ToSet(longer) \cup ToSet(Tail(panel.inbox))
                             \cup unheard \cup removed' \cup {unpublished}
      BY <1>1, <1>3, <1>6, <2>1
    <2> QED
      BY <1>1, <1>10, <1>11, <2>2 DEF GapsHaveTheirCause
  <1>14. GaugesShowFirst'
    BY <1>1, <1>9, <1>10 DEF GaugesShowFirst
  <1> QED
    BY <1>12, <1>13, <1>14 DEF PanelInv

(* Every step of the panel, its server and the scheduler, while the list is *)
(* one.                                                                     *)
LEMMA PanelStep ==
    ASSUME PanelInv, panel.history # NotAList,
           SavePrediction \/ PublishPrediction \/ Subscribe \/ ServePredictions
             \/ RefusePredictions \/ PredictionsFail \/ onclosePanel \/ PredictionsArrive
             \/ ErrorArrives \/ onopenPanel \/ onmessagePanel
    PROVE  PanelInv'
  BY SavePredictionStep, PublishPredictionStep, PanelServedStep, onclosePanelStep,
     PredictionsArriveStep, ErrorArrivesStep, onmessagePanelStep

-----------------------------------------------------------------------------
(* The routing panel.                                                       *)

LEMMA TableIs ==
    ASSUME NEW table
    PROVE  table \in Tables <=> \E ids \in SUBSET RuleIds : table \in [ids -> BOOLEAN]
  BY DEF Tables

(* A write makes a table of a table.                                        *)
LEMMA WrittenIsTable ==
    ASSUME rules \in Tables, NEW w \in Write
    PROVE  Written(w) \in Tables
  <1>1. PICK ids \in SUBSET RuleIds : rules \in [ids -> BOOLEAN]
    BY TableIs
  <1>2. DOMAIN rules = ids
    BY <1>1
  <1>3. CASE w.method = "POST"
    <2>1. w.id \in RuleIds /\ w.active \in BOOLEAN
      BY <1>3 DEF Write
    <2>2. Written(w) = [id \in ids \cup {w.id} |-> IF id = w.id THEN w.active ELSE rules[id]]
      BY <1>2, <1>3 DEF Written
    <2>3. Written(w) \in [ids \cup {w.id} -> BOOLEAN]
      BY <1>1, <2>1, <2>2
    <2> QED
      BY <1>1, <2>1, <2>2, <2>3, TableIs
  <1>4. CASE w.method = "PUT"
    <2>1. w.active \in BOOLEAN
      BY <1>4 DEF Write
    <2>2. Written(w) = IF w.id \in DOMAIN rules THEN [rules EXCEPT ![w.id] = w.active] ELSE rules
      BY <1>4 DEF Written
    <2>3. Written(w) \in [ids -> BOOLEAN]
      BY <1>1, <2>1, <2>2
    <2> QED
      BY <1>1, <2>3, TableIs
  <1>5. CASE w.method = "DELETE"
    <2>1. Written(w) = Restrict(rules, DOMAIN rules \ {w.id})
      BY <1>5 DEF Written
    <2>2. Restrict(rules, DOMAIN rules \ {w.id}) \in [ids \ {w.id} -> BOOLEAN]
      BY <1>1, <1>2 DEF Restrict
    <2> QED
      BY <1>1, <2>1, <2>2, TableIs
  <1>6. w.method \in {"POST", "PUT", "DELETE"}
    BY DEF Write
  <1> QED
    BY <1>3, <1>4, <1>5, <1>6

Components == [mounted : BOOLEAN, rules : Tables, loading : BOOLEAN, showForm : BOOLEAN]

(* What a request is, by its state and method.                              *)
LEMMA RequestIs ==
    ASSUME NEW r \in Request
    PROVE  /\ r.method \in {"GET", "POST", "PUT", "DELETE"}
           /\ r.state = "asked" /\ r.method # "GET" => r \in Write
           /\ r.state = "answered" /\ r.method = "GET" => r.rules \in Tables
           /\ [state |-> "failed", method |-> r.method] \in Request
           /\ r.method # "GET" => [state |-> "refused", method |-> r.method] \in Request
  <1>1. CASE r \in Write
    BY <1>1 DEF Write, Request
  <1>2. CASE r \in [state : {"asked", "failed"}, method : {"GET"}]
    BY <1>2 DEF Request
  <1>3. CASE r \in [state : {"answered"}, method : {"GET"}, rules : Tables]
    BY <1>3 DEF Request
  <1>4. CASE r \in [state : {"answered", "refused", "failed"}, method : {"POST", "PUT", "DELETE"}]
    BY <1>4 DEF Request
  <1> QED
    BY <1>1, <1>2, <1>3, <1>4 DEF Request

(* A request under way belongs to a component that is mounted, and may be   *)
(* answered or taken out.                                                   *)
LEMMA RequestsEdits ==
    ASSUME RoutingTypeOK, NEW i \in DOMAIN requests
    PROVE  /\ routingPanel.mounted /\ requests[i] \in Request
           /\ \A r \in Request :
                [requests EXCEPT ![i] = r] \in Seq(Request)
                /\ Len([requests EXCEPT ![i] = r]) = Len(requests)
           /\ RemoveAt(requests, i) \in Seq(Request)
           /\ Len(RemoveAt(requests, i)) = Len(requests) - 1
           /\ Len(requests) \in Nat /\ Len(requests) <= MaxRequests
           /\ MaxRequests \in Nat
  <1>1. /\ requests \in Seq(Request) /\ Len(requests) <= MaxRequests
        /\ ~routingPanel.mounted => requests = <<>>
    BY DEF RoutingTypeOK
  <1>2. i \in 1 .. Len(requests) /\ Len(requests) \in Nat
    BY <1>1, LenProperties
  <1>3. routingPanel.mounted
    BY <1>1, <1>2
  <1>4. requests[i] \in Request
    BY <1>1, <1>2, ElementOfSeq
  <1>5. \A r \in Request : [requests EXCEPT ![i] = r] \in Seq(Request)
                           /\ Len([requests EXCEPT ![i] = r]) = Len(requests)
    BY <1>1, <1>2, ExceptSeq
  <1>6. RemoveAt(requests, i) \in Seq(Request) /\ Len(RemoveAt(requests, i)) = Len(requests) - 1
    BY <1>1, RemoveAtType
  <1> QED
    BY <1>1, <1>2, <1>3, <1>4, <1>5, <1>6, RoutingPanelAssumption

LEMMA SendType ==
    ASSUME RoutingTypeOK, NEW r \in Request, Send(r)
    PROVE  requests' \in Seq(Request) /\ Len(requests') <= MaxRequests
  <1>1. /\ requests' = Append(requests, r) /\ Len(requests) < MaxRequests
        /\ requests \in Seq(Request)
    BY DEF Send, RoutingTypeOK
  <1>2. requests' \in Seq(Request) /\ Len(requests') = Len(requests) + 1 /\ Len(requests) \in Nat
    BY <1>1, AppendProperties, LenProperties
  <1> QED
    BY <1>1, <1>2, RoutingPanelAssumption

(* The API has no key that the panel sends: its writes are refused and the  *)
(* table is left alone, whatever ServerKey is.                              *)
LEMMA PanelHasNoKey == ~verify_api_key(NoKey)
  BY DEF verify_api_key

LEMMA ServeRoutingStep ==
    ASSUME RoutingTypeOK, NEW i \in DOMAIN requests, ServeRouting(i)
    PROVE  RoutingTypeOK' /\ routingPanel' = routingPanel /\ rules' = rules
  <1>1. /\ requests[i].state = "asked"
        /\ UNCHANGED <<changes, clicks, routingPanel>>
        /\ rules' = rules
        /\ requests' = [requests EXCEPT ![i] =
             IF requests[i].method = "GET"
             THEN [state |-> "answered", method |-> "GET", rules |-> rules]
             ELSE [state |-> "refused", method |-> requests[i].method]]
    BY PanelHasNoKey DEF ServeRouting
  <1> DEFINE answer == IF requests[i].method = "GET"
                       THEN [state |-> "answered", method |-> "GET", rules |-> rules]
                       ELSE [state |-> "refused", method |-> requests[i].method]
  <1>2. answer \in Request
    <2>1. requests[i] \in Request
      BY RequestsEdits
    <2>2. CASE requests[i].method = "GET"
      BY <2>2 DEF Request, RoutingTypeOK
    <2>3. CASE requests[i].method # "GET"
      BY <2>1, <2>3, RequestIs
    <2> QED
      BY <2>2, <2>3
  <1>3. requests' = [requests EXCEPT ![i] = answer]
    BY <1>1
  <1> HIDE DEF answer
  <1>4. requests' \in Seq(Request) /\ Len(requests') <= MaxRequests /\ routingPanel.mounted
    BY <1>2, <1>3, RequestsEdits
  <1> QED
    BY <1>1, <1>4 DEF RoutingTypeOK

LEMMA RefuseRoutingStep ==
    ASSUME RoutingTypeOK, NEW i \in DOMAIN requests, RefuseRouting(i)
    PROVE  RoutingTypeOK' /\ routingPanel' = routingPanel /\ rules' = rules
  <1> DEFINE answer == [state |-> "failed", method |-> requests[i].method]
  <1>1. /\ UNCHANGED <<rules, changes, clicks, routingPanel>>
        /\ requests' = [requests EXCEPT ![i] = answer]
    BY DEF RefuseRouting
  <1>2. answer \in Request
    BY RequestsEdits, RequestIs
  <1> HIDE DEF answer
  <1>3. requests' \in Seq(Request) /\ Len(requests') <= MaxRequests /\ routingPanel.mounted
    BY <1>1, <1>2, RequestsEdits
  <1> QED
    BY <1>1, <1>3 DEF RoutingTypeOK

LEMMA RulesArriveStep ==
    ASSUME RoutingTypeOK, NEW i \in DOMAIN requests, RulesArrive(i)
    PROVE  /\ RoutingTypeOK' /\ routingPanel'.mounted = routingPanel.mounted
           /\ rules' = rules
  <1>1. /\ requests[i].method = "GET"
        /\ requests' = RemoveAt(requests, i)
        /\ UNCHANGED <<rules, changes, clicks>>
    BY DEF RulesArrive
  <1>2. routingPanel \in Components
    BY DEF RoutingTypeOK, Components
  <1>3. PICK table : /\ table = IF requests[i].state = "answered"
                                THEN requests[i].rules ELSE routingPanel.rules
                     /\ routingPanel' = [routingPanel EXCEPT !.loading = FALSE, !.rules = table]
    BY <1>2 DEF RulesArrive, Components
  <1>4. table \in Tables
    BY <1>1, <1>2, <1>3, RequestsEdits, RequestIs DEF Components
  <1>5. routingPanel' \in Components /\ routingPanel'.mounted = routingPanel.mounted
    BY <1>2, <1>3, <1>4 DEF Components
  <1>6. requests' \in Seq(Request) /\ Len(requests') <= MaxRequests /\ routingPanel.mounted
    BY <1>1, RequestsEdits
  <1> QED
    BY <1>1, <1>5, <1>6 DEF RoutingTypeOK, Components

LEMMA WriteArrivesStep ==
    ASSUME RoutingTypeOK, NEW i \in DOMAIN requests, WriteArrives(i)
    PROVE  /\ RoutingTypeOK' /\ routingPanel'.mounted = routingPanel.mounted
           /\ rules' = rules
  <1>1. /\ \/ requests' = Append(RemoveAt(requests, i), fetchRules)
           \/ requests' = RemoveAt(requests, i)
        /\ UNCHANGED <<rules, changes, clicks>>
    BY DEF WriteArrives
  <1>2. routingPanel \in Components
    BY DEF RoutingTypeOK, Components
  <1>3. PICK form \in BOOLEAN : routingPanel' = [routingPanel EXCEPT !.showForm = form]
    BY <1>2 DEF WriteArrives, Components
  <1>4. routingPanel' \in Components /\ routingPanel'.mounted = routingPanel.mounted
    BY <1>2, <1>3 DEF Components
  <1>5. requests' \in Seq(Request) /\ Len(requests') <= MaxRequests /\ routingPanel.mounted
    <2> DEFINE fewer == RemoveAt(requests, i)
    <2>1. /\ fewer \in Seq(Request) /\ Len(fewer) = Len(requests) - 1 /\ routingPanel.mounted
          /\ Len(requests) \in Nat /\ Len(requests) <= MaxRequests /\ MaxRequests \in Nat
      BY RequestsEdits
    <2>2. fetchRules \in Request
      BY DEF fetchRules, Request
    <2>3. requests' = Append(fewer, fetchRules) \/ requests' = fewer
      BY <1>1
    <2> HIDE DEF fewer
    <2>4. Append(fewer, fetchRules) \in Seq(Request)
          /\ Len(Append(fewer, fetchRules)) = Len(fewer) + 1
      BY <2>1, <2>2, AppendProperties
    <2> QED
      BY <2>1, <2>3, <2>4
  <1> QED
    BY <1>1, <1>4, <1>5 DEF RoutingTypeOK, Components

LEMMA RoutingClickStep ==
    ASSUME RoutingTypeOK,
           PollRules \/ ToggleForm \/ createRule
             \/ \E id \in DOMAIN routingPanel.rules : toggleRule(id) \/ deleteRule(id)
    PROVE  /\ RoutingTypeOK' /\ routingPanel'.mounted = routingPanel.mounted
           /\ rules' = rules
  <1>1. routingPanel \in Components /\ clicks \in Nat
    BY RoutingPanelAssumption DEF RoutingTypeOK, Components
  <1>2. ASSUME NEW r \in Request, Click(r), routingPanel.mounted, UNCHANGED routingPanel
        PROVE  /\ RoutingTypeOK' /\ routingPanel'.mounted = routingPanel.mounted
               /\ rules' = rules
    <2>1. /\ Send(r) /\ clicks < MaxClicks /\ clicks' = clicks + 1
          /\ UNCHANGED <<rules, changes>>
      BY <1>2 DEF Click, Send
    <2>2. clicks' \in 0 .. MaxClicks
      BY <1>1, <2>1, RoutingPanelAssumption
    <2> QED
      BY <1>2, <2>1, <2>2, SendType DEF RoutingTypeOK
  <1>3. CASE PollRules
    <2>1. fetchRules \in Request
      BY DEF fetchRules, Request
    <2>2. /\ Send(fetchRules) /\ routingPanel.mounted
          /\ UNCHANGED <<rules, changes, clicks, routingPanel>>
      BY <1>3 DEF PollRules, Send
    <2> QED
      BY <2>1, <2>2, SendType DEF RoutingTypeOK
  <1>4. CASE ToggleForm
    <2>1. /\ routingPanel' = [routingPanel EXCEPT !.showForm = ~routingPanel.showForm]
          /\ routingPanel.mounted /\ UNCHANGED <<rules, changes, clicks, requests>>
      BY <1>4 DEF ToggleForm
    <2>2. routingPanel' \in Components /\ routingPanel'.mounted
      BY <1>1, <2>1 DEF Components
    <2> QED
      BY <2>1, <2>2 DEF RoutingTypeOK, Components
  <1>5. CASE createRule
    <2>1. PICK id \in RuleIds, active \in BOOLEAN :
            Click([state |-> "asked", method |-> "POST", id |-> id, active |-> active])
      BY <1>5 DEF createRule
    <2>2. [state |-> "asked", method |-> "POST", id |-> id, active |-> active] \in Request
      BY DEF Request, Write
    <2> QED
      BY <1>2, <1>5, <2>1, <2>2 DEF createRule
  <1>6. ASSUME NEW id \in DOMAIN routingPanel.rules, toggleRule(id) \/ deleteRule(id)
        PROVE  /\ RoutingTypeOK' /\ routingPanel'.mounted = routingPanel.mounted
               /\ rules' = rules
    <2>1. PICK ids \in SUBSET RuleIds : routingPanel.rules \in [ids -> BOOLEAN]
      BY <1>1, TableIs DEF Components
    <2>2. id \in RuleIds
      BY <2>1
    <2>3. [state |-> "asked", method |-> "DELETE", id |-> id] \in Request
      BY <2>2 DEF Request, Write
    <2>4. (~routingPanel.rules[id]) \in BOOLEAN
      OBVIOUS
    <2>5. [state |-> "asked", method |-> "PUT", id |-> id,
           active |-> ~routingPanel.rules[id]] \in Request
      BY <2>2, <2>4 DEF Request, Write
    <2> QED
      BY <1>2, <1>6, <2>3, <2>5 DEF toggleRule, deleteRule
  <1> QED
    BY <1>3, <1>4, <1>5, <1>6

LEMMA OtherClientStep ==
    ASSUME RoutingTypeOK, OtherClientWrites
    PROVE  RoutingTypeOK' /\ routingPanel' = routingPanel
  <1>1. /\ changes < MaxChanges /\ changes' = changes + 1
        /\ UNCHANGED <<clicks, routingPanel, requests>>
    BY DEF OtherClientWrites
  <1>2. rules' \in Tables
    <2>1. PICK w \in Write : rules' = Written(w)
      BY DEF OtherClientWrites
    <2> QED
      BY <2>1, WrittenIsTable DEF RoutingTypeOK
  <1>3. changes' \in 0 .. MaxChanges
    BY <1>1, RoutingPanelAssumption DEF RoutingTypeOK
  <1> QED
    BY <1>1, <1>2, <1>3 DEF RoutingTypeOK

LEMMA RoutingUnmountedIs ==
    RoutingUnmounted \in Components /\ ~RoutingUnmounted.mounted
  <1>1. NoRules \in [{} -> BOOLEAN] /\ NoRules \in Tables
    <2>1. NoRules \in [{} -> BOOLEAN]
      BY DEF NoRules
    <2> QED
      BY <2>1, TableIs
  <1> QED
    BY <1>1 DEF RoutingUnmounted, Components

LEMMA RoutingMountStep ==
    ASSUME RoutingTypeOK, RoutingMount \/ RoutingUnmount
    PROVE  RoutingTypeOK'
  <1>1. UNCHANGED <<rules, changes>> /\ clicks' = 0
    BY DEF RoutingMount, RoutingUnmount
  <1>2. CASE RoutingMount
    <2>1. routingPanel' \in Components /\ routingPanel'.mounted
      BY <1>2, RoutingUnmountedIs DEF RoutingMount, Components
    <2>2. fetchRules \in Request
      BY DEF fetchRules, Request
    <2>3. requests' \in Seq(Request) /\ Len(requests') = 1
      BY <1>2, <2>2 DEF RoutingMount
    <2> QED
      BY <1>1, <2>1, <2>3, RoutingPanelAssumption DEF RoutingTypeOK, Components
  <1>3. CASE RoutingUnmount
    <2>1. routingPanel' \in Components /\ requests' = <<>>
      BY <1>3, RoutingUnmountedIs DEF RoutingUnmount
    <2>2. requests' \in Seq(Request) /\ Len(requests') = 0
      BY <2>1, EmptySeq
    <2> QED
      BY <1>1, <2>1, <2>2, RoutingPanelAssumption DEF RoutingTypeOK, Components
  <1> QED
    BY <1>2, <1>3

-----------------------------------------------------------------------------
(* The whole dashboard: what is mounted is what the route shows.            *)

Mounted ==
    /\ route \in Routes \cup {Blank}
    /\ faults \in 0 .. MaxFaults
    /\ alertsPage.mounted <=> route = "/alerts"
    /\ panel.mounted <=> route = "/"
    /\ routingPanel.mounted <=> route = "/routing"

DashboardInv == AlertsInv /\ PanelInv /\ RoutingTypeOK /\ Mounted

(* Mounting and unmounting do so.                                           *)
LEMMA MountEffect ==
    /\ AlertsMount => alertsPage'.mounted
    /\ AlertsUnmount => ~alertsPage'.mounted
    /\ PanelMount => panel'.mounted
    /\ PanelUnmount => ~panel'.mounted
    /\ RoutingMount => routingPanel'.mounted
    /\ RoutingUnmount => ~routingPanel'.mounted
  <1>1. /\ AlertsMount => alertsPage'.mounted = TRUE
        /\ AlertsUnmount => alertsPage'.mounted = FALSE
    BY UnmountedType DEF AlertsMount, AlertsUnmount, LoadFirst, FirstPage
  <1>2. /\ PanelMount => panel'.mounted = TRUE
        /\ PanelUnmount => panel'.mounted = FALSE
    BY PanelUnmountedIs DEF PanelMount, PanelUnmount, Panels
  <1>3. /\ RoutingMount => routingPanel'.mounted = TRUE
        /\ RoutingUnmount => routingPanel'.mounted = FALSE
    BY DEF RoutingMount, RoutingUnmount, RoutingUnmounted
  <1> QED
    BY <1>1, <1>2, <1>3

LEMMA GoToStep ==
    ASSUME DashboardInv, NEW to \in Routes \cup {Blank}, to # route \/ to = Blank, GoTo(to)
    PROVE  DashboardInv'
  <1>1. /\ route' = to /\ UNCHANGED faults
        /\ Switch("/", to, PanelMount, PanelUnmount, UNCHANGED panelVars)
        /\ Switch("/alerts", to, AlertsMount, AlertsUnmount, UNCHANGED alertsVars)
        /\ Switch("/routing", to, RoutingMount, RoutingUnmount, UNCHANGED routingVars)
    BY DEF GoTo, NoFault
  <1>2. AlertsInv'
    <2>1. AlertsMount \/ AlertsUnmount \/ UNCHANGED alertsVars
      BY <1>1 DEF Switch
    <2> QED
      BY <2>1, PageSteps DEF DashboardInv, AlertsInv, alertsVars
  <1>3. PanelInv'
    <2>1. PanelMount \/ PanelUnmount \/ UNCHANGED panelVars
      BY <1>1 DEF Switch
    <2> QED
      BY <2>1, PanelMountStep, QuietPanelStep DEF DashboardInv, PanelInv, PanelTyped, panelVars
  <1>4. RoutingTypeOK'
    <2>1. RoutingMount \/ RoutingUnmount \/ UNCHANGED routingVars
      BY <1>1 DEF Switch
    <2> QED
      BY <2>1, RoutingMountStep DEF DashboardInv, RoutingTypeOK, routingVars
  <1>5. Mounted'
    <2>1. route' \in Routes \cup {Blank} /\ faults' \in 0 .. MaxFaults
      BY <1>1 DEF DashboardInv, Mounted
    <2>2. panel'.mounted <=> to = "/"
      <3>1. \/ to = "/" /\ PanelMount
            \/ to # "/" /\ PanelUnmount
            \/ to # "/" /\ route # "/" /\ panel' = panel
        BY <1>1 DEF Switch, panelVars, Blank, Routes
      <3> QED
        BY <3>1, MountEffect DEF DashboardInv, Mounted
    <2>3. alertsPage'.mounted <=> to = "/alerts"
      <3>1. \/ to = "/alerts" /\ AlertsMount
            \/ to # "/alerts" /\ AlertsUnmount
            \/ to # "/alerts" /\ route # "/alerts" /\ alertsPage' = alertsPage
        BY <1>1 DEF Switch, alertsVars, Blank, Routes
      <3> QED
        BY <3>1, MountEffect DEF DashboardInv, Mounted
    <2>4. routingPanel'.mounted <=> to = "/routing"
      <3>1. \/ to = "/routing" /\ RoutingMount
            \/ to # "/routing" /\ RoutingUnmount
            \/ to # "/routing" /\ route # "/routing" /\ routingPanel' = routingPanel
        BY <1>1 DEF Switch, routingVars, Blank, Routes
      <3> QED
        BY <3>1, MountEffect DEF DashboardInv, Mounted
    <2> QED
      BY <1>1, <2>1, <2>2, <2>3, <2>4 DEF Mounted
  <1> QED
    BY <1>2, <1>3, <1>4, <1>5 DEF DashboardInv

(* Nothing else mounts or unmounts a component.                             *)
LEMMA AlertsKeepMounted ==
    ASSUME AlertsInv,
           create_alert \/ loadAlerts \/ ClickPager
             \/ \E i \in DOMAIN polls : ServeAlerts(i) \/ RefuseAlerts(i) \/ AlertsArrive(i)
    PROVE  alertsPage'.mounted = alertsPage.mounted
  <1>1. alertsPage \in FirstPage
    BY DEF AlertsInv
  <1>2. CASE create_alert \/ loadAlerts
    BY <1>1, <1>2 DEF create_alert, loadAlerts, FirstPage
  <1>3. CASE ClickPager
    BY <1>1, <1>3 DEF ClickPager, LoadFirst, FirstPage
  <1>4. ASSUME NEW i \in DOMAIN polls, ServeAlerts(i) \/ RefuseAlerts(i) \/ AlertsArrive(i)
        PROVE  alertsPage'.mounted = alertsPage.mounted
    BY <1>1, <1>4 DEF ServeAlerts, RefuseAlerts, AlertsArrive, FirstPage
  <1> QED
    BY <1>2, <1>3, <1>4

LEMMA PanelKeepsMounted ==
    ASSUME PanelInv,
           SavePrediction \/ PublishPrediction \/ Subscribe \/ ServePredictions
             \/ RefusePredictions \/ PredictionsFail \/ onclosePanel \/ PredictionsArrive
             \/ ErrorArrives \/ onopenPanel \/ onmessagePanel
    PROVE  panel'.mounted = panel.mounted
  <1>1. panel \in Panels(Saved)
    BY DEF PanelInv, PanelTyped
  <1> QED
    BY <1>1 DEF Panels, SavePrediction, PublishPrediction, Subscribe, ServePredictions,
       RefusePredictions, PredictionsFail, onclosePanel, PredictionsArrive, ErrorArrives,
       onopenPanel, onmessagePanel

LEMMA FaultType ==
    ASSUME faults \in 0 .. MaxFaults, Fault \/ NoFault
    PROVE  faults' \in 0 .. MaxFaults
  BY DashboardAssumption DEF Fault, NoFault

LEMMA AlertsRouteStep ==
    ASSUME DashboardInv,
           AlertCreated \/ AlertsTimer \/ AlertsServed \/ AlertsRefused \/ AlertsAnswered
             \/ PagerClicked
    PROVE  DashboardInv'
  <1>1. /\ Fault \/ NoFault
        /\ UNCHANGED AlertsLeaves
        /\ \/ create_alert \/ loadAlerts \/ ClickPager
           \/ \E i \in DOMAIN polls : ServeAlerts(i) \/ RefuseAlerts(i) \/ AlertsArrive(i)
    BY DEF AlertCreated, AlertsTimer, AlertsServed, AlertsRefused, AlertsAnswered, PagerClicked,
           AlertsSteps
  <1>2. UNCHANGED <<route, panelVars, routingVars>>
    BY <1>1 DEF AlertsLeaves
  <1>3. AlertsInv' /\ alertsPage'.mounted = alertsPage.mounted
    BY <1>1, PageSteps, AlertsKeepMounted DEF DashboardInv
  <1>4. PanelInv'
    BY <1>2, QuietPanelStep DEF DashboardInv, PanelInv, PanelTyped, panelVars
  <1>5. RoutingTypeOK'
    BY <1>2 DEF DashboardInv, RoutingTypeOK, routingVars
  <1>6. Mounted'
    BY <1>1, <1>2, <1>3, FaultType DEF DashboardInv, Mounted, panelVars, routingVars
  <1> QED
    BY <1>3, <1>4, <1>5, <1>6 DEF DashboardInv

LEMMA PanelRouteStep ==
    ASSUME DashboardInv,
           PredictionSaved \/ PredictionPublished \/ PanelServed \/ PanelRefused
             \/ PanelAnswered \/ PanelHears
    PROVE  DashboardInv'
  <1>1. /\ Fault \/ NoFault
        /\ UNCHANGED PanelLeaves
        /\ ~Broken
        /\ SavePrediction \/ PublishPrediction \/ Subscribe \/ ServePredictions
             \/ RefusePredictions \/ PredictionsFail \/ onclosePanel \/ PredictionsArrive
             \/ ErrorArrives \/ onopenPanel \/ onmessagePanel
    BY DEF PredictionSaved, PredictionPublished, PanelServed, PanelRefused, PanelAnswered,
           PanelHears, PanelSteps
  <1>2. UNCHANGED <<route, alertsVars, routingVars>>
    BY <1>1 DEF PanelLeaves
  <1>3. PanelInv' /\ panel'.mounted = panel.mounted
    BY <1>1, PanelStep, PanelKeepsMounted DEF DashboardInv, Broken
  <1>4. AlertsInv'
    BY <1>2 DEF DashboardInv, AlertsInv, alertsVars
  <1>5. RoutingTypeOK'
    BY <1>2 DEF DashboardInv, RoutingTypeOK, routingVars
  <1>6. Mounted'
    BY <1>1, <1>2, <1>3, FaultType DEF DashboardInv, Mounted, alertsVars, routingVars
  <1> QED
    BY <1>3, <1>4, <1>5, <1>6 DEF DashboardInv

LEMMA RoutingRouteStep ==
    ASSUME DashboardInv,
           RulesChanged \/ RoutingTimer \/ RoutingServed \/ RoutingRefused \/ RoutingAnswered
             \/ RoutingClicked
    PROVE  DashboardInv'
  <1>1. /\ Fault \/ NoFault
        /\ UNCHANGED RoutingLeaves
        /\ \/ OtherClientWrites
           \/ PollRules \/ ToggleForm \/ createRule
           \/ \E id \in DOMAIN routingPanel.rules : toggleRule(id) \/ deleteRule(id)
           \/ \E i \in DOMAIN requests :
                ServeRouting(i) \/ RefuseRouting(i) \/ RulesArrive(i) \/ WriteArrives(i)
    BY DEF RulesChanged, RoutingTimer, RoutingServed, RoutingRefused, RoutingAnswered,
           RoutingClicked, RoutingSteps
  <1>2. UNCHANGED <<route, alertsVars, panelVars>>
    BY <1>1 DEF RoutingLeaves
  <1>3. RoutingTypeOK
    BY DEF DashboardInv
  <1>4. RoutingTypeOK' /\ routingPanel'.mounted = routingPanel.mounted
    BY <1>1, <1>3, OtherClientStep, RoutingClickStep, ServeRoutingStep, RefuseRoutingStep,
       RulesArriveStep, WriteArrivesStep
  <1>5. AlertsInv'
    BY <1>2 DEF DashboardInv, AlertsInv, alertsVars
  <1>6. PanelInv'
    BY <1>2, QuietPanelStep DEF DashboardInv, PanelInv, PanelTyped, panelVars
  <1>7. Mounted'
    BY <1>1, <1>2, <1>4, FaultType DEF DashboardInv, Mounted, alertsVars, panelVars
  <1> QED
    BY <1>4, <1>5, <1>6, <1>7 DEF DashboardInv

LEMMA StepPreserves == DashboardInv /\ [Next]_vars => DashboardInv'
  <1> SUFFICES ASSUME DashboardInv, [Next]_vars PROVE DashboardInv'
    OBVIOUS
  <1>1. CASE Navigate \/ Render
    BY <1>1, GoToStep DEF Navigate, Render
  <1>2. CASE UNCHANGED vars
    <2>1. AlertsInv'
      BY <1>2 DEF DashboardInv, AlertsInv, vars, alertsVars
    <2>2. PanelInv'
      BY <1>2, QuietPanelStep DEF DashboardInv, PanelInv, PanelTyped, vars, panelVars
    <2>3. RoutingTypeOK'
      BY <1>2 DEF DashboardInv, RoutingTypeOK, vars, routingVars
    <2>4. Mounted'
      BY <1>2 DEF DashboardInv, Mounted, vars, alertsVars, panelVars, routingVars
    <2> QED
      BY <2>1, <2>2, <2>3, <2>4 DEF DashboardInv
  <1> QED
    BY <1>1, <1>2, AlertsRouteStep, PanelRouteStep, RoutingRouteStep DEF Next

LEMMA InitEstablishes == Init => DashboardInv
  <1> SUFFICES ASSUME Init PROVE DashboardInv
    OBVIOUS
  <1>1. AlertsInv
    BY AlertsEstablished
  <1>2. /\ predictions = <<>> /\ unpublished = NoPrediction /\ panel = PanelUnmounted
        /\ unheard = {} /\ removed = {}
    BY DEF Init, PanelInit
  <1>3. PanelInv
    <2>1. /\ panel \in Panels(Saved) /\ panel.history = <<>> /\ ~panel.mounted
      BY <1>2, PanelUnmountedIs
    <2>2. predictions \in Seq(Models) /\ Len(predictions) = 0 /\ Len(panel.history) = 0
      BY <1>2, <2>1, EmptySeq
    <2>3. PanelTyped
      BY <1>2, <2>1, <2>2, PanelAssumption DEF PanelTyped
    <2> QED
      BY <2>1, <2>3, NothingShown DEF PanelInv, GapsHaveTheirCause, GaugesShowFirst
  <1>4. RoutingTypeOK
    <2>1. rules \in {NoRules, [id \in RuleIds |-> TRUE]} /\ changes = 0 /\ clicks = 0
          /\ routingPanel = RoutingUnmounted /\ requests = <<>>
      BY DEF Init, RoutingInit
    <2>2. rules \in Tables
      <3>1. [id \in RuleIds |-> TRUE] \in [RuleIds -> BOOLEAN] /\ NoRules \in [{} -> BOOLEAN]
        BY DEF NoRules
      <3> QED
        BY <2>1, <3>1, TableIs
    <2>3. requests \in Seq(Request) /\ Len(requests) = 0
      BY <2>1, EmptySeq
    <2>4. routingPanel \in Components
      BY <2>1, RoutingUnmountedIs
    <2> QED
      BY <2>1, <2>2, <2>3, <2>4, RoutingPanelAssumption DEF RoutingTypeOK, Components
  <1>5. Mounted
    <2>1. ~alertsPage.mounted /\ ~panel.mounted /\ ~routingPanel.mounted
      BY <1>2, UnmountedType, PanelUnmountedIs, RoutingUnmountedIs
         DEF Init, AlertsInit, RoutingInit
    <2> QED
      BY <2>1, DashboardAssumption DEF Mounted, Init, Routes
  <1> QED
    BY <1>1, <1>3, <1>4, <1>5 DEF DashboardInv

-----------------------------------------------------------------------------
(* What takes the application down.                                         *)

(* A panel that is not mounted holds nothing, and one that holds no list,   *)
(* or is about to, was refused it.                                          *)
BlankInv ==
    /\ ~panel.mounted => panel = PanelUnmounted
    /\ panel.get.state = "refused" \/ panel.history = NotAList => faults > 0

(* An unmounted panel has nothing under way.                                *)
LEMMA NothingUnderWay ==
    /\ PanelUnmounted.history = <<>> /\ PanelUnmounted.history # NotAList
    /\ PanelUnmounted.get.state = "done"
    /\ PanelUnmounted.socket = "closed" /\ PanelUnmounted.subscribed = FALSE
  <1>1. NotAList # <<>>
    BY PanelAssumption, EmptySeq
  <1> QED
    BY <1>1 DEF PanelUnmounted

(* A list is not taken for none.                                            *)
LEMMA ListIsOne ==
    ASSUME NEW list \in Seq(Saved), predictions \in Seq(Models)
    PROVE  list # NotAList
  <1>1. Saved \subseteq Nat
    BY SavedIs DEF Saved
  <1> QED
    BY <1>1, PanelAssumption, SeqMonotonic

LEMMA BlankStep ==
    ASSUME DashboardInv, BlankInv, [Next]_vars
    PROVE  BlankInv'
  <1>1. panel \in Panels(Saved) /\ faults \in Nat /\ panel.mounted \in BOOLEAN
    BY DashboardAssumption DEF DashboardInv, PanelInv, PanelTyped, Panels, Mounted
  <1>2. ASSUME UNCHANGED panel, faults' = faults \/ Fault
        PROVE  BlankInv'
    BY <1>1, <1>2 DEF BlankInv, Fault
  <1>3. CASE Navigate \/ Render
    <2>1. PICK to : GoTo(to)
      BY <1>3 DEF Navigate, Render
    <2>2. PanelMount \/ PanelUnmount \/ UNCHANGED panelVars
      BY <2>1 DEF GoTo, Switch
    <2>3. faults' = faults
      BY <2>1 DEF GoTo, NoFault
    <2>4. CASE PanelMount
      <3>1. panel'.mounted = TRUE /\ panel'.get = [state |-> "asked"] /\ panel'.history = <<>>
        BY <2>4, PanelUnmountedIs DEF PanelMount, Panels
      <3>2. panel'.history # NotAList
        BY <3>1, NothingUnderWay
      <3> QED
        BY <3>1, <3>2 DEF BlankInv
    <2>5. CASE PanelUnmount
      BY <2>5, NothingUnderWay DEF PanelUnmount, BlankInv
    <2> QED
      BY <1>2, <2>2, <2>3, <2>4, <2>5 DEF panelVars
  <1>4. CASE \/ AlertCreated \/ AlertsTimer \/ AlertsServed \/ AlertsRefused
             \/ AlertsAnswered \/ PagerClicked
    BY <1>2, <1>4 DEF AlertCreated, AlertsTimer, AlertsServed, AlertsRefused, AlertsAnswered,
                      PagerClicked, AlertsSteps, AlertsLeaves, panelVars, NoFault
  <1>5. CASE \/ RulesChanged \/ RoutingTimer \/ RoutingServed \/ RoutingRefused
             \/ RoutingAnswered \/ RoutingClicked
    BY <1>2, <1>5 DEF RulesChanged, RoutingTimer, RoutingServed, RoutingRefused,
                      RoutingAnswered, RoutingClicked, RoutingSteps, RoutingLeaves,
                      panelVars, NoFault
  <1>6. predictions \in Seq(Models)
    BY DEF DashboardInv, PanelInv, PanelTyped
  (* A step of a mounted panel that is neither refused nor answered so.     *)
  <1>7. ASSUME panel.mounted, panel'.mounted = panel.mounted,
               faults' = faults \/ faults' = faults + 1,
               panel'.get.state = "refused" \/ panel'.history = NotAList =>
                 faults' = faults + 1 \/ panel.get.state = "refused"
                   \/ panel.history = NotAList
        PROVE  BlankInv'
    BY <1>1, <1>7 DEF BlankInv
  <1>8. ASSUME ~panel.mounted
        PROVE  /\ panel.get.state = "done" /\ panel.socket = "closed" /\ ~panel.subscribed
    BY <1>8, NothingUnderWay DEF BlankInv
  <1>9. CASE PredictionSaved
    BY <1>2, <1>9 DEF PredictionSaved, PanelSteps, SavePrediction, NoFault
  <1>10. CASE PredictionPublished
    <2>1. PublishPrediction /\ faults' = faults
      BY <1>10 DEF PredictionPublished, PanelSteps, NoFault
    <2>2. CASE panel' = panel
      BY <1>2, <2>1, <2>2
    <2>3. CASE panel' # panel
      <3>1. panel.subscribed /\ panel' = [panel EXCEPT !.inbox = Append(@, unpublished)]
        BY <2>1, <2>3 DEF PublishPrediction
      <3>2. /\ panel'.mounted = panel.mounted /\ panel'.get = panel.get
            /\ panel'.history = panel.history
        BY <1>1, <3>1 DEF Panels
      <3> QED
        BY <1>7, <1>8, <2>1, <3>1, <3>2
    <2> QED
      BY <2>2, <2>3
  <1>11. CASE PanelServed
    <2>1. (Subscribe \/ ServePredictions) /\ faults' = faults
      BY <1>11 DEF PanelServed, PanelSteps, NoFault
    <2>2. panel.mounted
      BY <1>8, <2>1 DEF Subscribe, ServePredictions
    <2>3. /\ panel'.mounted = panel.mounted /\ panel'.history = panel.history
          /\ panel'.get.state = "answered" \/ panel'.get = panel.get
      BY <1>1, <2>1 DEF Subscribe, ServePredictions, Panels
    <2> QED
      BY <1>7, <2>1, <2>2, <2>3
  <1>12. CASE PanelRefused
    <2>1. (RefusePredictions \/ PredictionsFail \/ onclosePanel) /\ faults' = faults + 1
      BY <1>12 DEF PanelRefused, PanelSteps, Fault
    <2>2. panel.mounted
      BY <1>8, <2>1 DEF RefusePredictions, PredictionsFail, onclosePanel
    <2>3. panel'.mounted = panel.mounted
      BY <1>1, <2>1 DEF RefusePredictions, PredictionsFail, onclosePanel, Panels
    <2> QED
      BY <1>7, <2>1, <2>2, <2>3
  <1>13. CASE PanelAnswered
    <2>1. (PredictionsArrive \/ ErrorArrives) /\ faults' = faults
      BY <1>13 DEF PanelAnswered, PanelSteps, NoFault
    <2>2. panel.mounted
      BY <1>8, <2>1 DEF PredictionsArrive, ErrorArrives
    <2>3. CASE ErrorArrives
      <3>1. panel'.mounted = panel.mounted /\ panel.get.state = "refused"
        BY <1>1, <2>3 DEF ErrorArrives, Panels
      <3> QED
        BY <1>7, <2>1, <2>2, <3>1
    <2>4. CASE PredictionsArrive
      <3>1. /\ panel'.mounted = panel.mounted /\ panel'.get.state = "done"
            /\ panel.get.state = "answered" /\ panel'.history = panel.get.list
        BY <1>1, <2>4 DEF PredictionsArrive, Panels
      <3>2. panel.get.list \in Seq(Saved)
        BY <1>1, <3>1 DEF Panels, Answers
      <3>3. panel'.history # NotAList
        BY <3>1, <3>2, <1>6, ListIsOne
      <3> QED
        BY <1>7, <2>1, <2>2, <3>1, <3>3
    <2> QED
      BY <2>1, <2>3, <2>4
  <1>14. CASE PanelHears
    <2>1. (onopenPanel \/ onmessagePanel) /\ faults' = faults
      BY <1>14 DEF PanelHears, PanelSteps, NoFault
    <2>2. panel.mounted
      BY <1>8, <2>1 DEF onopenPanel, onmessagePanel
    <2>3. panel'.mounted = panel.mounted /\ panel'.get = panel.get
      BY <1>1, <2>1 DEF onopenPanel, onmessagePanel, Panels
    <2>4. panel'.history = NotAList => panel.history = NotAList
      <3>1. CASE onopenPanel
        BY <1>1, <3>1 DEF onopenPanel, Panels
      <3>2. CASE onmessagePanel /\ panel.history # NotAList
        <4>1. /\ panel.inbox \in Seq(Saved) /\ panel.inbox # <<>>
              /\ panel.history \in Seq(Saved) /\ Len(panel.history) <= Cap
          BY <1>1, <3>2 DEF onmessagePanel, DashboardInv, PanelInv, PanelTyped, Panels
        <4>2. Head(panel.inbox) \in Saved
          BY <4>1, HeadTailProperties
        <4>3. InFront(Head(panel.inbox), panel.history) \in Seq(Saved)
          BY <4>1, <4>2, InFrontIs
        <4>4. panel'.history = InFront(Head(panel.inbox), panel.history)
          BY <1>1, <3>2 DEF onmessagePanel, Panels
        <4> QED
          BY <1>6, <4>3, <4>4, ListIsOne
      <3> QED
        BY <2>1, <3>1, <3>2
    <2> QED
      BY <1>7, <2>1, <2>2, <2>3, <2>4
  <1>15. CASE UNCHANGED vars
    BY <1>2, <1>15 DEF vars, panelVars
  <1> QED
    BY <1>3, <1>4, <1>5, <1>9, <1>10, <1>11, <1>12, <1>13, <1>14, <1>15 DEF Next

-----------------------------------------------------------------------------
(* The theorems.                                                            *)

(* DashboardInv holds in every reachable state.                             *)
THEOREM Invariant == Spec => []DashboardInv
  BY InitEstablishes, StepPreserves, PTL DEF Spec

(* The claim FullHistoryOffered is false whenever there is something to it: *)
(* however many requests overlap and whatever fails, a table that is longer *)
(* than a page has alerts that no page offers (Alerts.jsx:41: the total is  *)
(* what was skipped and what the answer holds, so that the present page is  *)
(* always the last).                                                        *)
THEOREM OlderAlertsUnreachable ==
    Spec => [](NewestShown /\ created > PageSize => ~FullHistoryOffered)
  <1>1. DashboardInv => (NewestShown /\ created > PageSize => ~FullHistoryOffered)
    <2> SUFFICES ASSUME DashboardInv, NewestShown, created > PageSize
                 PROVE  ~(created <= totalPages * PageSize)
      BY DEF FullHistoryOffered
    <2>1. totalPages = 1
      BY OnePage DEF DashboardInv, AlertsInv, FirstPage
    <2>2. created \in Nat
      BY AlertsAssumption DEF DashboardInv, AlertsInv
    <2> QED
      BY <2>1, <2>2, AlertsAssumption
  <1> QED
    BY <1>1, Invariant, PTL

(* The state of every component has its type and is mounted exactly while   *)
(* its route is shown, whatever is navigated to while requests, answers and *)
(* messages are under way.                                                  *)
THEOREM TypeCorrect == Spec => []TypeOK
  <1>1. AlertsInv => AlertsTypeOK
    <2> SUFFICES ASSUME AlertsInv PROVE AlertsTypeOK
      OBVIOUS
    <2>1. FirstPagePoll \subseteq Poll
      BY DEF FirstPagePoll, Poll, Few
    <2>2. polls \in Seq(Poll)
      BY <2>1, SeqMonotonic DEF AlertsInv
    <2>3. alertsPage \in [mounted : BOOLEAN, page : Nat \ {0}, total : Nat,
                          alerts : SUBSET Alerts, loading : BOOLEAN, error : BOOLEAN]
      BY AlertsAssumption DEF AlertsInv, FirstPage, Few
    <2> QED
      BY <2>2, <2>3 DEF AlertsInv, AlertsTypeOK
  <1>2. PanelTyped => PanelTypeOK
    <2> SUFFICES ASSUME PanelTyped PROVE PanelTypeOK
      OBVIOUS
    <2>1. Saved \subseteq Ids
      BY SavedIs, PanelAssumption DEF PanelTyped, Saved, Ids
    <2>2. panel \in Panels(Ids)
      BY <2>1, PanelMonotonic DEF PanelTyped
    <2>3. Answers(Ids) \subseteq Get
      BY DEF Answers, Get
    <2>4. panel \in [mounted : BOOLEAN, history : Seq(Ids) \cup {NotAList},
                     gauge : [Models -> Ids \cup {NoPrediction}], get : Get,
                     socket : SocketStates, subscribed : BOOLEAN, inbox : Seq(Ids)]
      BY <2>2, <2>3 DEF Panels
    <2> QED
      BY <2>4 DEF PanelTyped, PanelTypeOK
  <1>3. DashboardInv => TypeOK
    BY <1>1, <1>2 DEF DashboardInv, PanelInv, Mounted, TypeOK
  <1> QED
    BY <1>3, Invariant, PTL

(* No prediction is missing from the panel's list without its cause, for    *)
(* every length of the list and whatever the order of the answer of the GET,*)
(* the opening of the socket, the subscription and the messages.            *)
THEOREM NoPredictionVanishes == Spec => []GapsHaveTheirCause
  <1>1. DashboardInv => GapsHaveTheirCause
    BY DEF DashboardInv, PanelInv
  <1> QED
    BY <1>1, Invariant, PTL

(* List and gauges agree, although the answer of the GET and the messages   *)
(* set them separately and either may be the older.                         *)
THEOREM GaugesAgreeWithList == Spec => []GaugesMatchHistory
  <1>1. DashboardInv => GaugesMatchHistory
    <2> SUFFICES ASSUME DashboardInv, panel.history # NotAList PROVE GaugesMatchHistory
      BY DEF GaugesMatchHistory
    <2>1. panel.history \in Seq(Saved) /\ GaugesShow(predictions, panel.gauge, panel.history)
      BY DEF DashboardInv, PanelInv, PanelTyped, Panels, GaugesShowFirst
    <2>2. \A m \in Models :
            FirstOf(panel.history, m) # 0 =>
              panel.gauge[m] = panel.history[FirstOf(panel.history, m)]
      BY <2>1, GaugesAreFirst
    <2> QED
      BY <2>2 DEF GaugesMatchHistory
  <1> QED
    BY <1>1, Invariant, PTL
(* The application goes blank only on the home route and only after a       *)
(* refusal: a list of rules is always one, and a panel that is not mounted  *)
(* has none to spoil.                                                       *)
THEOREM OnlyRefusalsBlank == Spec => BlankNeedsRefusal
  <1>1. Init => BlankInv
    BY NothingUnderWay DEF Init, PanelInit, BlankInv
  <1>2. DashboardInv /\ BlankInv /\ [Next]_vars => BlankInv'
    BY BlankStep
  <1>3. DashboardInv /\ BlankInv /\ [Next]_vars =>
          [route # Blank /\ route' = Blank => route = "/" /\ faults > 0]_vars
    <2> SUFFICES ASSUME DashboardInv, BlankInv, Next, route # Blank, route' = Blank
                 PROVE  route = "/" /\ faults > 0
      OBVIOUS
    <2>1. Broken
      <3>1. Navigate => route' \in Routes
        BY DEF Navigate, GoTo
      <3>2. ~Navigate
        BY <3>1 DEF Routes, Blank
      <3>3. Render
        BY <3>2 DEF Next, AlertCreated, AlertsTimer, AlertsServed, AlertsRefused,
           AlertsAnswered, PagerClicked, AlertsSteps, AlertsLeaves,
           PredictionSaved, PredictionPublished, PanelServed, PanelRefused, PanelAnswered,
           PanelHears, PanelSteps, PanelLeaves,
           RulesChanged, RoutingTimer, RoutingServed, RoutingRefused, RoutingAnswered,
           RoutingClicked, RoutingSteps, RoutingLeaves
      <3> QED
        BY <3>3 DEF Render
    <2>2. routingPanel.rules # ErrorObject
      BY ErrorAssumption DEF DashboardInv, RoutingTypeOK
    <2>3. panel.history = NotAList
      BY <2>1, <2>2 DEF Broken
    <2>4. panel.mounted
      BY <2>3, NothingUnderWay DEF BlankInv
    <2> QED
      BY <2>3, <2>4 DEF BlankInv, DashboardInv, Mounted
  <1> QED
    BY <1>1, <1>2, <1>3, Invariant, PTL DEF Spec, BlankNeedsRefusal
=============================================================================
