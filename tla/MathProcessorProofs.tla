------------------------ MODULE MathProcessorProofs ------------------------
(* Theorems about MathProcessor, for every number of callers and closers,    *)
(* every queue limit and every set of speech options.                        *)
EXTENDS MathProcessor, TLAPS, SequenceTheorems

-----------------------------------------------------------------------------
(* Lines of people: L[p] is who waits at place p, first to be served first.  *)

Distinct(L) == \A p, q \in DOMAIN L : \A i \in 1 .. Len(L[p]), k \in 1 .. Len(L[q]) :
                  L[p][i] = L[q][k] => p = q /\ i = k
Stands(L, c) == \E p \in DOMAIN L : \E i \in 1 .. Len(L[p]) : L[p][i] = c

(* Whoever joins the end of a line and stood nowhere stands there.           *)
LEMMA LineJoined ==
  ASSUME NEW P, NEW C, NEW L \in [P -> Seq(C)], NEW p \in P, NEW c \in C,
         Distinct(L), ~Stands(L, c)
  PROVE  LET M == [L EXCEPT ![p] = Append(L[p], c)]
         IN  Distinct(M) /\ \A d : Stands(M, d) <=> Stands(L, d) \/ d = c
<1> DEFINE M == [L EXCEPT ![p] = Append(L[p], c)]
<1>1. /\ \A q \in P : Len(L[q]) \in Nat
      /\ DOMAIN L = P /\ DOMAIN M = P
      /\ M[p] = Append(L[p], c) /\ \A q \in P \ {p} : M[q] = L[q]
  BY LenProperties
<1>2. /\ Len(M[p]) = Len(L[p]) + 1 /\ M[p][Len(L[p]) + 1] = c
      /\ \A i \in 1 .. Len(L[p]) : M[p][i] = L[p][i]
  BY <1>1, AppendProperties
<1> HIDE DEF M
<1>3. Distinct(M)
  <2> SUFFICES ASSUME NEW o \in P, NEW i \in 1 .. Len(M[o]),
                      NEW u \in P, NEW k \in 1 .. Len(M[u]), M[o][i] = M[u][k]
               PROVE  o = u /\ i = k
    BY <1>1 DEF Distinct
  <2>1. ASSUME NEW v \in P, NEW l \in 1 .. Len(M[v])
        PROVE  \/ v = p /\ l = Len(L[p]) + 1 /\ M[v][l] = c
               \/ l \in 1 .. Len(L[v]) /\ M[v][l] = L[v][l] /\ L[v][l] # c
    <3>1. CASE v = p /\ l = Len(L[p]) + 1
      BY <1>2, <3>1
    <3>2. CASE ~(v = p /\ l = Len(L[p]) + 1)
      <4>1. l \in 1 .. Len(L[v]) /\ M[v][l] = L[v][l]
        <5>1. CASE v = p
          <6>1. l \in 1 .. Len(L[p]) + 1 /\ l # Len(L[p]) + 1 /\ Len(L[p]) \in Nat
            BY <1>1, <1>2, <3>2, <5>1
          <6>2. l \in 1 .. Len(L[p])
            BY <6>1
          <6> QED BY <1>2, <5>1, <6>2
        <5>2. CASE v # p
          BY <1>1, <5>2
        <5> QED BY <5>1, <5>2
      <4> QED BY <1>1, <4>1 DEF Stands
    <3> QED BY <3>1, <3>2
  <2> QED BY <1>1, <2>1 DEF Distinct
<1>4. ASSUME NEW d PROVE Stands(M, d) <=> Stands(L, d) \/ d = c
  <2>1. ASSUME Stands(M, d), d # c PROVE Stands(L, d)
    <3>0. PICK q \in P : \E i \in 1 .. Len(M[q]) : M[q][i] = d
      BY <1>1, <2>1 DEF Stands
    <3>1. PICK i \in 1 .. Len(M[q]) : M[q][i] = d
      BY <3>0
    <3>2. i \in 1 .. Len(L[q]) /\ L[q][i] = d
      BY <1>1, <1>2, <2>1, <3>1
    <3> QED BY <1>1, <3>2 DEF Stands
  <2>2. Stands(L, d) => Stands(M, d)
    <3> SUFFICES ASSUME NEW q \in P, NEW i \in 1 .. Len(L[q]), L[q][i] = d
                 PROVE  i \in 1 .. Len(M[q]) /\ M[q][i] = d
      BY <1>1 DEF Stands
    <3> QED BY <1>1, <1>2
  <2>3. Stands(M, c)
    BY <1>1, <1>2 DEF Stands
  <2> QED BY <2>1, <2>2, <2>3
<1> QED BY <1>3, <1>4 DEF M

(* Whoever is first in a line and leaves it stands nowhere.                  *)
LEMMA LineServed ==
  ASSUME NEW P, NEW C, NEW L \in [P -> Seq(C)], NEW p \in P, L[p] # <<>>, Distinct(L)
  PROVE  LET M == [L EXCEPT ![p] = Tail(L[p])]
         IN  Distinct(M) /\ \A d : Stands(M, d) <=> Stands(L, d) /\ d # Head(L[p])
<1> DEFINE M == [L EXCEPT ![p] = Tail(L[p])]
<1>1. /\ \A q \in P : Len(L[q]) \in Nat
      /\ DOMAIN L = P /\ DOMAIN M = P
      /\ M[p] = Tail(L[p]) /\ \A q \in P \ {p} : M[q] = L[q]
  BY LenProperties
<1>2. /\ Len(L[p]) \in Nat \ {0} /\ Head(L[p]) = L[p][1]
      /\ Len(M[p]) = Len(L[p]) - 1
      /\ \A i \in 1 .. Len(M[p]) : M[p][i] = L[p][i + 1]
  BY <1>1, HeadTailProperties, EmptySeq
<1> HIDE DEF M
<1>3. Distinct(M)
  <2> SUFFICES ASSUME NEW o \in P, NEW i \in 1 .. Len(M[o]),
                      NEW u \in P, NEW k \in 1 .. Len(M[u]), M[o][i] = M[u][k]
               PROVE  o = u /\ i = k
    BY <1>1 DEF Distinct
  <2>1. ASSUME NEW v \in P, NEW l \in 1 .. Len(M[v])
        PROVE  LET m == IF v = p THEN l + 1 ELSE l
               IN  m \in 1 .. Len(L[v]) /\ L[v][m] = M[v][l]
    <3>1. CASE v = p
      <4>1. l \in 1 .. Len(L[p]) - 1 /\ Len(L[p]) \in Nat /\ M[p][l] = L[p][l + 1]
        BY <1>2, <3>1
      <4>2. l + 1 \in 1 .. Len(L[p])
        BY <4>1
      <4> QED BY <3>1, <4>1, <4>2
    <3>2. CASE v # p
      BY <1>1, <3>2
    <3> QED BY <3>1, <3>2
  <2> QED BY <1>1, <1>2, <2>1 DEF Distinct
<1>4. ASSUME NEW d PROVE Stands(M, d) <=> Stands(L, d) /\ d # Head(L[p])
  <2>1. ASSUME Stands(M, d) PROVE Stands(L, d) /\ d # Head(L[p])
    <3>0. PICK q \in P : \E i \in 1 .. Len(M[q]) : M[q][i] = d
      BY <1>1, <2>1 DEF Stands
    <3>1. PICK i \in 1 .. Len(M[q]) : M[q][i] = d
      BY <3>0
    <3>2. CASE q = p
      <4>1. i + 1 \in 1 .. Len(L[p]) /\ L[p][i + 1] = d /\ i + 1 # 1
        BY <1>2, <3>1, <3>2
      <4>2. p \in DOMAIN L /\ 1 \in 1 .. Len(L[p]) /\ Head(L[p]) = L[p][1]
        BY <1>1, <1>2
      <4>3. L[p][1] # d
        BY <4>1, <4>2 DEF Distinct
      <4> QED BY <4>1, <4>2, <4>3 DEF Stands
    <3>3. CASE q # p
      BY <1>1, <1>2, <3>1, <3>3 DEF Distinct, Stands
    <3> QED BY <3>2, <3>3
  <2>2. ASSUME Stands(L, d), d # Head(L[p]) PROVE Stands(M, d)
    <3>0. PICK q \in P : \E i \in 1 .. Len(L[q]) : L[q][i] = d
      BY <1>1, <2>2 DEF Stands
    <3>1. PICK i \in 1 .. Len(L[q]) : L[q][i] = d
      BY <3>0
    <3>2. CASE q = p
      <4>1. i - 1 \in 1 .. Len(M[p]) /\ M[p][i - 1] = d
        BY <1>2, <2>2, <3>1, <3>2
      <4> QED BY <1>1, <4>1 DEF Stands
    <3>3. CASE q # p
      BY <1>1, <3>1, <3>3 DEF Stands
    <3> QED BY <3>2, <3>3
  <2> QED BY <2>1, <2>2
<1> QED BY <1>3, <1>4 DEF M

(* A line that moves to an empty place, behind those before another, loses   *)
(* nobody: q's people and then p's all stand in line at r.                   *)
LEMMA LinesMoved ==
  ASSUME NEW P, NEW C, NEW L \in [P -> Seq(C)], NEW q \in P, NEW p \in P, NEW r \in P,
         q # p, r # p, r # q => L[r] = <<>>, Distinct(L)
  PROVE  LET M == [L EXCEPT ![q] = <<>>, ![p] = <<>>, ![r] = L[q] \o L[p]]
         IN  Distinct(M) /\ \A d : Stands(M, d) <=> Stands(L, d)
<1> DEFINE M == [L EXCEPT ![q] = <<>>, ![p] = <<>>, ![r] = L[q] \o L[p]]
<1>1. /\ \A o \in P : Len(L[o]) \in Nat
      /\ DOMAIN L = P /\ DOMAIN M = P
      /\ M[r] = L[q] \o L[p]
      /\ \A o \in P \ {r} : M[o] = IF o \in {p, q} THEN <<>> ELSE L[o]
  BY LenProperties
<1>2. /\ Len(M[r]) = Len(L[q]) + Len(L[p])
      /\ r # q => Len(L[r]) = 0
      /\ \A o \in {p, q} \ {r} : Len(M[o]) = 0
      /\ \A i \in 1 .. Len(M[r]) : M[r][i] = IF i <= Len(L[q]) THEN L[q][i]
                                             ELSE L[p][i - Len(L[q])]
  BY <1>1, ConcatProperties, EmptySeq
<1> HIDE DEF M
<1>3. ASSUME NEW o \in P, NEW i \in 1 .. Len(M[o]), o # r
      PROVE  o \notin {p, q} /\ i \in 1 .. Len(L[o]) /\ M[o][i] = L[o][i]
  <2>1. o \notin {p, q}
    BY <1>2, <1>3
  <2> QED BY <1>1, <1>3, <2>1
<1>4. ASSUME NEW i \in 1 .. Len(M[r])
      PROVE  \/ i \in 1 .. Len(L[q]) /\ M[r][i] = L[q][i]
             \/ /\ i > Len(L[q]) /\ i - Len(L[q]) \in 1 .. Len(L[p])
                /\ M[r][i] = L[p][i - Len(L[q])]
  <2> HIDE <1>1, <1>2
  <2> DEFINE a == Len(L[q])
             b == Len(L[p])
             x == M[r][i]
  <2>1. /\ a \in Nat /\ b \in Nat /\ i \in 1 .. a + b
        /\ x = IF i <= a THEN L[q][i] ELSE L[p][i - a]
    BY <1>1, <1>2
  <2> HIDE DEF a, b, x
  <2>2. \/ i \in 1 .. a /\ x = L[q][i]
        \/ i > a /\ i - a \in 1 .. b /\ x = L[p][i - a]
    BY <2>1
  <2> QED BY <2>2 DEF a, b, x
<1>5. ASSUME NEW o \in P, NEW i \in 1 .. Len(M[o]), NEW u \in P, NEW k \in 1 .. Len(M[u]),
             M[o][i] = M[u][k]
      PROVE  o = u /\ i = k
  <2>1. CASE o # r /\ u # r
    <3>1. /\ i \in 1 .. Len(L[o]) /\ M[o][i] = L[o][i]
          /\ k \in 1 .. Len(L[u]) /\ M[u][k] = L[u][k]
      BY <1>3, <2>1
    <3>2. L[o][i] = L[u][k] /\ o \in DOMAIN L /\ u \in DOMAIN L
      BY <1>1, <1>5, <3>1
    <3> QED BY <3>1, <3>2 DEF Distinct
  <2>2. CASE o = r /\ u = r
    <3>1. Len(L[q]) \in Nat /\ i \in Nat /\ k \in Nat
      BY <1>1, <2>2
    <3>2. CASE i \in 1 .. Len(L[q]) /\ M[r][i] = L[q][i]
      BY <1>1, <1>4, <1>5, <2>2, <3>2 DEF Distinct
    <3>3. CASE i - Len(L[q]) \in 1 .. Len(L[p]) /\ M[r][i] = L[p][i - Len(L[q])]
      <4>1. CASE k \in 1 .. Len(L[q]) /\ M[r][k] = L[q][k]
        BY <1>1, <1>5, <2>2, <3>3, <4>1 DEF Distinct
      <4>2. CASE k - Len(L[q]) \in 1 .. Len(L[p]) /\ M[r][k] = L[p][k - Len(L[q])]
        <5>1. i - Len(L[q]) = k - Len(L[q])
          <6>1. /\ L[p][i - Len(L[q])] = L[p][k - Len(L[q])] /\ p \in DOMAIN L
                /\ i - Len(L[q]) \in 1 .. Len(L[p]) /\ k - Len(L[q]) \in 1 .. Len(L[p])
            BY <1>1, <1>5, <2>2, <3>3, <4>2
          <6> QED BY <6>1 DEF Distinct
        <5> QED BY <2>2, <3>1, <5>1
      <4> QED BY <1>4, <2>2, <4>1, <4>2
    <3> QED BY <1>4, <2>2, <3>2, <3>3
  <2>3. ASSUME NEW v \in P, NEW l \in 1 .. Len(M[v]), NEW m \in 1 .. Len(M[r]),
               v # r, M[v][l] = M[r][m]
        PROVE  FALSE
    <3>1. v \notin {p, q} /\ l \in 1 .. Len(L[v]) /\ M[v][l] = L[v][l]
      BY <1>3, <2>3
    <3>2. /\ v \in DOMAIN L /\ p \in DOMAIN L /\ q \in DOMAIN L
          /\ L[v][l] = M[r][m]
      BY <1>1, <2>3, <3>1
    <3>3. CASE m \in 1 .. Len(L[q]) /\ M[r][m] = L[q][m]
      BY <3>1, <3>2, <3>3 DEF Distinct
    <3>4. CASE m - Len(L[q]) \in 1 .. Len(L[p]) /\ M[r][m] = L[p][m - Len(L[q])]
      BY <3>1, <3>2, <3>4 DEF Distinct
    <3> QED BY <1>4, <3>3, <3>4
  <2> QED BY <1>5, <2>1, <2>2, <2>3
<1>6. ASSUME NEW d PROVE Stands(M, d) <=> Stands(L, d)
  <2>1. ASSUME Stands(M, d) PROVE Stands(L, d)
    <3>0. PICK o \in P : \E i \in 1 .. Len(M[o]) : M[o][i] = d
      BY <1>1, <2>1 DEF Stands
    <3>1. PICK i \in 1 .. Len(M[o]) : M[o][i] = d
      BY <3>0
    <3>2. CASE o = r
      BY <1>1, <1>4, <3>1, <3>2 DEF Stands
    <3>3. CASE o # r
      BY <1>1, <1>3, <3>1, <3>3 DEF Stands
    <3> QED BY <3>2, <3>3
  <2>2. ASSUME Stands(L, d) PROVE Stands(M, d)
    <3>0. PICK o \in P : \E i \in 1 .. Len(L[o]) : L[o][i] = d
      BY <1>1, <2>2 DEF Stands
    <3>1. PICK i \in 1 .. Len(L[o]) : L[o][i] = d
      BY <3>0
    <3>2. CASE o = q
      <4>1. i \in 1 .. Len(M[r]) /\ M[r][i] = d
        BY <1>1, <1>2, <3>1, <3>2
      <4> QED BY <1>1, <4>1 DEF Stands
    <3>3. CASE o = p
      <4>1. Len(L[q]) + i \in 1 .. Len(M[r]) /\ M[r][Len(L[q]) + i] = d
        <5>1. /\ Len(L[q]) \in Nat /\ Len(L[p]) \in Nat /\ i \in 1 .. Len(L[p])
              /\ Len(M[r]) = Len(L[q]) + Len(L[p]) /\ L[p][i] = d
          BY <1>1, <1>2, <3>1, <3>3
        <5>2. Len(L[q]) + i \in 1 .. Len(M[r])
          BY <5>1
        <5>3. M[r][Len(L[q]) + i] = L[p][(Len(L[q]) + i) - Len(L[q])]
          BY <1>2, <5>1, <5>2
        <5>4. (Len(L[q]) + i) - Len(L[q]) = i
          BY <5>1
        <5> QED BY <5>1, <5>2, <5>3, <5>4
      <4> QED BY <1>1, <4>1 DEF Stands
    <3>4. CASE o \notin {p, q}
      BY <1>1, <1>2, <3>1, <3>4 DEF Stands
    <3> QED BY <3>2, <3>3, <3>4
  <2> QED BY <2>1, <2>2
<1>7. Distinct(M)
  <2> SUFFICES ASSUME NEW o \in P, NEW i \in 1 .. Len(M[o]),
                      NEW u \in P, NEW k \in 1 .. Len(M[u]), M[o][i] = M[u][k]
               PROVE  o = u /\ i = k
    BY <1>1 DEF Distinct
  <2> QED BY <1>5
<1> QED BY <1>6, <1>7 DEF M

-----------------------------------------------------------------------------
(* The inductive invariant.                                                  *)

(* Where a request without its answer may be: the queue, the worker's hands, *)
(* or the list of the closer or failing worker that will answer it.          *)
Holders == Closers \cup {"worker"}
Places == Holders \cup {"queue", "active"}
Converting == {"language", "style", "text"}
Lines == [p \in Places |-> IF p = "queue" THEN requests
                           ELSE IF p = "active"
                                THEN IF active = None THEN <<>> ELSE <<active>>
                                ELSE pending[p]]

(* What is taken from the queue lies with whoever took it, and a closed      *)
(* processor has an empty one.                                               *)
Shapes ==
    /\ TypeOK /\ failure \in BOOLEAN
    /\ active # None <=> worker \in Converting
    /\ worker # "failing" => pending["worker"] = <<>>
    /\ \A k \in Closers : closer[k] # "answering" => pending[k] = <<>>
    /\ closed => requests = <<>>
    /\ worker \in {"failing", "exited"} => closed

(* Who waits without an answer stands in one line, at one position, and      *)
(* nobody else does.                                                         *)
OnePlace ==
    /\ Distinct(Lines)
    /\ \A c \in Callers : Stands(Lines, c) <=> call[c] = "waiting" /\ reply[c] = None
    /\ \A c \in Callers : call[c] \in {"new", "admitted", "refused"} => reply[c] = None

(* One closer joins at a time, under the lock; the others find the handle    *)
(* taken only after the join.                                                *)
JoinsOnce ==
    /\ \A k \in Closers : closer[k] = "joining" <=> joinLock = k
    /\ CloseDrains

(* A released handle has no call under way and admits none.                  *)
Released ==
    /\ handle = "released" => Pending = {}
    /\ HandleOutlivesCalls

(* A preference that has been set is the one of the request in hand.         *)
Spoken ==
    /\ worker \in {"style", "text"} => prefs.language = want[active]
    /\ worker = "text" => prefs.style = want[active]
    /\ SpeechMatchesRequest

MathInv == Shapes /\ OnePlace /\ JoinsOnce /\ Released /\ Spoken
-----------------------------------------------------------------------------
(* The invariant is inductive.                                               *)

LEMMA Apart ==
  /\ None \notin Callers /\ None \notin Closers /\ None \notin Options /\ None \notin Replies
  /\ "worker" \notin Closers /\ "queue" \notin Holders /\ "active" \notin Holders
BY MathAssumption DEF Holders

LEMMA LinesTyped ==
  ASSUME Shapes
  PROVE  /\ Lines \in [Places -> Seq(Callers)]
         /\ Lines["queue"] = requests
         /\ Lines["active"] = IF active = None THEN <<>> ELSE <<active>>
         /\ \A a \in Holders : Lines[a] = pending[a]
<1>1. \A a \in Holders : pending[a] \in Seq(Callers)
  BY DEF Shapes, TypeOK, Holders
<1>2. requests \in Seq(Callers) /\ <<>> \in Seq(Callers)
      /\ active \in Callers \cup {None}
  BY DEF Shapes, TypeOK
<1>3. active # None => <<active>> \in Seq(Callers)
  BY <1>2
<1> QED BY <1>1, <1>2, <1>3, Apart DEF Lines, Places

(* What each step does to the lines.                                         *)
LEMMA LinesStay ==
  ASSUME UNCHANGED <<requests, active, pending>>
  PROVE  Lines' = Lines
BY DEF Lines

LEMMA LinesAfterRequest ==
  ASSUME Shapes, NEW c \in Callers, requests' = Append(requests, c), UNCHANGED <<active, pending>>
  PROVE  Lines' = [Lines EXCEPT !["queue"] = Append(Lines["queue"], c)]
BY LinesTyped, Apart DEF Lines, Places

LEMMA LinesAfterPop ==
  ASSUME Shapes, requests # <<>>, active = None, active' = Head(requests),
         requests' = Tail(requests), UNCHANGED pending
  PROVE  Lines' = [[Lines EXCEPT !["queue"] = Tail(Lines["queue"])]
                         EXCEPT !["active"] = Append(<<>>, Head(Lines["queue"]))]
<1>1. Head(requests) \in Callers /\ Append(<<>>, Head(requests)) = <<Head(requests)>>
  BY HeadTailProperties DEF Shapes, TypeOK
<1>2. Lines["queue"] = requests
  BY LinesTyped
<1> DEFINE M == [[Lines EXCEPT !["queue"] = Tail(requests)] EXCEPT !["active"] = <<Head(requests)>>]
<1>3. DOMAIN Lines = Places /\ Lines' = [p \in Places |-> Lines'[p]]
  BY DEF Lines, Places, Holders
<1>4. ASSUME NEW p \in Places PROVE Lines'[p] = M[p]
  BY <1>1, <1>4, Apart DEF Lines, Places, Holders
<1>5. M = [p \in Places |-> M[p]]
  BY <1>3
<1> HIDE DEF M
<1>6. Lines' = M
  BY <1>3, <1>4, <1>5
<1> QED BY <1>1, <1>2, <1>6 DEF M

LEMMA LinesAfterAnswer ==
  ASSUME Shapes, active # None, active' = None, UNCHANGED <<requests, pending>>
  PROVE  /\ Lines' = [Lines EXCEPT !["active"] = Tail(Lines["active"])]
         /\ Lines["active"] # <<>> /\ Head(Lines["active"]) = active
<1>1. Lines["active"] = <<active>> /\ Tail(<<active>>) = <<>> /\ Head(<<active>>) = active
      /\ <<active>> # <<>>
  BY LinesTyped
<1>2. Lines' = [Lines EXCEPT !["active"] = <<>>]
  BY Apart DEF Lines, Places
<1> QED BY <1>1, <1>2

LEMMA LinesAfterFailure ==
  ASSUME Shapes, active # None, active' = None, requests' = <<>>,
         pending' = [pending EXCEPT !["worker"] = <<active>> \o requests]
  PROVE  Lines' = [Lines EXCEPT !["active"] = <<>>, !["queue"] = <<>>,
                                !["worker"] = Lines["active"] \o Lines["queue"]]
<1>1. Lines["active"] = <<active>> /\ Lines["queue"] = requests
      /\ DOMAIN pending = Holders
  BY LinesTyped DEF Shapes, TypeOK, Holders
<1> QED BY <1>1, Apart DEF Lines, Places, Holders

LEMMA LinesAfterClose ==
  ASSUME Shapes, NEW k \in Closers, pending[k] = <<>>, requests' = <<>>, UNCHANGED active,
         pending' = [pending EXCEPT ![k] = requests]
  PROVE  Lines' = [Lines EXCEPT ![k] = <<>>, !["queue"] = <<>>,
                                ![k] = Lines[k] \o Lines["queue"]]
<1>1. /\ Lines[k] = <<>> /\ Lines["queue"] = requests /\ DOMAIN pending = Holders
      /\ <<>> \o requests = requests
  BY LinesTyped, ConcatEmptySeq DEF Shapes, TypeOK, Holders
<1> QED BY <1>1, Apart DEF Lines, Places, Holders

LEMMA LinesAfterHead ==
  ASSUME Shapes, NEW a \in Holders, pending' = [pending EXCEPT ![a] = Tail(pending[a])],
         UNCHANGED <<requests, active>>
  PROVE  Lines' = [Lines EXCEPT ![a] = Tail(Lines[a])]
<1>1. Lines[a] = pending[a] /\ DOMAIN pending = Holders
  BY LinesTyped DEF Shapes, TypeOK, Holders
<1> QED BY <1>1, Apart DEF Lines, Places, Holders

LEMMA ShapesKept == Shapes /\ [Next]_vars => Shapes'
<1> SUFFICES ASSUME Shapes, [Next]_vars PROVE Shapes'
  OBVIOUS
<1> USE DEF Shapes, TypeOK, Converting, Send, lane, work, calls, closes
<1>0. /\ \A is \in {"stale", "failed", "closed", "full", "error", "cancelled", "mathml"} :
             [is |-> is] \in Replies
      /\ \A f \in Preferences : [is |-> "speech", prefs |-> f] \in Replies
  BY DEF Replies
<1>1. CASE Worker
  <2>1. CASE WorkerSleeps \/ WorkerStops \/ WorkerDies
    <3>1. CASE WorkerSleeps
      BY <3>1 DEF WorkerSleeps
    <3>2. CASE WorkerStops
      BY <3>2 DEF WorkerStops
    <3>3. CASE WorkerDies
      BY <3>3 DEF WorkerDies
    <3> QED BY <2>1, <3>1, <3>2, <3>3
  <2>2. CASE WorkerPops
    <3>1. /\ Head(requests) \in Callers /\ Tail(requests) \in Seq(Callers)
          /\ Len(Tail(requests)) = Len(requests) - 1 /\ Len(requests) \in Nat
      BY <2>2, HeadTailProperties, LenProperties DEF WorkerPops
    <3> QED BY <2>2, <3>1, Apart, MathAssumption DEF WorkerPops
  <2>3. CASE SetLanguage
    <3>1. want[active] \in Options \cup {None}
      BY <2>3 DEF SetLanguage
    <3>2. prefs' \in Preferences
      BY <2>3, <3>1 DEF SetLanguage, Preferences
    <3> QED BY <2>3, <3>2 DEF SetLanguage
  <2>4. CASE SetStyle
    <3>1. want[active] \in Options \cup {None}
      BY <2>4 DEF SetStyle
    <3>2. prefs' \in Preferences
      BY <2>4, <3>1 DEF SetStyle, Style, Preferences
    <3> QED BY <2>4, <3>2 DEF SetStyle
  <2>5. CASE WorkerAnswers
    <3>1. PICK answer \in Replies : reply' = [reply EXCEPT ![active] = answer]
      BY <1>0, <2>5 DEF WorkerAnswers
    <3>2. reply' \in [Callers -> Replies \cup {None}]
      BY <3>1
    <3> QED BY <2>5, <3>2 DEF WorkerAnswers
  <2>6. CASE WorkerFails
    <3>1. active \in Callers /\ <<active>> \o requests \in Seq(Callers)
      BY <2>6, ConcatProperties DEF WorkerFails
    <3>2. pending' \in [Closers \cup {"worker"} -> Seq(Callers)]
          /\ \A k \in Closers : pending'[k] = pending[k]
      BY <2>6, <3>1, Apart DEF WorkerFails, TakeQueue
    <3> QED BY <2>6, <3>2, EmptySeq, MathAssumption DEF WorkerFails, TakeQueue
  <2>7. CASE WorkerRejects
    <3>1. /\ Head(pending["worker"]) \in Callers /\ Tail(pending["worker"]) \in Seq(Callers)
      BY <2>7, HeadTailProperties DEF WorkerRejects
    <3>2. /\ pending' \in [Closers \cup {"worker"} -> Seq(Callers)]
          /\ \A k \in Closers : pending'[k] = pending[k]
      BY <2>7, <3>1, Apart DEF WorkerRejects
    <3>3. reply' \in [Callers -> Replies \cup {None}]
      BY <1>0, <2>7, <3>1 DEF WorkerRejects
    <3> QED BY <2>7, <3>2, <3>3 DEF WorkerRejects
  <2> QED BY <1>1, <2>1, <2>2, <2>3, <2>4, <2>5, <2>6, <2>7 DEF Worker
<1>2. ASSUME NEW c \in Callers, Caller(c) PROVE Shapes'
  <2>1. CASE Admit(c)
    BY <2>1 DEF Admit
  <2>2. CASE Request(c)
    <3>1. CASE Accepts /\ requests' = Append(requests, c) /\ parked' = FALSE /\ reply' = reply
      <4>1. /\ requests' \in Seq(Callers) /\ Len(requests') = Len(requests) + 1
            /\ Len(requests) \in Nat
        BY <3>1, AppendProperties, LenProperties
      <4>2. ~closed /\ closed' = closed /\ Len(requests) < QueueLimit
        BY <2>2, <3>1 DEF Request, Accepts, HasRoom
      <4>3. Len(requests') <= QueueLimit
        BY <4>1, <4>2, MathAssumption
      <4>4. call' \in [Callers -> {"new", "admitted", "waiting", "done", "refused"}]
        BY <2>2 DEF Request
      <4>5. UNCHANGED <<closed, failure, worker, active, prefs, pending, want, closes>>
        BY <2>2 DEF Request
      <4>6. worker \notin {"failing", "exited"}
        BY <4>2
      <4>7. TypeOK' /\ (failure \in BOOLEAN)'
        BY <3>1, <4>1, <4>3, <4>4, <4>5
      <4>8. /\ (active # None <=> worker \in Converting)'
            /\ (worker # "failing" => pending["worker"] = <<>>)'
            /\ (\A k \in Closers : closer[k] # "answering" => pending[k] = <<>>)'
        BY <4>5
      <4> QED BY <4>2, <4>5, <4>6, <4>7, <4>8
    <3>2. CASE /\ reply' = [reply EXCEPT ![c] = [is |-> Refusal]]
               /\ UNCHANGED <<requests, parked>>
      <4>1. [is |-> Refusal] \in Replies
        BY <1>0 DEF Refusal
      <4>2. reply' \in [Callers -> Replies \cup {None}]
        BY <3>2, <4>1
      <4> QED BY <2>2, <3>2, <4>2 DEF Request
    <3> QED BY <2>2, <3>1, <3>2 DEF Request
  <2>3. CASE Settle(c)
    BY <2>3 DEF Settle
  <2> QED BY <1>2, <2>1, <2>2, <2>3 DEF Caller
<1>3. ASSUME NEW k \in Closers, Closer(k) PROVE Shapes'
  <2>1. CASE Close(k)
    <3>1. /\ pending' \in [Closers \cup {"worker"} -> Seq(Callers)]
          /\ pending'["worker"] = pending["worker"]
          /\ \A o \in Closers \ {k} : pending'[o] = pending[o]
      BY <2>1, Apart DEF Close
    <3>2. closer' = [closer EXCEPT ![k] = "answering"] /\ closed' = TRUE /\ parked' = FALSE
          /\ requests' = <<>>
          /\ UNCHANGED <<failure, worker, active, prefs, calls, joinLock, handle>>
      BY <2>1 DEF Close, TakeRequests
    <3>3. Len(requests') <= QueueLimit /\ requests' \in Seq(Callers)
      BY <3>2, EmptySeq, MathAssumption
    <3>4. \A o \in Closers : closer'[o] # "answering" => pending'[o] = <<>>
      BY <3>1, <3>2
    <3> QED BY <3>1, <3>2, <3>3, <3>4
  <2>2. CASE CancelPending(k)
    <3>1. /\ Head(pending[k]) \in Callers /\ Tail(pending[k]) \in Seq(Callers)
      BY <2>2, HeadTailProperties DEF CancelPending
    <3>2. /\ pending' \in [Closers \cup {"worker"} -> Seq(Callers)]
          /\ pending'["worker"] = pending["worker"]
          /\ \A o \in Closers \ {k} : pending'[o] = pending[o]
      BY <2>2, <3>1, Apart DEF CancelPending
    <3>3. reply' \in [Callers -> Replies \cup {None}]
      BY <1>0, <2>2, <3>1 DEF CancelPending
    <3> QED BY <2>2, <3>2, <3>3 DEF CancelPending
  <2>3. CASE TakeHandle(k)
    BY <2>3 DEF TakeHandle
  <2>4. CASE Joined(k)
    BY <2>4 DEF Joined
  <2> QED BY <1>3, <2>1, <2>2, <2>3, <2>4 DEF Closer
<1>4. CASE Dispose \/ Release \/ Over
  BY <1>4 DEF Dispose, Release, Over, vars
<1>5. CASE UNCHANGED vars
  BY <1>5 DEF vars
<1> QED BY <1>1, <1>2, <1>3, <1>4, <1>5 DEF Next

LEMMA OnePlaceKept == Shapes /\ OnePlace /\ [Next]_vars => OnePlace'
<1> SUFFICES ASSUME Shapes, OnePlace, [Next]_vars PROVE OnePlace'
  OBVIOUS
<1> USE DEF Send, lane, work, calls, closes
<1>0. /\ Lines \in [Places -> Seq(Callers)] /\ Distinct(Lines)
      /\ Lines["queue"] = requests /\ \A a \in Holders : Lines[a] = pending[a]
      /\ {"queue", "active", "worker"} \subseteq Places /\ Closers \subseteq Places
      /\ reply \in [Callers -> Replies \cup {None}]
      /\ \A r \in Replies : r # None
      /\ "worker" \in Holders /\ Closers \subseteq Holders
  BY LinesTyped, Apart DEF OnePlace, Places, Holders, Shapes, TypeOK
<1>r. /\ \A is \in {"stale", "failed", "closed", "full", "error", "cancelled", "mathml"} :
             [is |-> is] # None
      /\ \A f \in Preferences : [is |-> "speech", prefs |-> f] # None
  BY <1>0 DEF Replies
<1>s. ASSUME UNCHANGED <<requests, active, pending>>,
             \A c \in Callers : /\ call'[c] = "waiting" /\ reply'[c] = None
                                   <=> call[c] = "waiting" /\ reply[c] = None
                                /\ call'[c] \in {"new", "admitted", "refused"} => reply'[c] = None
      PROVE  OnePlace'
  <2>1. Lines' = Lines
    BY <1>s, LinesStay
  <2> QED BY <1>s, <2>1 DEF OnePlace
(* The one in front of line p leaves it with an answer.                      *)
<1>t. ASSUME NEW p \in Places, Lines[p] # <<>>, Lines' = [Lines EXCEPT ![p] = Tail(Lines[p])],
             NEW answer, answer # None, reply' = [reply EXCEPT ![Head(Lines[p])] = answer],
             UNCHANGED call
      PROVE  OnePlace'
  <2> DEFINE h == Head(Lines[p])
  <2>1. h \in Callers /\ Stands(Lines, h)
    <3>1. h \in Callers /\ h = Lines[p][1] /\ Len(Lines[p]) \in Nat \ {0}
      BY <1>0, <1>t, HeadTailProperties, EmptySeq
    <3> QED BY <1>0, <3>1 DEF Stands
  <2>2. Distinct(Lines') /\ \A d : Stands(Lines', d) <=> Stands(Lines, d) /\ d # h
    BY <1>0, <1>t, LineServed
  <2>3. call[h] = "waiting"
    BY <2>1 DEF OnePlace
  <2>4. \A c \in Callers : reply'[c] = IF c = h THEN answer ELSE reply[c]
    BY <1>0, <1>t
  <2> HIDE DEF h
  <2>5. \A c \in Callers : Stands(Lines', c) <=> call'[c] = "waiting" /\ reply'[c] = None
    <3> SUFFICES ASSUME NEW c \in Callers
                 PROVE  Stands(Lines', c) <=> call[c] = "waiting" /\ reply'[c] = None
      BY <1>t
    <3>1. Stands(Lines, c) <=> call[c] = "waiting" /\ reply[c] = None
      BY DEF OnePlace
    <3>2. CASE c = h
      BY <1>t, <2>1, <2>2, <2>4, <3>2
    <3>3. CASE c # h
      BY <2>2, <2>4, <3>1, <3>3
    <3> QED BY <3>2, <3>3
  <2>6. \A c \in Callers : call'[c] \in {"new", "admitted", "refused"} => reply'[c] = None
    BY <1>t, <2>3, <2>4 DEF OnePlace
  <2> QED BY <2>2, <2>5, <2>6 DEF OnePlace
<1>1. CASE Worker
  <2>1. CASE WorkerSleeps \/ WorkerStops \/ SetLanguage \/ SetStyle \/ WorkerDies
    BY <1>s, <2>1 DEF OnePlace, WorkerSleeps, WorkerStops, SetLanguage, SetStyle, WorkerDies
  <2>2. CASE WorkerPops
    <3>1. /\ active = None /\ requests # <<>> /\ active' = Head(requests)
          /\ requests' = Tail(requests) /\ UNCHANGED <<pending, call, reply>>
      BY <2>2 DEF WorkerPops, Shapes, Converting
    <3> DEFINE h == Head(Lines["queue"])
               M == [Lines EXCEPT !["queue"] = Tail(Lines["queue"])]
    <3>q. Lines["queue"] # <<>>
      BY <1>0, <3>1
    <3>p. /\ h \in Callers /\ Tail(Lines["queue"]) \in Seq(Callers)
          /\ h = Lines["queue"][1] /\ Len(Lines["queue"]) \in Nat \ {0}
      BY <1>0, <3>q, HeadTailProperties, EmptySeq
    <3>o. Distinct(M) /\ \A d : Stands(M, d) <=> Stands(Lines, d) /\ d # h
      BY <1>0, <3>q, LineServed
    <3>2. /\ Distinct(M) /\ \A d : Stands(M, d) <=> Stands(Lines, d) /\ d # h
          /\ M \in [Places -> Seq(Callers)]
          /\ h \in Callers /\ h = Lines["queue"][1] /\ Len(Lines["queue"]) \in Nat \ {0}
      BY <1>0, <3>p, <3>o
    <3>3. Stands(Lines, h)
      BY <1>0, <3>2 DEF Stands
    <3>4. Lines["active"] = <<>>
      BY <3>1, LinesTyped
    <3>5. M["active"] = <<>>
      BY <1>0, <3>4
    <3>6. Lines' = [M EXCEPT !["active"] = Append(M["active"], h)]
      BY <3>1, <3>5, LinesAfterPop
    <3> HIDE DEF M, h
    <3>7. ~Stands(M, h)
      BY <3>2
    <3>8. Distinct(Lines') /\ \A d : Stands(Lines', d) <=> Stands(M, d) \/ d = h
      <4>1. /\ "active" \in Places /\ M \in [Places -> Seq(Callers)] /\ h \in Callers
            /\ Distinct(M) /\ ~Stands(M, h)
        BY <1>0, <3>2, <3>7
      <4>2. /\ Distinct([M EXCEPT !["active"] = Append(M["active"], h)])
            /\ \A d : Stands([M EXCEPT !["active"] = Append(M["active"], h)], d)
                        <=> Stands(M, d) \/ d = h
        BY <4>1, LineJoined
      <4> QED BY <3>6, <4>2
    <3>9. \A d : Stands(Lines', d) <=> Stands(Lines, d)
      BY <3>2, <3>3, <3>8
    <3> QED BY <3>1, <3>8, <3>9 DEF OnePlace
  <2>3. CASE WorkerAnswers
    <3>1. active # None /\ active' = None /\ UNCHANGED <<requests, pending, call>>
      BY <2>3 DEF WorkerAnswers, Shapes, Converting
    <3>2. PICK answer : answer # None /\ reply' = [reply EXCEPT ![active] = answer]
      BY <1>r, <2>3 DEF WorkerAnswers, Shapes, TypeOK
    <3>3. /\ Lines' = [Lines EXCEPT !["active"] = Tail(Lines["active"])]
          /\ Lines["active"] # <<>> /\ Head(Lines["active"]) = active
      BY <3>1, LinesAfterAnswer
    <3> QED BY <1>0, <1>t, <3>1, <3>2, <3>3
  <2>4. CASE WorkerFails
    <3>1. /\ active # None /\ active' = None /\ requests' = <<>> /\ pending["worker"] = <<>>
          /\ pending' = [pending EXCEPT !["worker"] = <<active>> \o requests]
          /\ UNCHANGED <<call, reply>>
      BY <2>4 DEF WorkerFails, TakeQueue, Shapes, Converting
    <3>2. Lines' = [Lines EXCEPT !["active"] = <<>>, !["queue"] = <<>>,
                                 !["worker"] = Lines["active"] \o Lines["queue"]]
      BY <3>1, LinesAfterFailure
    <3>3. Lines["worker"] = <<>>
      BY <1>0, <3>1
    <3>4. Distinct(Lines') /\ \A d : Stands(Lines', d) <=> Stands(Lines, d)
      BY <1>0, <3>2, <3>3, LinesMoved
    <3> QED BY <3>1, <3>4 DEF OnePlace
  <2>5. CASE WorkerRejects
    <3>1. /\ Lines' = [Lines EXCEPT !["worker"] = Tail(Lines["worker"])]
          /\ Lines["worker"] # <<>>
          /\ reply' = [reply EXCEPT ![Head(Lines["worker"])] = [is |-> "failed"]]
          /\ UNCHANGED call
      BY <1>0, <2>5, LinesAfterHead DEF WorkerRejects
    <3> QED BY <1>0, <1>r, <1>t, <3>1
  <2> QED BY <1>1, <2>1, <2>2, <2>3, <2>4, <2>5 DEF Worker
<1>2. ASSUME NEW c \in Callers, Caller(c) PROVE OnePlace'
  <2>1. CASE Admit(c)
    BY <1>s, <2>1 DEF Admit, OnePlace, Shapes, TypeOK
  <2>2. CASE Request(c)
    <3>1. /\ call[c] = "admitted" /\ reply[c] = None /\ call' = [call EXCEPT ![c] = "waiting"]
          /\ call \in [Callers -> {"new", "admitted", "waiting", "done", "refused"}]
          /\ UNCHANGED <<active, pending>>
      BY <2>2 DEF Request, OnePlace, Shapes, TypeOK
    <3>2. CASE requests' = Append(requests, c) /\ reply' = reply
      <4>1. Lines' = [Lines EXCEPT !["queue"] = Append(Lines["queue"], c)]
        BY <3>1, <3>2, LinesAfterRequest
      <4>2. ~Stands(Lines, c)
        BY <3>1 DEF OnePlace
      <4>3. Distinct(Lines') /\ \A d : Stands(Lines', d) <=> Stands(Lines, d) \/ d = c
        <5>1. /\ Distinct([Lines EXCEPT !["queue"] = Append(Lines["queue"], c)])
              /\ \A d : Stands([Lines EXCEPT !["queue"] = Append(Lines["queue"], c)], d)
                          <=> Stands(Lines, d) \/ d = c
          <6>1. Lines \in [Places -> Seq(Callers)] /\ Distinct(Lines) /\ "queue" \in Places
            BY <1>0
          <6> QED BY <4>2, <6>1, LineJoined
        <5> QED BY <4>1, <5>1
      <4> QED BY <3>1, <3>2, <4>3 DEF OnePlace
    <3>3. CASE /\ reply' = [reply EXCEPT ![c] = [is |-> Refusal]]
               /\ UNCHANGED requests
      <4>1. [is |-> Refusal] # None
        BY <1>r DEF Refusal
      <4> QED BY <1>0, <1>s, <3>1, <3>3, <4>1 DEF OnePlace
    <3> QED BY <2>2, <3>2, <3>3 DEF Request
  <2>3. CASE Settle(c)
    BY <1>s, <2>3 DEF Settle, OnePlace, Shapes, TypeOK
  <2> QED BY <1>2, <2>1, <2>2, <2>3 DEF Caller
<1>3. ASSUME NEW k \in Closers, Closer(k) PROVE OnePlace'
  <2>1. CASE Close(k)
    <3>1. /\ pending[k] = <<>> /\ requests' = <<>>
          /\ pending' = [pending EXCEPT ![k] = requests] /\ UNCHANGED <<active, call, reply>>
      BY <2>1 DEF Close, TakeRequests, Shapes
    <3>2. Lines' = [Lines EXCEPT ![k] = <<>>, !["queue"] = <<>>,
                                 ![k] = Lines[k] \o Lines["queue"]]
      BY <3>1, LinesAfterClose
    <3>3. "queue" # k
      BY Apart DEF Holders
    <3>4. Distinct(Lines') /\ \A d : Stands(Lines', d) <=> Stands(Lines, d)
      BY <1>0, <3>2, <3>3, LinesMoved
    <3> QED BY <3>1, <3>4 DEF OnePlace
  <2>2. CASE CancelPending(k)
    <3>1. /\ Lines' = [Lines EXCEPT ![k] = Tail(Lines[k])] /\ Lines[k] # <<>>
          /\ reply' = [reply EXCEPT ![Head(Lines[k])] = [is |-> "cancelled"]]
          /\ UNCHANGED call
      BY <1>0, <2>2, LinesAfterHead DEF CancelPending
    <3> QED BY <1>0, <1>r, <1>t, <3>1
  <2>3. CASE TakeHandle(k) \/ Joined(k)
    BY <1>s, <2>3 DEF TakeHandle, Joined, OnePlace
  <2> QED BY <1>3, <2>1, <2>2, <2>3 DEF Closer
<1>4. CASE Dispose \/ Release \/ Over
  BY <1>s, <1>4 DEF Dispose, Release, Over, vars, OnePlace
<1>5. CASE UNCHANGED vars
  BY <1>s, <1>5 DEF vars, OnePlace
<1> QED BY <1>1, <1>2, <1>3, <1>4, <1>5 DEF Next

LEMMA JoinsOnceKept == Shapes /\ JoinsOnce /\ [Next]_vars => JoinsOnce'
<1> SUFFICES ASSUME Shapes, JoinsOnce, [Next]_vars PROVE JoinsOnce'
  OBVIOUS
<1> USE DEF JoinsOnce, CloseDrains, lane, work, calls, closes
<1>0. closer \in [Closers -> {"new", "answering", "joining", "done"}]
  BY DEF Shapes, TypeOK
<1>1. CASE Worker
  <2>1. UNCHANGED <<closer, joinLock>> /\ (worker = "exited" => worker' = "exited")
    BY <1>1 DEF Worker, WorkerSleeps, WorkerStops, WorkerPops, SetLanguage, SetStyle,
                WorkerAnswers, WorkerFails, WorkerRejects, WorkerDies
  <2> QED BY <2>1
<1>2. ASSUME NEW c \in Callers, Caller(c) PROVE UNCHANGED <<closer, joinLock, worker>>
  BY <1>2 DEF Caller, Admit, Request, Settle
<1>3. ASSUME NEW k \in Closers, Closer(k) PROVE JoinsOnce'
  <2>1. CASE Close(k)
    <3>1. /\ closer[k] = "new" /\ closer' = [closer EXCEPT ![k] = "answering"]
          /\ UNCHANGED <<joinLock, worker>>
      BY <2>1 DEF Close
    <3> QED BY <1>0, <3>1
  <2>2. CASE CancelPending(k)
    BY <2>2 DEF CancelPending
  <2>3. CASE TakeHandle(k)
    <3>1. /\ closer[k] = "answering" /\ joinLock = None /\ UNCHANGED worker
      BY <2>3 DEF TakeHandle, MayTake
    <3>2. CASE /\ \A o \in Closers : closer[o] \notin {"joining", "done"}
               /\ closer' = [closer EXCEPT ![k] = "joining"] /\ joinLock' = k
      BY <1>0, <3>1, <3>2, Apart
    <3>3. CASE /\ \E o \in Closers : closer[o] \in {"joining", "done"}
               /\ closer' = [closer EXCEPT ![k] = "done"] /\ joinLock' = joinLock
      <4>1. \A o \in Closers : closer[o] # "joining"
        BY <3>1, Apart
      <4>2. worker = "exited"
        BY <3>3, <4>1
      <4> QED BY <1>0, <3>1, <3>3, <4>2
    <3> QED BY <2>3, <3>2, <3>3 DEF TakeHandle
  <2>4. CASE Joined(k)
    <3>1. /\ closer[k] = "joining" /\ worker = "exited" /\ worker' = worker /\ joinLock' = None
          /\ closer' = [closer EXCEPT ![k] = "done"] /\ joinLock = k
      BY <2>4 DEF Joined
    <3> QED BY <1>0, <3>1, Apart
  <2> QED BY <1>3, <2>1, <2>2, <2>3, <2>4 DEF Closer
<1>4. CASE Dispose \/ Release \/ Over \/ UNCHANGED vars
  BY <1>4 DEF Dispose, Release, Over, vars
<1> QED BY <1>1, <1>2, <1>3, <1>4 DEF Next

LEMMA ReleasedKept == Shapes /\ Released /\ [Next]_vars => Released'
<1> SUFFICES ASSUME Shapes, Released, [Next]_vars PROVE Released'
  OBVIOUS
<1> USE DEF Send, lane, work, calls, closes
<1>0. /\ call \in [Callers -> {"new", "admitted", "waiting", "done", "refused"}]
      /\ reply \in [Callers -> Replies \cup {None}]
  BY DEF Shapes, TypeOK
(* An answer other than "stale" reaches somebody, or nobody; no call begins. *)
<1>s. ASSUME UNCHANGED handle, \A c \in Callers : c \in Pending' => c \in Pending,
             \A c \in Callers : reply'[c] = reply[c] \/ reply'[c] # [is |-> "stale"]
      PROVE  Released'
  BY <1>s DEF Released, HandleOutlivesCalls, Pending
<1>1. CASE Worker
  <2>1. CASE WorkerAnswers
    <3> DEFINE spoken == [is |-> "speech", prefs |-> prefs]
    <3>a. /\ UNCHANGED <<call, handle>>
          /\ \E answer \in {[is |-> "error"], [is |-> "mathml"], spoken} :
                reply' = [reply EXCEPT ![active] = answer]
      BY <2>1 DEF WorkerAnswers
    <3>b. [is |-> "error"].is # "stale" /\ [is |-> "mathml"].is # "stale"
          /\ spoken.is # "stale"
      OBVIOUS
    <3>1. /\ UNCHANGED <<call, handle>>
          /\ \E answer : /\ reply' = [reply EXCEPT ![active] = answer]
                         /\ answer.is # "stale"
      BY <3>a, <3>b
    <3> QED BY <1>0, <1>s, <3>1 DEF Pending
  <2>2. CASE WorkerRejects
    BY <1>0, <1>s, <2>2 DEF WorkerRejects, Pending
  <2>3. CASE ~(WorkerAnswers \/ WorkerRejects)
    <3>1. UNCHANGED <<call, handle, reply>>
      BY <1>1, <2>3 DEF Worker, WorkerSleeps, WorkerStops, WorkerPops, SetLanguage, SetStyle,
                        WorkerFails, WorkerDies
    <3> QED BY <1>s, <3>1 DEF Pending
  <2> QED BY <2>1, <2>2, <2>3
<1>2. ASSUME NEW c \in Callers, Caller(c) PROVE Released'
  <2>1. CASE Admit(c)
    <3>1. /\ call[c] = "new" /\ UNCHANGED <<handle, reply>>
          /\ \E to \in {"admitted", "refused"} : /\ call' = [call EXCEPT ![c] = to]
                                                 /\ to = "admitted" => handle = "open"
      BY <2>1 DEF Admit
    <3> QED BY <1>0, <3>1 DEF Released, HandleOutlivesCalls, Pending
  <2>2. CASE Request(c)
    <3>1. /\ handle # "released" /\ UNCHANGED handle
          /\ call[c] = "admitted" /\ call' = [call EXCEPT ![c] = "waiting"]
      BY <2>2 DEF Request, Released, Pending
    <3>2. [is |-> Refusal] # [is |-> "stale"]
      BY <3>1 DEF Refusal
    <3>3. \A d \in Callers : reply'[d] = reply[d] \/ reply'[d] = [is |-> Refusal]
      BY <1>0, <2>2 DEF Request
    <3> QED BY <1>0, <3>1, <3>2, <3>3 DEF Released, HandleOutlivesCalls
  <2>3. CASE Settle(c)
    BY <1>0, <1>s, <2>3 DEF Settle, Pending
  <2> QED BY <1>2, <2>1, <2>2, <2>3 DEF Caller
<1>3. ASSUME NEW k \in Closers, Closer(k) PROVE Released'
  <2>1. CASE CancelPending(k)
    BY <1>0, <1>s, <2>1 DEF CancelPending, Pending
  <2>2. CASE Close(k) \/ TakeHandle(k) \/ Joined(k)
    BY <1>s, <2>2 DEF Close, TakeHandle, Joined, Pending
  <2> QED BY <1>3, <2>1, <2>2 DEF Closer
<1>4. CASE Dispose
  BY <1>4 DEF Dispose, Released, HandleOutlivesCalls, Pending
<1>5. CASE Release
  BY <1>5 DEF Release, MayRelease, Released, HandleOutlivesCalls, Pending
<1>6. CASE Over \/ UNCHANGED vars
  BY <1>s, <1>6 DEF Over, vars, Pending
<1> QED BY <1>1, <1>2, <1>3, <1>4, <1>5, <1>6 DEF Next

LEMMA SpokenKept == Shapes /\ Spoken /\ [Next]_vars => Spoken'
<1> SUFFICES ASSUME Shapes, Spoken, [Next]_vars PROVE Spoken'
  OBVIOUS
<1> USE DEF Send, lane, work, calls, closes
<1>0. /\ reply \in [Callers -> Replies \cup {None}] /\ prefs \in Preferences
      /\ worker \in Converting => active \in Callers
  BY DEF Shapes, TypeOK
(* What happens outside the conversion says nothing, or no speech.           *)
<1>s. ASSUME UNCHANGED <<want, prefs>>,
             worker' \in {"style", "text"} => UNCHANGED <<worker, active>>,
             \A c \in Callers : reply'[c] = reply[c] \/ reply'[c].is # "speech"
      PROVE  Spoken'
  BY <1>s DEF Spoken, SpeechMatchesRequest
<1>1. CASE Worker
  <2>1. CASE WorkerSleeps \/ WorkerStops \/ WorkerPops \/ WorkerFails \/ WorkerDies
    BY <1>s, <2>1 DEF WorkerSleeps, WorkerStops, WorkerPops, WorkerFails, WorkerDies
  <2>2. CASE SetLanguage
    <3>1. /\ prefs' = [prefs EXCEPT !.language = want[active]] /\ worker' = "style"
          /\ UNCHANGED <<active, reply, want>>
      BY <2>2 DEF SetLanguage
    <3>2. prefs'.language = want[active]
      BY <1>0, <3>1 DEF Preferences
    <3> QED BY <3>1, <3>2 DEF Spoken, SpeechMatchesRequest
  <2>3. CASE SetStyle
    <3>1. /\ prefs' = [prefs EXCEPT !.style = want[active]] /\ worker' = "text"
          /\ worker = "style" /\ UNCHANGED <<active, reply, want>>
      BY <2>3 DEF SetStyle, Style
    <3>2. prefs'.style = want[active] /\ prefs'.language = want[active]
      BY <1>0, <3>1 DEF Preferences, Spoken
    <3> QED BY <3>1, <3>2 DEF Spoken, SpeechMatchesRequest
  <2>4. CASE WorkerAnswers
    <3> DEFINE spoken == [is |-> "speech", prefs |-> prefs]
    <3>a. \/ reply' = [reply EXCEPT ![active] = [is |-> "error"]]
          \/ reply' = [reply EXCEPT ![active] = [is |-> "mathml"]]
          \/ worker = "text" /\ reply' = [reply EXCEPT ![active] = spoken]
      BY <2>4 DEF WorkerAnswers
    <3>b. [is |-> "error"].is # "speech" /\ [is |-> "mathml"].is # "speech"
          /\ spoken.prefs = prefs
      OBVIOUS
    <3>1. PICK answer : /\ reply' = [reply EXCEPT ![active] = answer]
                        /\ answer.is = "speech" => answer.prefs = prefs /\ worker = "text"
      BY <3>a, <3>b
    <3>2. active \in Callers /\ worker' = "ready" /\ UNCHANGED <<prefs, want>>
      BY <1>0, <2>4 DEF WorkerAnswers, Converting
    <3>3. worker = "text" => prefs = [language |-> want[active], style |-> want[active]]
      BY <1>0 DEF Spoken, Preferences
    <3> QED BY <1>0, <3>1, <3>2, <3>3 DEF Spoken, SpeechMatchesRequest
  <2>5. CASE WorkerRejects
    BY <1>0, <1>s, <2>5 DEF WorkerRejects
  <2> QED BY <1>1, <2>1, <2>2, <2>3, <2>4, <2>5 DEF Worker
<1>2. ASSUME NEW c \in Callers, Caller(c) PROVE Spoken'
  <2>1. CASE Admit(c) \/ Settle(c)
    BY <1>s, <2>1 DEF Admit, Settle
  <2>2. CASE Request(c)
    <3>1. Refusal # "speech"
      BY DEF Refusal
    <3>2. \A d \in Callers : reply'[d] = reply[d] \/ reply'[d] = [is |-> Refusal]
      BY <1>0, <2>2 DEF Request
    <3> QED BY <1>s, <2>2, <3>1, <3>2 DEF Request
  <2> QED BY <1>2, <2>1, <2>2 DEF Caller
<1>3. ASSUME NEW k \in Closers, Closer(k) PROVE Spoken'
  <2>1. CASE CancelPending(k)
    BY <1>0, <1>s, <2>1 DEF CancelPending
  <2>2. CASE Close(k) \/ TakeHandle(k) \/ Joined(k)
    BY <1>s, <2>2 DEF Close, TakeHandle, Joined
  <2> QED BY <1>3, <2>1, <2>2 DEF Closer
<1>4. CASE Dispose \/ Release \/ Over \/ UNCHANGED vars
  BY <1>s, <1>4 DEF Dispose, Release, Over, vars
<1> QED BY <1>1, <1>2, <1>3, <1>4 DEF Next

LEMMA InitMath == Init => MathInv
<1> SUFFICES ASSUME Init PROVE MathInv
  OBVIOUS
<1>1. Shapes
  <2>1. <<>> \in Seq(Callers) /\ Len(<<>>) = 0 /\ QueueLimit \in Nat
    BY EmptySeq, MathAssumption
  <2>2. TypeOK
    <3>1. prefs \in Preferences
      BY DEF Init, Preferences
    <3>2. /\ requests \in Seq(Callers) /\ Len(requests) <= QueueLimit
          /\ pending \in [Closers \cup {"worker"} -> Seq(Callers)]
      BY <2>1 DEF Init
    <3> QED BY <3>1, <3>2 DEF Init, TypeOK
  <2>3. /\ pending["worker"] = <<>> /\ \A k \in Closers : pending[k] = <<>>
        /\ active = None /\ worker = "ready" /\ failure = FALSE /\ requests = <<>>
    BY DEF Init
  <2> QED BY <2>2, <2>3 DEF Shapes, Converting
<1>2. /\ DOMAIN Lines = Places /\ \A p \in Places : Lines[p] = <<>>
  BY Apart DEF Init, Lines, Places, Holders
<1>3. Len(<<>>) = 0
  BY EmptySeq
<1>4. Distinct(Lines) /\ \A c : ~Stands(Lines, c)
  BY <1>2, <1>3 DEF Distinct, Stands
<1>5. OnePlace
  BY <1>4 DEF Init, OnePlace
<1>6. JoinsOnce
  BY Apart DEF Init, JoinsOnce, CloseDrains
<1>7. [is |-> "stale"] \in Replies
  BY DEF Replies
<1>8. Released
  BY <1>7, Apart DEF Init, Released, HandleOutlivesCalls
<1>9. Spoken
  BY DEF Init, Spoken, SpeechMatchesRequest
<1> QED BY <1>1, <1>5, <1>6, <1>8, <1>9 DEF MathInv

LEMMA MathInvariant == Spec => []MathInv
<1>1. MathInv /\ [Next]_vars => MathInv'
  BY ShapesKept, OnePlaceKept, JoinsOnceKept, ReleasedKept, SpokenKept DEF MathInv
<1> QED BY InitMath, <1>1, PTL DEF Spec

-----------------------------------------------------------------------------
(* The theorems.                                                             *)

(* A close that has returned left no worker behind, also when another thread *)
(* joined it, and no isolate finds its handle released: the libraries may be *)
(* unloaded after a dispose (worker.rs: close; math.dart: _dispose).         *)
THEOREM DisposeIsClean == Spec => []DisposesCleanly
<1>1. MathInv => DisposesCleanly
  BY DEF MathInv, Shapes, JoinsOnce, Released, DisposesCleanly
<1> QED BY <1>1, MathInvariant, PTL

(* Speech carries the preferences of the request it answers, also after an   *)
(* earlier one failed between two of them (worker.rs: the converter).        *)
THEOREM SpeechAsAsked == Spec => []SpeechMatchesRequest
<1>1. MathInv => SpeechMatchesRequest
  BY DEF MathInv, Spoken
<1> QED BY <1>1, MathInvariant, PTL

(* An answer is never replaced, and who waits without one is in the queue,   *)
(* in the worker's hands or on the list of the closer or failing worker that *)
(* took it from the queue (worker.rs: request, start, close).                *)
THEOREM AnswersOnce == Spec => AnsweredOnce
<1>1. MathInv => NobodyForgotten
  <2> SUFFICES ASSUME MathInv PROVE NobodyForgotten
    OBVIOUS
  <2>1. /\ Lines \in [Places -> Seq(Callers)] /\ Lines["queue"] = requests
        /\ Lines["active"] = IF active = None THEN <<>> ELSE <<active>>
        /\ \A a \in Holders : Lines[a] = pending[a]
        /\ DOMAIN pending = Holders
    BY LinesTyped DEF MathInv, Shapes, TypeOK, Holders
  <2>2. ASSUME NEW c \in Callers, call[c] = "waiting", reply[c] = None PROVE c \in InHand
    <3>1. PICK p \in Places : \E i \in 1 .. Len(Lines[p]) : Lines[p][i] = c
      BY <2>1, <2>2 DEF MathInv, OnePlace, Stands
    <3>2. c \in Range(Lines[p])
      <4>1. DOMAIN Lines[p] = 1 .. Len(Lines[p])
        BY <2>1, <3>1, LenProperties
      <4> QED BY <3>1, <4>1 DEF Range
    <3>3. CASE p = "queue"
      BY <2>1, <3>2, <3>3 DEF InHand
    <3>4. CASE p = "active"
      <4>1. Len(<<>>) = 0 /\ Len(<<active>>) = 1 /\ <<active>>[1] = active
        OBVIOUS
      <4> QED BY <2>1, <3>1, <3>4, <4>1 DEF InHand
    <3>5. CASE p \in Holders
      BY <2>1, <3>2, <3>5 DEF InHand
    <3> QED BY <3>3, <3>4, <3>5 DEF Places
  <2>3. worker \in {"failing", "exited"} => requests = <<>>
    BY DEF MathInv, Shapes
  <2> QED BY <2>2, <2>3 DEF NobodyForgotten
<1>2. MathInv /\ [Next]_vars
        => \A c \in Callers : reply[c] # None => reply'[c] = reply[c]
  <2> SUFFICES ASSUME MathInv, [Next]_vars, NEW c \in Callers, reply[c] # None
               PROVE  reply'[c] = reply[c]
    OBVIOUS
  <2> USE DEF Send, lane, work, calls, closes
  <2>0. /\ reply \in [Callers -> Replies \cup {None}] /\ ~Stands(Lines, c)
        /\ Lines \in [Places -> Seq(Callers)] /\ \A a \in Holders : Lines[a] = pending[a]
        /\ Holders \subseteq Places /\ "active" \in Places /\ Lines["active"] =
                                           IF active = None THEN <<>> ELSE <<active>>
    BY LinesTyped DEF MathInv, OnePlace, Shapes, TypeOK, Places
  <2>1. ASSUME NEW a \in Holders, pending[a] # <<>> PROVE c # Head(pending[a])
    <3>1. Len(pending[a]) \in Nat \ {0} /\ Head(pending[a]) = pending[a][1]
      BY <2>0, <2>1, EmptySeq
    <3> QED BY <2>0, <3>1 DEF Stands
  <2>2. active # None => c # active
    <3>1. Len(<<active>>) = 1 /\ <<active>>[1] = active
      OBVIOUS
    <3> QED BY <2>0, <3>1 DEF Stands
  <2>3. CASE Worker
    <3>1. CASE WorkerAnswers
      BY <2>0, <2>2, <3>1 DEF WorkerAnswers, MathInv, Shapes, Converting
    <3>2. CASE WorkerRejects
      BY <2>0, <2>1, <3>2 DEF WorkerRejects, Holders
    <3> QED BY <2>3, <3>1, <3>2 DEF Worker, WorkerSleeps, WorkerStops, WorkerPops,
                   SetLanguage, SetStyle, WorkerFails, WorkerDies
  <2>4. ASSUME NEW d \in Callers, Caller(d) PROVE reply'[c] = reply[c]
    BY <2>0, <2>4 DEF Caller, Admit, Request, Settle, MathInv, OnePlace
  <2>5. ASSUME NEW k \in Closers, Closer(k) PROVE reply'[c] = reply[c]
    <3>1. CASE CancelPending(k)
      BY <2>0, <2>1, <3>1 DEF CancelPending, Holders
    <3> QED BY <2>5, <3>1 DEF Closer, Close, TakeHandle, Joined
  <2>6. CASE Dispose \/ Release \/ Over \/ UNCHANGED vars
    BY <2>6 DEF Dispose, Release, Over, vars
  <2> QED BY <2>3, <2>4, <2>5, <2>6 DEF Next
<1>3. MathInv' => NobodyForgotten'
  BY <1>1, PTL
<1> QED BY MathInvariant, <1>2, <1>3, PTL DEF AnsweredOnce, Spec
=============================================================================
