--------------------------- MODULE HistoryProofs ---------------------------
(***************************************************************************)
(* Proofs about History, for every length of the history and every number  *)
(* of ids that is not smaller.  The code uses 10 and 65536, for which no   *)
(* run can reach the point where the ids start again.                      *)
(***************************************************************************)
EXTENDS History, JobHistoryProofs

\* The place in job_array of the n-th submission.
Place(n) == (n % ID_MOD) % JOB_HISTORY_MAX

\* Ids and places are in range.
LEMMA PlaceType ==
  ASSUME NEW n \in Nat
  PROVE  n % ID_MOD \in JobIds /\ Place(n) \in HistIdx
BY HistoryAssumption, DivMod DEF Place, HistIdx, JobIds

\* ID_MOD is a number of whole histories and the remainder.
LEMMA Rounds ==
  /\ Remainder \in HistIdx
  /\ \E a \in Nat : ID_MOD = JOB_HISTORY_MAX * a + JOB_HISTORY_MAX + Remainder
<1> DEFINE q == ID_MOD \div JOB_HISTORY_MAX
<1>1. Remainder \in HistIdx /\ q \in Nat /\ ID_MOD = JOB_HISTORY_MAX * q + Remainder
  BY HistoryAssumption, DivMod DEF Remainder, HistIdx
<1> HIDE DEF q
<1>2. q # 0
  BY <1>1, HistoryAssumption, WindowAssumption DEF HistIdx
<1>3. q - 1 \in Nat /\ JOB_HISTORY_MAX * q = JOB_HISTORY_MAX * (q - 1) + JOB_HISTORY_MAX
  BY <1>1, <1>2, HistoryAssumption
<1> QED
  BY <1>1, <1>3

\* Two submissions less than JOB_HISTORY_MAX apart have different places, unless
\* the ids start again in between; then the distance must be below the
\* remainder, or the remainder be 0.
LEMMA PlacesDiffer ==
  ASSUME NEW n \in Nat, NEW k \in 1 .. JOB_HISTORY_MAX - 1, NEW s, s = n + k,
         (n % ID_MOD) + k < ID_MOD \/ k < Remainder \/ Remainder = 0
  PROVE  Place(s) # Place(n)
<1> USE HistoryAssumption, WindowAssumption
<1> DEFINE H == JOB_HISTORY_MAX
           M == ID_MOD
           u == n % M
           v == s % M
           t == u + k
<1>0. H \in Nat \ {0} /\ M \in Nat \ {0} /\ M >= H /\ k \in 1 .. H - 1
  OBVIOUS
<1>1. /\ u \in 0 .. M - 1 /\ t \in Nat /\ t = u + k
      /\ t < M => v = t
      /\ t >= M => v = t - M
  <2>1. u \in 0 .. M - 1
    BY DivMod
  <2>2. k \in 0 .. M
    BY <1>0
  <2>3. ASSUME u + k < M PROVE v = u + k
    BY <1>0, <2>2, <2>3, ModAddBelow, Zenon
  <2>4. ASSUME u + k >= M PROVE v = u + k - M
    BY <1>0, <2>2, <2>4, ModAddAbove, Zenon
  <2> QED
    BY <2>1, <2>3, <2>4
<1>2. Place(s) = v % H /\ Place(n) = u % H
  BY DEF Place
<1>3. PICK a \in Nat : M = H * a + H + Remainder
  BY Rounds
<1>4. Remainder \in 0 .. H - 1
  BY Rounds DEF HistIdx
<1>5. t < M \/ k < Remainder \/ Remainder = 0
  OBVIOUS
<1> HIDE HistoryAssumption, WindowAssumption DEF H, M, u, v, t
<1>6. u % H \in 0 .. H - 1
  BY <1>0, <1>1, DivMod
<1>7. t % H # u % H
  <2>1. k \in 0 .. H /\ u \in Nat
    BY <1>0, <1>1
  <2>2. ASSUME (u % H) + k < H PROVE t % H = (u % H) + k
    BY <1>0, <1>1, <2>1, <2>2, ModAddBelow, Zenon
  <2>3. ASSUME (u % H) + k >= H PROVE t % H = (u % H) + k - H
    BY <1>0, <1>1, <2>1, <2>3, ModAddAbove, Zenon
  <2> QED
    BY <1>0, <1>6, <2>2, <2>3
<1>8. CASE t < M
  BY <1>1, <1>2, <1>7, <1>8
<1>9. CASE t >= M /\ Remainder = 0
  <2>1. v \in Nat
    BY <1>0, <1>1, <1>9
  <2>2. PICK c \in Nat, w \in 0 .. H - 1 : v = H * c + w /\ v % H = w
    BY <1>0, <2>1, DivMod
  <2> DEFINE d == a + 1 + c
  <2>3. t = H * d + w /\ d \in Nat
    BY <1>0, <1>1, <1>3, <1>9, <2>1, <2>2
  <2> HIDE DEF d
  <2>4. t % H = w
    BY <1>0, <2>3, ModMultiple
  <2> QED
    BY <1>2, <1>7, <2>2, <2>4
<1>10. CASE t >= M /\ k < Remainder
  <2> DEFINE w == u - (M - Remainder)
             b == a + 1
  <2>1. w \in 0 .. H - 1 /\ v \in 0 .. H - 1 /\ v < w
    BY <1>0, <1>1, <1>4, <1>10
  <2>2. u = H * b + w /\ b \in Nat
    BY <1>0, <1>1, <1>3, <1>4
  <2> HIDE DEF w, b
  <2>3. u % H = w
    BY <1>0, <2>1, <2>2, ModMultiple
  <2>4. v % H = v
    BY <1>0, <2>1, ModSmall
  <2> QED
    BY <1>2, <2>1, <2>3, <2>4
<1> QED
  BY <1>0, <1>1, <1>5, <1>8, <1>9, <1>10

\* After JOB_HISTORY_MAX submissions, or JOB_HISTORY_MAX + Remainder if the ids
\* start again meanwhile, the place of a submission has been taken over.
LEMMA PlaceAgain ==
  ASSUME NEW n \in Nat
  PROVE  \E k \in 1 .. JOB_HISTORY_MAX + Remainder :
           /\ Place(n + k) = Place(n)
           /\ (n % ID_MOD) + JOB_HISTORY_MAX < ID_MOD => k = JOB_HISTORY_MAX
<1> DEFINE H == JOB_HISTORY_MAX
           M == ID_MOD
           u == n % M
<1>0. H \in Nat \ {0} /\ M \in Nat \ {0} /\ M >= H
  BY HistoryAssumption, WindowAssumption
<1>1. u \in 0 .. M - 1 /\ u \in Nat
  BY <1>0, DivMod
<1>2. \A i : Place(i) = (i % M) % H
  BY DEF Place
<1>3. PICK a \in Nat : M = H * a + H + Remainder
  BY Rounds
<1>4. Remainder \in 0 .. H - 1
  BY Rounds DEF HistIdx
<1>5. ASSUME NEW k \in 0 .. M, u + k >= M PROVE (n + k) % M = u + k - M
  BY <1>0, <1>5, ModAddAbove, Zenon
<1>6. ASSUME NEW k \in 0 .. M, u + k < M PROVE (n + k) % M = u + k
  BY <1>0, <1>6, ModAddBelow, Zenon
<1> SUFFICES \E k \in 1 .. H + Remainder : /\ Place(n + k) = Place(n)
                                           /\ u + H < M => k = H
  OBVIOUS
<1> HIDE DEF H, M, u
<1>7. u % H \in 0 .. H - 1
  BY <1>0, <1>1, DivMod
<1>8. CASE u + H < M
  <2>1. H \in 0 .. M /\ H \in 0 .. H /\ H \in 1 .. H + Remainder
    BY <1>0, <1>4
  <2>2. (n + H) % M = u + H
    BY <1>6, <1>8, <2>1
  <2>3. (u % H) + H >= H /\ (u % H) + H - H = u % H
    BY <1>0, <1>7
  <2>4. (u + H) % H = (u % H) + H - H
    BY <1>0, <1>1, <2>1, <2>3, ModAddAbove, Zenon
  <2>5. Place(n + H) = Place(n)
    BY <1>2, <2>2, <2>3, <2>4 DEF u
  <2> QED
    BY <2>1, <2>5
<1>9. CASE u >= M - Remainder
  <2> DEFINE w == u - (M - Remainder)
             b == a + 1
  <2>1. /\ Remainder \in 0 .. M /\ Remainder \in 1 .. H + Remainder
        /\ u + Remainder >= M /\ u + Remainder - M = w
        /\ w \in 0 .. H - 1 /\ b \in Nat /\ u = H * b + w /\ ~(u + H < M)
    BY <1>0, <1>1, <1>3, <1>4, <1>9
  <2> HIDE DEF w, b
  <2>2. (n + Remainder) % M = w
    BY <1>5, <2>1
  <2>3. w % H = w
    BY <1>0, <2>1, ModSmall
  <2>4. u % H = w
    <3>1. u = H * b + w /\ b \in Nat /\ w \in 0 .. H - 1 /\ H \in Nat \ {0}
      BY <1>0, <2>1
    <3> QED
      BY <3>1, ModMultiple
  <2>5. Place(n + Remainder) = Place(n)
    BY <1>2, <2>2, <2>3, <2>4 DEF u
  <2> QED
    BY <2>1, <2>5
<1>10. CASE u + H >= M /\ u < M - Remainder
  <2> DEFINE k == H + Remainder
             w == u + k - M
  <2>1. /\ k \in 0 .. M /\ k \in 1 .. H + Remainder
        /\ u + k >= M /\ u + k - M = w
        /\ w \in 0 .. H - 1 /\ u = H * a + w /\ ~(u + H < M)
    BY <1>0, <1>1, <1>3, <1>4, <1>10
  <2> HIDE DEF w, k
  <2>2. (n + k) % M = w
    BY <1>5, <2>1
  <2>3. w % H = w
    BY <1>0, <2>1, ModSmall
  <2>4. u % H = w
    <3>1. u = H * a + w /\ a \in Nat /\ w \in 0 .. H - 1 /\ H \in Nat \ {0}
      BY <1>0, <2>1
    <3> QED
      BY <3>1, ModMultiple
  <2>5. Place(n + k) = Place(n)
    BY <1>2, <2>2, <2>3, <2>4 DEF u
  <2> QED
    BY <2>1, <2>5
<1> QED
  BY <1>0, <1>1, <1>4, <1>8, <1>9, <1>10

-----------------------------------------------------------------------------
Entries == EntryType(Exits)

HistoryType ==
  /\ job_array \in [HistIdx -> Entries \cup {NoEntry}]
  /\ history_putidx \in Nat

\* Submission n is the latest one at place i.
Latest(i, n) ==
  /\ n \in 0 .. history_putidx - 1
  /\ Place(n) = i
  /\ \A m \in n + 1 .. history_putidx - 1 : Place(m) # i

\* job_array has at each place the entry of the latest submission there, and NULL
\* if there was none, whatever has been unsubmitted and reported meanwhile.
Contents ==
  \A i \in HistIdx :
    \/ /\ job_array[i] = NoEntry
       /\ \A n \in 0 .. history_putidx - 1 : Place(n) # i
    \/ /\ job_array[i] # NoEntry
       /\ \E n \in Nat : Latest(i, n) /\ job_array[i].id = n % ID_MOD

HistoryInv == HistoryType /\ Contents

\* Whatever keeps the ids of the entries keeps the contents.
LEMMA SameIds ==
  ASSUME HistoryInv, history_putidx' = history_putidx,
         NEW i \in HistIdx, NEW e \in Entries,
         job_array[i] # NoEntry, e.id = job_array[i].id,
         job_array' = [job_array EXCEPT ![i] = e]
  PROVE  HistoryInv'
<1> USE DEF HistoryInv, HistoryType
<1>1. HistoryType'
  OBVIOUS
<1>2. e # NoEntry
  BY NullAssumption DEF Entries
<1>3. ASSUME NEW j \in HistIdx
      PROVE  /\ job_array'[j] = NoEntry <=> job_array[j] = NoEntry
             /\ job_array[j] # NoEntry => job_array'[j].id = job_array[j].id
  BY <1>2
<1>4. \A j, n : Latest(j, n)' <=> Latest(j, n)
  BY DEF Latest
<1>5. Contents'
  BY <1>3, <1>4 DEF Contents
<1> QED
  BY <1>1, <1>5

\* Each critical section keeps the contents.
LEMMA HistoryInvInductive == HistoryInv /\ [Next]_vars => HistoryInv'
<1> SUFFICES ASSUME HistoryInv, [Next]_vars
             PROVE  HistoryInv'
  OBVIOUS
<1> USE DEF HistoryInv, HistoryType
<1>1. ASSUME NewEntry PROVE HistoryInv'
  <2>0. PICK p \in Nat : p = history_putidx
    OBVIOUS
  <2> DEFINE e == [id |-> p % ID_MOD, state |-> "WAIT", exit |-> Garbage]
  <2>1. p % ID_MOD \in JobIds /\ Place(p) \in HistIdx
    BY PlaceType
  <2>2. job_array' = [job_array EXCEPT ![Place(p)] = e] /\ history_putidx' = p + 1
    BY <1>1, <2>0 DEF NewEntry, AddEntry, Place
  <2>3. e \in Entries /\ e # NoEntry /\ e.id = p % ID_MOD
    <3>1. e \in Entries
      BY <2>1 DEF Entries, EntryType, States
    <3> QED
      BY <3>1, NullAssumption DEF Entries
  <2> HIDE DEF e
  <2>4. HistoryType'
    BY <2>1, <2>2, <2>3
  <2>5. ASSUME NEW i \in HistIdx, i # Place(p)
        PROVE  /\ job_array'[i] = job_array[i]
               /\ (\A n \in 0 .. p - 1 : Place(n) # i) => \A n \in 0 .. p : Place(n) # i
               /\ \A n \in Nat : Latest(i, n) => Latest(i, n)'
    BY <2>0, <2>2, <2>5 DEF Latest
  <2>6. Latest(Place(p), p)' /\ job_array'[Place(p)] = e
    BY <2>1, <2>2 DEF Latest
  <2>7. ASSUME NEW i \in HistIdx
        PROVE  \/ /\ job_array'[i] = NoEntry
                  /\ \A n \in 0 .. history_putidx' - 1 : Place(n) # i
               \/ /\ job_array'[i] # NoEntry
                  /\ \E n \in Nat : Latest(i, n)' /\ job_array'[i].id = n % ID_MOD
    <3>1. CASE i = Place(p)
      BY <2>3, <2>6, <3>1
    <3>2. CASE i # Place(p)
      BY <2>0, <2>2, <2>5, <3>2 DEF Contents
    <3> QED
      BY <3>1, <3>2
  <2>8. Contents'
    BY <2>7 DEF Contents
  <2> QED
    BY <2>4, <2>8
<1>2. ASSUME NEW jobid \in JobIds, Mark(jobid) PROVE HistoryInv'
  <2> DEFINE i == FindJob(job_array, jobid)
             e == [job_array[i] EXCEPT !.state = "UNSUBMITED"]
  <2>1. i \in HistIdx /\ job_array[i] # NoEntry
    BY <1>2, FindJobFinds DEF Mark
  <2>2. job_array' = [job_array EXCEPT ![i] = e] /\ history_putidx' = history_putidx
    BY <1>2 DEF Mark, MarkUnsubmitted
  <2> HIDE DEF i
  <2>3. e \in Entries /\ e.id = job_array[i].id
    BY <2>1 DEF Entries, EntryType, States
  <2> QED
    BY <2>1, <2>2, <2>3, SameIds
<1>3. ASSUME NEW jobid \in JobIds, NEW state \in {"RUN"} \cup Final, NEW exit \in Exits,
             Report(jobid, state, exit)
      PROVE  HistoryInv'
  <2> DEFINE i == FindJob(job_array, jobid)
             e == [id |-> jobid, state |-> state, exit |-> exit]
  <2>1. CASE Knows(job_array, jobid)
    <3>1. i \in HistIdx /\ job_array[i] # NoEntry /\ job_array[i].id = jobid
      BY <2>1, FindJobFinds
    <3>2. job_array' = [job_array EXCEPT ![i] = e] /\ history_putidx' = history_putidx
      BY <1>3, <2>1 DEF Report, SetState
    <3> HIDE DEF i
    <3>3. e \in Entries /\ e.id = job_array[i].id
      BY <3>1 DEF Entries, EntryType, States
    <3> QED
      BY <3>1, <3>2, <3>3, SameIds
  <2>2. CASE ~Knows(job_array, jobid)
    BY <1>3, <2>2 DEF Report, SetState, Contents, Latest
  <2> QED
    BY <2>1, <2>2
<1>4. CASE UNCHANGED vars
  BY <1>4 DEF vars, Contents, Latest
<1> QED
  BY <1>1, <1>2, <1>3, <1>4 DEF Next

\* job_array is well formed, and has at every place the entry of the latest
\* submission there, across any number of rounds of the ids.
THEOREM ContentsCorrect == Spec => []HistoryInv
<1>1. Init => HistoryInv
  BY DEF Init, HistoryInv, HistoryType, Contents, HistoryInit
<1> QED
  BY <1>1, HistoryInvInductive, PTL DEF Spec

-----------------------------------------------------------------------------
\* A place below JOB_HISTORY_MAX belongs first to the submission of that number.
LEMMA FirstPlaces ==
  /\ \A i \in HistIdx : i \in Nat /\ Place(i) = i
  /\ \A n \in Nat : Place(n) <= n
<1> USE HistoryAssumption, WindowAssumption
<1>1. ASSUME NEW i \in HistIdx PROVE i \in Nat /\ Place(i) = i
  <2>1. i \in 0 .. ID_MOD - 1 /\ i \in 0 .. JOB_HISTORY_MAX - 1
    BY DEF HistIdx
  <2>2. i % ID_MOD = i /\ i % JOB_HISTORY_MAX = i
    BY <2>1, ModSmall
  <2> QED
    BY <2>1, <2>2 DEF Place
<1>2. ASSUME NEW n \in Nat, NEW m \in Nat \ {0} PROVE n % m \in Nat /\ n % m <= n
  BY <1>2
<1>3. ASSUME NEW n \in Nat PROVE Place(n) <= n
  <2> DEFINE u == n % ID_MOD
  <2>1. u \in Nat /\ u <= n
    BY <1>2
  <2> HIDE DEF u
  <2>2. u % JOB_HISTORY_MAX \in Nat /\ u % JOB_HISTORY_MAX <= u
    BY <1>2, <2>1
  <2> QED
    BY <2>1, <2>2 DEF Place, u
<1> QED
  BY <1>1, <1>3

\* Whether a job can still be found depends on the later submissions only: it is
\* known until one of them takes its place.
LEMMA KnownUntilTakenOver ==
  ASSUME HistoryInv,
         NEW n \in 0 .. history_putidx - 1, history_putidx - n <= ID_MOD
  PROVE  Knows(job_array, n % ID_MOD) <=> Latest(Place(n), n)
<1> USE HistoryAssumption, WindowAssumption DEF HistoryInv, HistoryType
<1>1. n \in Nat /\ Place(n) \in HistIdx
  BY PlaceType
<1>2. ASSUME Latest(Place(n), n) PROVE Knows(job_array, n % ID_MOD)
  <2>1. ASSUME NEW k \in 0 .. Place(n) PROVE job_array[k] # NoEntry
    <3>1. k \in HistIdx
      BY <1>1 DEF HistIdx
    <3>2. Place(k) = k /\ Place(n) <= n
      BY <1>1, <3>1, FirstPlaces
    <3>3. k \in 0 .. history_putidx - 1
      BY <1>1, <3>2 DEF HistIdx
    <3> QED
      BY <3>1, <3>2, <3>3 DEF Contents
  <2>2. job_array[Place(n)] # NoEntry
    BY <1>1, <2>1 DEF HistIdx
  <2>3. PICK m \in Nat : Latest(Place(n), m) /\ job_array[Place(n)].id = m % ID_MOD
    BY <1>1, <2>2 DEF Contents
  <2>4. m = n
    BY <1>1, <1>2, <2>3 DEF Latest
  <2> QED
    BY <1>1, <2>1, <2>3, <2>4, FindJobFinds
<1>3. ASSUME Knows(job_array, n % ID_MOD) PROVE Latest(Place(n), n)
  <2>1. PICK i \in HistIdx : job_array[i].id = n % ID_MOD /\ job_array[i] # NoEntry
    BY <1>3, FindJobFinds
  <2>2. PICK m \in Nat : Latest(i, m) /\ m % ID_MOD = n % ID_MOD
    BY <2>1 DEF Contents
  <2>3. Place(m) = i /\ Place(n) = i
    BY <2>2 DEF Latest, Place
  <2>4. ~(m < n)
    BY <2>2, <2>3 DEF Latest
  <2>5. ~(n < m)
    <3> SUFFICES ASSUME n < m PROVE FALSE
      OBVIOUS
    <3> DEFINE k == m - n
    <3>1. k \in 0 .. ID_MOD /\ k \in 1 .. ID_MOD - 1 /\ m = n + k
      BY <1>1, <2>2 DEF Latest
    <3>2. n % ID_MOD \in 0 .. ID_MOD - 1
      BY <1>1, DivMod
    <3> HIDE DEF k
    <3>3. ASSUME (n % ID_MOD) + k < ID_MOD PROVE m % ID_MOD = (n % ID_MOD) + k
      BY <1>1, <3>1, <3>3, ModAddBelow, Zenon
    <3>4. ASSUME (n % ID_MOD) + k >= ID_MOD PROVE m % ID_MOD = (n % ID_MOD) + k - ID_MOD
      BY <1>1, <3>1, <3>4, ModAddAbove, Zenon
    <3> QED
      BY <2>2, <3>1, <3>2, <3>3, <3>4
  <2> QED
    BY <1>1, <2>2, <2>3, <2>4, <2>5
<1> QED
  BY <1>2, <1>3

\* The history is of the latest jobs, for every length of it and every number of
\* ids that is not smaller, with as many rounds of the ids as there may be.
THEOREM HistoryWindowCorrect == Spec => []HistoryWindow
<1>1. HistoryInv => HistoryWindow
  <2> SUFFICES ASSUME HistoryInv,
                      NEW n \in Max({0, history_putidx - ID_MOD}) .. history_putidx - 1
               PROVE  /\ history_putidx - n <= Certain => Knows(job_array, n % ID_MOD)
                      /\ Knows(job_array, n % ID_MOD) => history_putidx - n <= Oldest
    BY DEF HistoryWindow
  <2> USE HistoryAssumption, WindowAssumption DEF HistoryInv, HistoryType
  <2> DEFINE H == JOB_HISTORY_MAX
             M == ID_MOD
             p == history_putidx
  <2>1. n \in Nat /\ n < p /\ p - n <= M /\ p \in Nat
    <3> DEFINE x == p - M
    <3>1. x \in Int
      OBVIOUS
    <3>2. PICK y \in {0, x} : \A z \in {0, x} : y >= z
      <4>1. CASE x >= 0
        BY <3>1, <4>1
      <4>2. CASE x < 0
        BY <3>1, <4>2
      <4> QED
        BY <3>1, <4>1, <4>2
    <3>3. Max({0, x}) \in {0, x} /\ \A z \in {0, x} : Max({0, x}) >= z
      BY <3>2 DEF Max
    <3> QED
      BY <3>1, <3>3
  <2>2. Knows(job_array, n % M) <=> Latest(Place(n), n)
    BY <2>1, KnownUntilTakenOver
  <2>3. p <= M => n % M = n
    BY <2>1, ModSmall
  <2>4. Remainder \in 0 .. H - 1
    BY Rounds DEF HistIdx
  <2>5. n % M \in 0 .. M - 1
    BY <2>1, DivMod
  <2>6. ASSUME p - n <= Certain PROVE Latest(Place(n), n)
    <3>1. ASSUME NEW m \in n + 1 .. p - 1 PROVE Place(m) # Place(n)
      <4> DEFINE k == m - n
      <4>1. k \in 1 .. H - 1 /\ m = n + k /\ m \in Nat
        BY <2>1, <2>4, <2>6 DEF Certain
      <4>2. (n % M) + k < M \/ k < Remainder \/ Remainder = 0
        BY <2>1, <2>3, <2>4, <2>6 DEF Certain
      <4> HIDE DEF k
      <4> QED
        BY <2>1, <4>1, <4>2, PlacesDiffer
    <3> QED
      BY <2>1, <3>1 DEF Latest
  <2>7. ASSUME Latest(Place(n), n) PROVE p - n <= Oldest
    <3>1. PICK k \in 1 .. H + Remainder : /\ Place(n + k) = Place(n)
                                          /\ (n % M) + H < M => k = H
      BY <2>1, PlaceAgain
    <3>2. ~(n + k < p)
      BY <2>1, <2>4, <2>7, <3>1 DEF Latest
    <3> QED
      BY <2>1, <2>3, <2>4, <3>1, <3>2 DEF Oldest
  <2> QED
    BY <2>2, <2>6, <2>7
<1> QED
  BY <1>1, ContentsCorrect, PTL

-----------------------------------------------------------------------------
\* Nothing leaks in the first round of the ids.  In each later one the entries of
\* the first JOB_HISTORY_MAX ids overwrite entries that are not freed.
LeakSoFar ==
  LET round == history_putidx \div ID_MOD
      id    == history_putidx % ID_MOD
  IN /\ leaked \in Nat
     /\ round = 0 => leaked = 0
     /\ round > 0 => leaked <= JOB_HISTORY_MAX * (round - 1)
                              + (IF id < JOB_HISTORY_MAX THEN id ELSE JOB_HISTORY_MAX)

\* The number of entries that newJob leaks, from its test of the id, does not
\* exceed one history in each round.
LEMMA LeakInductive == HistoryInv /\ LeakSoFar /\ [Next]_vars => LeakSoFar'
<1> SUFFICES ASSUME HistoryInv, LeakSoFar, [Next]_vars
             PROVE  LeakSoFar'
  OBVIOUS
<1>1. ASSUME NewEntry PROVE LeakSoFar'
  <2> DEFINE H == JOB_HISTORY_MAX
             M == ID_MOD
  <2>1. PICK p \in Nat, q \in Nat, r \in 0 .. M - 1 :
          p = history_putidx /\ q = p \div M /\ r = p % M /\ p = M * q + r
    BY HistoryAssumption, DivMod DEF HistoryInv, HistoryType
  <2>2. /\ history_putidx' = p + 1
        /\ leaked' = leaked \/ (r < H /\ leaked' = leaked + 1)
        /\ q = 0 => leaked' = leaked
    <3>1. /\ history_putidx' = p + 1
          /\ leaked' = IF job_array[Place(p)] # NoEntry /\ ~(r >= H) THEN leaked + 1 ELSE leaked
      BY <1>1, <2>1 DEF NewEntry, Frees, Place
    <3>2. ASSUME q = 0, r < H PROVE job_array[Place(p)] = NoEntry
      <4>1. p = r /\ p \in HistIdx
        BY <2>1, <3>2, HistoryAssumption DEF HistIdx
      <4>2. Place(p) = p
        BY <4>1, FirstPlaces
      <4>3. \A n \in 0 .. p - 1 : Place(n) # p
        <5> SUFFICES ASSUME NEW n \in 0 .. p - 1 PROVE Place(n) # p
          OBVIOUS
        <5>1. n \in HistIdx /\ n # p
          BY <4>1, HistoryAssumption DEF HistIdx
        <5> QED
          BY <5>1, FirstPlaces
      <4> QED
        BY <2>1, <4>1, <4>2, <4>3 DEF HistoryInv, Contents, Latest
    <3> QED
      BY <2>1, <3>1, <3>2, HistoryAssumption
  <2>3. H \in Nat \ {0} /\ M \in Nat \ {0} /\ M >= H /\ 1 \in 0 .. M
    BY HistoryAssumption, WindowAssumption
  <2>4. /\ leaked \in Nat
        /\ q = 0 => leaked = 0
        /\ q > 0 => leaked <= H * (q - 1) + (IF r < H THEN r ELSE H)
    BY <2>1 DEF LeakSoFar
  <2> SUFFICES /\ leaked' \in Nat
               /\ (p + 1) \div M = 0 => leaked' = 0
               /\ (p + 1) \div M > 0 =>
                    leaked' <= H * (((p + 1) \div M) - 1)
                             + (IF (p + 1) % M < H THEN (p + 1) % M ELSE H)
    BY <2>2 DEF LeakSoFar
  <2>5. CASE r + 1 < M
    <3>1. (p % M) + 1 < M
      BY <2>1, <2>5
    <3>2. (p + 1) % M = (p % M) + 1 /\ (p + 1) \div M = p \div M
      BY <2>1, <2>3, <3>1, ModAddBelow, Zenon
    <3>3. (p + 1) % M = r + 1 /\ (p + 1) \div M = q
      BY <2>1, <3>2
    <3> HIDE DEF H, M
    <3> QED
      BY <2>1, <2>2, <2>3, <2>4, <3>3
  <2>6. CASE r + 1 >= M
    <3>1. (p % M) + 1 >= M
      BY <2>1, <2>6
    <3>2. (p + 1) % M = (p % M) + 1 - M /\ (p + 1) \div M = (p \div M) + 1
      BY <2>1, <2>3, <3>1, ModAddAbove, Zenon
    <3>3. (p + 1) % M = 0 /\ (p + 1) \div M = q + 1 /\ r = M - 1
      BY <2>1, <2>3, <2>6, <3>2
    <3>4. q > 0 => H * (q - 1) + H = H * q
      BY <2>1, <2>3
    <3>5. H * q \in Nat /\ H * (q + 1 - 1) = H * q
      BY <2>1, <2>3
    <3> HIDE DEF H, M
    <3>6. leaked' \in Nat /\ leaked' <= H * q
      BY <2>1, <2>2, <2>3, <2>4, <3>3, <3>4, <3>5
    <3> QED
      BY <2>1, <2>3, <3>3, <3>5, <3>6
  <2> QED
    BY <2>1, <2>3, <2>5, <2>6
<1>2. CASE UNCHANGED <<history_putidx, leaked>>
  BY <1>2 DEF LeakSoFar
<1> QED
  BY <1>1, <1>2 DEF Next, vars, Mark, Report

\* Each time the ids start again, no more than one history of entries is never
\* freed, and none before that.
THEOREM BoundedLeakCorrect == Spec => []BoundedLeak
<1>1. Init => LeakSoFar
  <2>1. 0 \div ID_MOD = 0
    BY HistoryAssumption, ModSmall
  <2> QED
    BY <2>1 DEF Init, LeakSoFar
<1>2. HistoryInv /\ LeakSoFar => BoundedLeak
  <2> SUFFICES ASSUME HistoryInv, LeakSoFar
               PROVE  BoundedLeak
    OBVIOUS
  <2>1. PICK q \in Nat, r \in 0 .. ID_MOD - 1 :
          q = history_putidx \div ID_MOD /\ r = history_putidx % ID_MOD
    BY HistoryAssumption, DivMod DEF HistoryInv, HistoryType
  <2>2. q > 0 => JOB_HISTORY_MAX * (q - 1) + JOB_HISTORY_MAX = JOB_HISTORY_MAX * q
    BY HistoryAssumption
  <2> QED
    BY <2>1, <2>2, HistoryAssumption DEF LeakSoFar, BoundedLeak
<1> QED
  BY <1>1, <1>2, LeakInductive, ContentsCorrect, PTL DEF Spec
=============================================================================
