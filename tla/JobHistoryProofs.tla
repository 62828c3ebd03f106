-------------------------- MODULE JobHistoryProofs --------------------------
(***************************************************************************)
(* What findJob of the main server returns, for every history.             *)
(***************************************************************************)
EXTENDS JobHistory, Remainders

\* What findJob returns: a job is known if it is in front of the first NULL, and
\* its index is that of an entry with its id.
LEMMA FindJobFinds ==
  ASSUME NEW h, NEW jobid
  PROVE  /\ Knows(h, jobid) <=>
              \E i \in HistIdx : (\A k \in 0 .. i : h[k] # NoEntry) /\ h[i].id = jobid
         /\ Knows(h, jobid) => /\ FindJob(h, jobid) \in HistIdx
                              /\ h[FindJob(h, jobid)] # NoEntry
                              /\ h[FindJob(h, jobid)].id = jobid
<1> DEFINE hits == {i \in HistIdx : /\ \A k \in 0 .. i : h[k] # NoEntry
                                   /\ h[i].id = jobid}
           f == FindJob(h, jobid)
<1>1. f = IF hits = {} THEN -1 ELSE Min(hits)
  BY DEF FindJob
<1>2. hits \in SUBSET Nat
  BY HistoryAssumption DEF HistIdx
<1>3. hits # {} => f \in hits
  <2> HIDE DEF f, hits
  <2> QED
    BY <1>1, <1>2, MinOfNaturals
<1>4. hits # {} => f # -1
  BY <1>2, <1>3
<1>5. hits # {} <=> Knows(h, jobid)
  BY <1>1, <1>4 DEF Knows
<1>6. hits # {} => f \in HistIdx /\ h[f] # NoEntry /\ h[f].id = jobid
  <2> HIDE DEF f
  <2>1. ASSUME hits # {} PROVE f \in HistIdx /\ f \in 0 .. f
    BY <1>3, <2>1, HistoryAssumption DEF HistIdx
  <2> QED
    BY <1>3, <2>1
<1> QED
  BY <1>5, <1>6
=============================================================================
