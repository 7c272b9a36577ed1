-------------------------- MODULE Admission_proofs --------------------------
(* The abstract admission protocol is exclusive, whatever the processes.    *)
EXTENDS Admission, TLAPS

(* Exclusive alone is not inductive: a job that is open but has no lease yet *)
(* could be granted one beside cleanup, were cleanup not granted over no job.*)
AInv ==
    /\ TypeOK /\ Exclusive
    /\ Maints \cap (leases \cup busy) # {} => open = {}

LEMMA AdmissionStep ==
    ASSUME AdmissionRoles
    PROVE  AInv /\ [Next]_avars => AInv'
<1>. SUFFICES ASSUME AInv, [Next]_avars PROVE AInv'
  OBVIOUS
<1>. USE DEF AdmissionRoles, AInv, TypeOK, Exclusive, Recorded
<1>1. CASE UNCHANGED avars
  BY <1>1 DEF avars
<1>2. ASSUME NEW m \in Maints, Raise(m) PROVE AInv'
  BY <1>2 DEF Raise
<1>3. ASSUME NEW j \in Jobs, Open(j) PROVE AInv'
  BY <1>3 DEF Open
<1>4. ASSUME NEW p \in Jobs \cup Maints, Grant(p) PROVE AInv'
  <2>1. p \in Maints => leases \cup busy \subseteq {p}
    BY <1>4 DEF Grant
  <2>2. CASE p \in Maints
    BY <1>4, <2>1, <2>2 DEF Grant
  <2>3. CASE p \notin Maints
    <3>1. p \in open /\ leases' = leases \cup {p} /\ UNCHANGED <<barrier, open, busy>>
      BY <1>4, <2>3 DEF Grant
    <3>2. Maints \cap (leases \cup busy) = {}
      BY <3>1
    <3>. QED
      BY <2>3, <3>1, <3>2
  <2>. QED
    BY <2>2, <2>3
<1>5. ASSUME NEW p \in Jobs \cup Maints, Revoke(p) PROVE AInv'
  BY <1>5 DEF Revoke
<1>6. ASSUME NEW p \in Jobs \cup Maints, Start(p) PROVE AInv'
  BY <1>6 DEF Start
<1>7. ASSUME NEW p \in Jobs \cup Maints, End(p) PROVE AInv'
  BY <1>7 DEF End
<1>8. ASSUME NEW p \in Jobs \cup Maints, Clear(p) PROVE AInv'
  BY <1>8 DEF Clear
<1>. QED
  BY <1>1, <1>2, <1>3, <1>4, <1>5, <1>6, <1>7, <1>8 DEF Next

(* Whoever may work or works is recorded, and cleanup is alone. *)
THEOREM AdmissionIsExclusive ==
    ASSUME AdmissionRoles
    PROVE  Spec => []Exclusive
<1>1. Init => AInv
  BY DEF AdmissionRoles, Init, AInv, TypeOK, Exclusive
<1>2. AInv => Exclusive
  BY DEF AInv
<1>. QED
  BY <1>1, <1>2, AdmissionStep, PTL DEF Spec
=============================================================================
