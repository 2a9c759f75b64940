------------------------ MODULE ArgoCDSourcesProofs -------------------------
(***************************************************************************)
(* Theorems about ArgoCDSources, for any number of sources, objects and    *)
(* names.                                                                  *)
(*                                                                         *)
(* Two things are shown of a pass that reads its objects one by one while  *)
(* they change.  Kept references have been read as far as the pass has     *)
(* come, whatever else moved.  And what was read is exactly what the       *)
(* sources say now, unless an event or a retry owes another pass.          *)
(***************************************************************************)
EXTENDS ArgoCDSources, TLAPS

SourceIndex == 1..NumSources

(* Types.                                                                  *)
LEMMA SourceFacts ==
  \A s \in SourceIndex :
      /\ Source[s].configMap \in Object /\ KindOf[Source[s].configMap] = "configmap"
      /\ Source[s].projects \subseteq Object
      /\ \A o \in Source[s].projects : KindOf[o] = "appproject"
      /\ Source[s].resource # Unset =>
             Source[s].resource \in Object /\ KindOf[Source[s].resource] = "argocd"
  BY SourceAssumption DEF SourceIndex

LEMMA MentionsType ==
  ASSUME NEW S \in [Object -> ObjectState], NEW o \in Object
  PROVE  Mentions(o, S) \in SUBSET Name
  <1>1. S[o] \in ObjectState
    OBVIOUS
  <1>2. S[o].names \in SUBSET Name
    BY <1>1 DEF ObjectState
  <1> QED
    BY <1>2 DEF Mentions

LEMMA GoneType == Gone \in ObjectState
  BY DEF Gone, ObjectState

LEMMA FirstSource == 1 \in SourceIndex /\ NumSources \in SourceIndex /\ NumSources \in Nat
  BY SourceAssumption DEF SourceIndex

LEMMA ReferencesType == \A S : References(S) \subseteq SourceIndex \X Object \X Name
  BY DEF References, SourceIndex

LEMMA NextSourceType ==
  ASSUME at \in SourceIndex, NextSource
  PROVE  at' \in SourceIndex /\ pc' \in {"resource", "converge"}
  <1>1. CASE at = NumSources
    BY <1>1, FirstSource DEF NextSource
  <1>2. CASE at # NumSources
    <2>1. at + 1 \in SourceIndex
      BY <1>2, FirstSource DEF SourceIndex
    <2> QED
      BY <1>2, <2>1 DEF NextSource
  <1> QED
    BY <1>1, <1>2

LEMMA TypeInit == Init => TypeOK
  <1> SUFFICES ASSUME Init PROVE TypeOK
    OBVIOUS
  <1>1. objects \in [Object -> ObjectState] /\ installed \in SUBSET Custom
    BY DEF Init, Possible
  <1>2. watched \in SUBSET Kind
    BY DEF Init, Setup, Used, Kind, Custom
  <1>3. notices \in 0..MaxNotices
    BY NoticesAssumption DEF Init
  <1>4. at \in 1..NumSources
    BY FirstSource DEF Init, SourceIndex
  <1>5. settled \in BOOLEAN
    BY DEF Init
  <1> QED
    BY <1>1, <1>2, <1>3, <1>4, <1>5 DEF Init, TypeOK

LEMMA ReturnType ==
  ASSUME TypeOK, NEW later \in {"retry", "resync"}, wanted' \in SUBSET Name, Return(later)
  PROVE  TypeOK'
  BY FirstSource DEF TypeOK, Return, worldVars, SourceIndex

LEMMA TypeStep == TypeOK /\ [Next]_vars => TypeOK'
  <1> SUFFICES ASSUME TypeOK, [Next]_vars PROVE TypeOK'
    OBVIOUS
  <1>0. at \in SourceIndex
    BY DEF TypeOK, SourceIndex
  <1>1. ASSUME NEW o \in Object, NEW new \in StatesOf(o), ObjectEvent(o, new) PROVE TypeOK'
    <2>1. objects' \in [Object -> ObjectState]
      BY <1>1 DEF ObjectEvent, TypeOK, StatesOf
    <2>2. notices' \in 0..MaxNotices
      BY <1>1, NoticesAssumption DEF ObjectEvent, TypeOK
    <2>3. kept' \in SUBSET (SourceIndex \X Object \X Name)
      BY <1>1, ReferencesType DEF ObjectEvent
    <2> QED
      BY <1>1, <2>1, <2>2, <2>3 DEF ObjectEvent, TypeOK, SourceIndex
  <1>2. ASSUME NEW k \in Custom, DefinitionChanges(k) PROVE TypeOK'
    BY <1>2 DEF DefinitionChanges, TypeOK
  <1>3. CASE EnqueueFullState
    BY <1>3, NoticesAssumption DEF EnqueueFullState, TypeOK, worldVars
  <1>4. ASSUME NEW why \in {"retry", "resync"}, DelayExpires(why) PROVE TypeOK'
    BY <1>4 DEF DelayExpires, TypeOK, worldVars
  <1>5. CASE Take
    <2>1. kept' \in SUBSET (SourceIndex \X Object \X Name)
      BY <1>5, ReferencesType DEF Take
    <2> QED
      BY <1>5, <2>1 DEF Take, TypeOK, worldVars, SourceIndex, Reading
  <1>6. CASE GetArgoCD
    <2>1. at' \in SourceIndex /\ pc' \in {"configMap", "resource", "converge"}
      BY <1>0, <1>6, NextSourceType DEF GetArgoCD
    <2> QED
      BY <1>6, <2>1 DEF GetArgoCD, TypeOK, worldVars, SourceIndex, Reading
  <1>7. CASE GetConfigMap
    <2>1. at' \in SourceIndex /\ pc' \in {"projects", "resource", "converge"}
      BY <1>0, <1>7, NextSourceType DEF GetConfigMap
    <2>2. found' \in SUBSET Name
      BY <1>0, <1>7, SourceFacts, MentionsType DEF GetConfigMap, TypeOK
    <2> QED
      BY <1>7, <2>1, <2>2 DEF GetConfigMap, TypeOK, worldVars, SourceIndex, Reading
  <1>8. CASE ListAppProjects
    <2>1. at' \in SourceIndex /\ pc' \in {"resource", "converge"}
      BY <1>0, <1>8, NextSourceType DEF ListAppProjects
    <2>2. \A o \in Source[at].projects : Mentions(o, objects) \in SUBSET Name
      BY <1>0, SourceFacts, MentionsType DEF TypeOK
    <2>3. found' \in SUBSET Name
      BY <1>8, <2>2 DEF ListAppProjects, TypeOK
    <2> QED
      BY <1>8, <2>1, <2>3 DEF ListAppProjects, TypeOK, worldVars, SourceIndex, Reading
  <1>9. CASE Converge
    BY <1>9, ReturnType DEF Converge, TypeOK
  <1>10. CASE Fail
    BY <1>10, ReturnType DEF Fail, TypeOK
  <1>11. CASE Stop
    <2>1. watched' \in SUBSET Kind /\ notices' \in 0..MaxNotices /\ at' \in 1..NumSources
      BY <1>11, FirstSource, NoticesAssumption DEF Stop, SourceIndex
    <2>2. mapped' \in BOOLEAN
      BY <1>11 DEF Stop
    <2> QED
      BY <1>11, <2>1, <2>2 DEF Stop, TypeOK
  <1>12. CASE Startup
    <2>1. watched' \in SUBSET Kind
      BY <1>12 DEF Startup, Setup, Used, Kind, Custom
    <2> QED
      BY <1>12, <2>1 DEF Startup, TypeOK
  <1>13. CASE Settle
    BY <1>13 DEF Settle, TypeOK
  <1>14. CASE UNCHANGED vars
    BY <1>14 DEF vars, TypeOK
  <1> QED
    BY <1>1, <1>2, <1>3, <1>4, <1>5, <1>6, <1>7, <1>8, <1>9, <1>10, <1>11, <1>12, <1>13,
       <1>14
       DEF Next, PassStep

(* ArgoCDSources: every variable keeps its type, and the events on their    *)
(* way to the queue their bound.                                           *)
THEOREM TypeCorrect == Spec => []TypeOK
  <1>1. TypeOK /\ [Next]_vars => TypeOK'
    BY TypeStep
  <1> QED
    BY TypeInit, <1>1, PTL DEF Spec

-----------------------------------------------------------------------------
(* Kept references.                                                        *)

(* What has to have been read of the kept references: all of the sources    *)
(* before the current one, and its ConfigMap once its projects are next.   *)
KeptOK ==
    /\ kept \subseteq References(objects)
    /\ pc \in {"idle", "down"} => kept = {} /\ found = {} /\ at = 1
    /\ pc \in Reading => \A r \in kept : r[1] < at => r[3] \in found
    /\ pc = "projects" =>
          \A r \in kept : r[1] = at /\ r[2] = Source[at].configMap => r[3] \in found
    /\ SteadyReferenceKept

(* The source is done: its kept references are read as well. *)
LEMMA SourceDone ==
  ASSUME at \in SourceIndex, pc \in Reading, NextSource, kept' = kept,
         kept \subseteq References(objects), UNCHANGED objects,
         \A r \in kept : r[1] <= at => r[3] \in found'
  PROVE  KeptOK'
  <1>1. \A r \in kept : r[1] \in Nat /\ r[1] <= NumSources
    BY FirstSource, ReferencesType DEF SourceIndex
  <1>2. References(objects)' = References(objects)
    BY DEF References, Open, Live, Mentions
  <1>3. CASE at = NumSources
    <2>1. pc' = "converge" /\ \A r \in kept' : r[3] \in found'
      BY <1>1, <1>3 DEF NextSource
    <2> QED
      BY <1>2, <2>1 DEF KeptOK, Reading, SteadyReferenceKept
  <1>4. CASE at # NumSources
    <2>1. pc' = "resource" /\ at' = at + 1
      BY <1>4 DEF NextSource
    <2>2. \A r \in kept' : r[1] < at' => r[3] \in found'
      BY <1>1, <2>1 DEF SourceIndex
    <2> QED
      BY <1>2, <2>1, <2>2 DEF KeptOK, Reading, SteadyReferenceKept
  <1> QED
    BY <1>3, <1>4

LEMMA KeptReturn ==
  ASSUME NEW later, Return(later)
  PROVE  KeptOK'
  BY DEF Return, KeptOK, Reading, SteadyReferenceKept

LEMMA KeptStep == TypeOK /\ KeptOK /\ [Next]_vars => KeptOK'
  <1> SUFFICES ASSUME TypeOK, KeptOK, [Next]_vars PROVE KeptOK'
    OBVIOUS
  <1>0. at \in SourceIndex
    BY DEF TypeOK, SourceIndex
  <1>a. UNCHANGED objects => References(objects)' = References(objects)
    BY DEF References, Open, Live, Mentions
  <1>1. ASSUME NEW o \in Object, NEW new \in StatesOf(o), ObjectEvent(o, new) PROVE KeptOK'
    <2>1. kept' = kept \cap References(objects') /\ UNCHANGED <<pc, at, found>>
      BY <1>1 DEF ObjectEvent
    <2>2. References(objects)' = References(objects')
      BY DEF References, Open, Live, Mentions
    <2> QED
      BY <2>1, <2>2 DEF KeptOK, Reading, SteadyReferenceKept
  <1>2. CASE UNCHANGED <<objects, pc, at, found, kept>>
    BY <1>2, <1>a DEF KeptOK, Reading, SteadyReferenceKept
  <1>3. CASE Take
    <2>1. at = 1 /\ UNCHANGED <<at, objects, found>> /\ pc' = "resource"
          /\ kept' = References(objects)
      BY <1>3 DEF Take, KeptOK, worldVars
    <2>2. \A r \in kept' : r[1] \in SourceIndex
      BY <2>1, ReferencesType
    <2>3. \A r \in kept' : ~(r[1] < at')
      BY <2>1, <2>2 DEF SourceIndex
    <2> QED
      BY <2>1, <2>3, <1>a DEF KeptOK, Reading, SteadyReferenceKept
  <1>4. CASE GetArgoCD
    <2>1. CASE Open(at, objects)
      BY <1>4, <2>1, <1>a DEF GetArgoCD, KeptOK, Reading, SteadyReferenceKept, worldVars
    <2>2. CASE ~Open(at, objects)
      <3>1. \A r \in kept : r[1] # at
        BY <2>2 DEF KeptOK, References
      <3>2. \A r \in kept : r[1] \in SourceIndex
        BY ReferencesType DEF KeptOK
      <3>3. \A r \in kept : r[1] <= at => r[3] \in found'
        BY <1>0, <1>4, <3>1, <3>2 DEF GetArgoCD, KeptOK, Reading, SourceIndex
      <3> QED
        BY <1>0, <1>4, <2>2, <3>3, SourceDone DEF GetArgoCD, KeptOK, Reading, worldVars
    <2> QED
      BY <2>1, <2>2
  <1>5. CASE GetConfigMap
    <2>1. \A r \in kept : r[1] = at /\ r[2] = Source[at].configMap => r[3] \in found'
      BY <1>5 DEF GetConfigMap, KeptOK, References
    <2>2. \A r \in kept : r[1] < at => r[3] \in found'
      BY <1>5 DEF GetConfigMap, KeptOK, Reading
    <2>3. CASE Source[at].projects # {}
      BY <1>5, <1>a, <2>1, <2>2, <2>3
         DEF GetConfigMap, KeptOK, Reading, SteadyReferenceKept, worldVars
    <2>4. CASE Source[at].projects = {}
      <3>1. \A r \in kept : r[1] = at => r[2] = Source[at].configMap
        BY <2>4 DEF KeptOK, References
      <3>2. \A r \in kept : r[1] \in SourceIndex
        BY ReferencesType DEF KeptOK
      <3>3. \A r \in kept : r[1] <= at => r[3] \in found'
        BY <1>0, <2>1, <2>2, <3>1, <3>2 DEF SourceIndex
      <3> QED
        BY <1>0, <1>5, <2>4, <3>3, SourceDone DEF GetConfigMap, KeptOK, Reading, worldVars
    <2> QED
      BY <2>3, <2>4
  <1>6. CASE ListAppProjects
    <2>1. \A r \in kept : r[1] = at => r[3] \in found'
      <3> TAKE r \in kept
      <3> HAVE r[1] = at
      <3>1. CASE r[2] = Source[at].configMap
        BY <1>6, <3>1 DEF ListAppProjects, KeptOK
      <3>2. CASE r[2] \in Source[at].projects
        BY <1>6, <3>2 DEF ListAppProjects, KeptOK, References
      <3> QED
        BY <3>1, <3>2 DEF KeptOK, References
    <2>2. \A r \in kept : r[1] < at => r[3] \in found'
      BY <1>6 DEF ListAppProjects, KeptOK, Reading
    <2>3. \A r \in kept : r[1] \in SourceIndex
      BY ReferencesType DEF KeptOK
    <2>4. \A r \in kept : r[1] <= at => r[3] \in found'
      BY <1>0, <2>1, <2>2, <2>3 DEF SourceIndex
    <2> QED
      BY <1>0, <1>6, <2>4, SourceDone DEF ListAppProjects, KeptOK, Reading, worldVars
  <1>7. CASE Converge \/ Fail
    BY <1>7, KeptReturn DEF Converge, Fail
  <1>8. CASE Stop
    BY <1>8 DEF Stop, KeptOK, Reading, SteadyReferenceKept
  <1>9. CASE Startup
    BY <1>9, <1>a DEF Startup, KeptOK, Reading, SteadyReferenceKept
  <1> QED
    BY <1>1, <1>2, <1>3, <1>4, <1>5, <1>6, <1>7, <1>8, <1>9
       DEF Next, PassStep, DefinitionChanges, EnqueueFullState, DelayExpires, Settle, vars,
           worldVars

(* An Argo CD target never plans a removal because a source could not be    *)
(* read: a pass that comes to its writes wants every group that a source    *)
(* has referred to by the same object since the pass began.                *)
THEOREM SteadyReferencesAreKept == Spec => []SteadyReferenceKept
  <1>1. Init => TypeOK /\ KeptOK
    BY TypeInit DEF Init, KeptOK, Reading, SteadyReferenceKept
  <1>2. TypeOK /\ KeptOK /\ [Next]_vars => (TypeOK /\ KeptOK)'
    BY TypeStep, KeptStep
  <1>3. KeptOK => SteadyReferenceKept
    BY DEF KeptOK
  <1> QED
    BY <1>1, <1>2, <1>3, PTL DEF Spec

-----------------------------------------------------------------------------
(* What the sources say, source by source.                                 *)

NamesOf(s, S) == {n \in Name : \E o \in Object : <<s, o, n>> \in References(S)}

Upto(a, S) == {n \in Name : \E s \in SourceIndex : s < a /\ n \in NamesOf(s, S)}

LEMMA ReferenceIs ==
  ASSUME NEW S, NEW s \in SourceIndex, NEW o \in Object, NEW n \in Name
  PROVE  <<s, o, n>> \in References(S) <=>
             /\ Open(s, S)
             /\ o \in {Source[s].configMap} \cup Source[s].projects
             /\ n \in Mentions(o, S)
  BY DEF References, SourceIndex

LEMMA ClosedSaysNothing ==
  ASSUME NEW S, NEW s \in SourceIndex, ~Open(s, S)
  PROVE  NamesOf(s, S) = {}
  BY ReferenceIs DEF NamesOf

(* What the pass reads of an open source is what the source says. *)
LEMMA OpenSays ==
  ASSUME NEW S \in [Object -> ObjectState], NEW s \in SourceIndex, Open(s, S)
  PROVE  NamesOf(s, S) = Mentions(Source[s].configMap, S)
                         \cup UNION {Mentions(o, S) : o \in Source[s].projects}
  <1> DEFINE Read == Mentions(Source[s].configMap, S)
                     \cup UNION {Mentions(o, S) : o \in Source[s].projects}
  <1>1. Source[s].configMap \in Object /\ Source[s].projects \subseteq Object
    BY SourceFacts
  <1>2. ASSUME NEW n \in NamesOf(s, S) PROVE n \in Read
    <2>1. PICK o \in Object : n \in Name /\ <<s, o, n>> \in References(S)
      BY <1>2 DEF NamesOf
    <2>2. o \in {Source[s].configMap} \cup Source[s].projects /\ n \in Mentions(o, S)
      BY <2>1, ReferenceIs
    <2> QED
      BY <2>2
  <1>3. ASSUME NEW n \in Read PROVE n \in NamesOf(s, S)
    <2>1. PICK o \in {Source[s].configMap} \cup Source[s].projects : n \in Mentions(o, S)
      BY <1>3
    <2>2. o \in Object /\ n \in Name
      BY <1>1, <2>1, MentionsType
    <2>3. <<s, o, n>> \in References(S)
      BY <2>1, <2>2, ReferenceIs
    <2> QED
      BY <2>2, <2>3 DEF NamesOf
  <1> QED
    BY <1>2, <1>3

LEMMA UptoStep ==
  ASSUME NEW S, NEW a \in SourceIndex
  PROVE  Upto(a + 1, S) = Upto(a, S) \cup NamesOf(a, S)
  <1>1. \A s \in SourceIndex : s < a + 1 <=> s < a \/ s = a
    BY DEF SourceIndex
  <1>2. NamesOf(a, S) \subseteq Name
    BY DEF NamesOf
  <1> QED
    BY <1>1, <1>2 DEF Upto

LEMMA UptoFirst == \A S : Upto(1, S) = {}
  BY DEF Upto, SourceIndex

LEMMA UptoAll ==
  ASSUME NEW S
  PROVE  Upto(NumSources + 1, S) = {r[3] : r \in References(S)}
  <1>1. \A s \in SourceIndex : s < NumSources + 1
    BY FirstSource DEF SourceIndex
  <1>2. ASSUME NEW n \in Upto(NumSources + 1, S) PROVE n \in {r[3] : r \in References(S)}
    <2>1. PICK s \in SourceIndex, o \in Object : <<s, o, n>> \in References(S)
      BY <1>2 DEF Upto, NamesOf
    <2>2. n = <<s, o, n>>[3]
      OBVIOUS
    <2> QED
      BY <2>1, <2>2
  <1>3. ASSUME NEW r \in References(S) PROVE r[3] \in Upto(NumSources + 1, S)
    <2>1. r \in SourceIndex \X Object \X Name
      BY ReferencesType
    <2>2. r = <<r[1], r[2], r[3]>> /\ r[1] \in SourceIndex /\ r[2] \in Object /\ r[3] \in Name
      BY <2>1
    <2>3. r[3] \in NamesOf(r[1], S)
      BY <2>2 DEF NamesOf
    <2> QED
      BY <1>1, <2>2, <2>3 DEF Upto
  <1> QED
    BY <1>2, <1>3

-----------------------------------------------------------------------------
(* No lost update.                                                         *)

QueueOK == pc \in Reading \cup {"converge"} => queue \in {"none", "due"}

(* The controller owes a pass that reads everything anew. *)
Pending == notices > 0 \/ queue \in {"due", "retry"} \/ pc = "down"

(* What the pass has read, or the last one wanted, is what the sources say. *)
Exact ==
    /\ pc = "resource" => found = Upto(at, objects)
    /\ pc = "configMap" => Open(at, objects) /\ found = Upto(at, objects)
    /\ pc = "projects" => /\ Open(at, objects)
                          /\ found = Upto(at, objects)
                                     \cup Mentions(Source[at].configMap, objects)
    /\ pc = "converge" => found = Desired
    /\ pc = "idle" => wanted = Desired

Covered == Used \subseteq watched => Pending \/ Exact

LEMMA DesiredIsUpto == Desired = Upto(NumSources + 1, objects)
  BY UptoAll DEF Desired

LEMMA SameObjects ==
  ASSUME UNCHANGED objects
  PROVE  /\ Desired' = Desired
         /\ \A s : Open(s, objects)' = Open(s, objects)
         /\ \A o : Mentions(o, objects)' = Mentions(o, objects)
         /\ \A a : Upto(a, objects)' = Upto(a, objects)
  BY DEF Desired, References, Open, Live, Mentions, Upto, NamesOf

(* An object that no watched source has means nothing to any of them. *)
LEMMA OthersDoNotMatter ==
  ASSUME NEW o \in Object, ~OfSomeSource(o), NEW S, NEW T,
         \A x \in Object : x # o => S[x] = T[x]
  PROVE  /\ References(S) = References(T)
         /\ \A s \in SourceIndex : Open(s, S) = Open(s, T)
         /\ \A s \in SourceIndex : Mentions(Source[s].configMap, S)
                                   = Mentions(Source[s].configMap, T)
  <1>1. \A s \in SourceIndex :
            /\ Source[s].configMap # o /\ Source[s].resource # o
            /\ o \notin Source[s].projects
    BY DEF OfSomeSource, SourceIndex
  <1>2. \A s \in SourceIndex : Open(s, S) = Open(s, T)
    BY <1>1, SourceFacts DEF Open, Live
  <1>3. \A x \in Object : x # o => Mentions(x, S) = Mentions(x, T)
    BY DEF Mentions, Live
  <1>4. \A s \in SourceIndex : Mentions(Source[s].configMap, S)
                               = Mentions(Source[s].configMap, T)
    BY <1>1, <1>3, SourceFacts
  <1>5. \A r \in SourceIndex \X Object \X Name :
            r \in References(S) <=> r \in References(T)
    <2> TAKE r \in SourceIndex \X Object \X Name
    <2>1. r[1] \in SourceIndex /\ r[2] \in Object
      OBVIOUS
    <2>2. r[2] \in {Source[r[1]].configMap} \cup Source[r[1]].projects => r[2] # o
      BY <1>1, <2>1
    <2> QED
      BY <1>2, <1>3, <2>1, <2>2 DEF References, SourceIndex
  <1>6. References(S) = References(T)
    BY <1>5, ReferencesType
  <1> QED
    BY <1>2, <1>4, <1>6

(* The kind of a source's object is one the sources make use of. *)
LEMMA SourceKindsAreUsed ==
  ASSUME NEW o \in Object, OfSomeSource(o)
  PROVE  KindOf[o] \in Used
  <1>1. PICK s \in SourceIndex :
            o \in {Source[s].configMap, Source[s].resource} \cup Source[s].projects
    BY DEF OfSomeSource, SourceIndex
  <1>2. CASE o = Source[s].configMap
    BY <1>2, SourceFacts DEF Used
  <1>3. CASE o = Source[s].resource
    <2>1. Source[s].resource # Unset
      BY <1>3, UnsetAssumption
    <2> QED
      BY <1>3, <2>1, SourceFacts DEF Used, SourceIndex
  <1>4. CASE o \in Source[s].projects
    BY <1>4, SourceFacts DEF Used, SourceIndex
  <1> QED
    BY <1>1, <1>2, <1>3, <1>4

LEMMA QueueStep == TypeOK /\ QueueOK /\ [Next]_vars => QueueOK'
  <1> SUFFICES ASSUME TypeOK, QueueOK, [Next]_vars PROVE QueueOK'
    OBVIOUS
  <1>1. CASE UNCHANGED <<pc, queue>>
    BY <1>1 DEF QueueOK
  <1>2. CASE EnqueueFullState
    BY <1>2 DEF EnqueueFullState, QueueOK
  <1>3. ASSUME NEW why \in {"retry", "resync"}, DelayExpires(why) PROVE QueueOK'
    BY <1>3 DEF DelayExpires, QueueOK
  <1>4. CASE Take
    BY <1>4 DEF Take, QueueOK
  <1>5. CASE GetArgoCD \/ GetConfigMap \/ ListAppProjects
    BY <1>5 DEF GetArgoCD, GetConfigMap, ListAppProjects, QueueOK, Reading
  <1>6. CASE Converge \/ Fail
    BY <1>6 DEF Converge, Fail, Return, QueueOK, Reading
  <1>7. CASE Stop \/ Startup
    BY <1>7 DEF Stop, Startup, QueueOK, Reading
  <1> QED
    BY <1>1, <1>2, <1>3, <1>4, <1>5, <1>6, <1>7
       DEF Next, PassStep, ObjectEvent, DefinitionChanges, Settle, vars

(* The source is read: all of the first at sources have been. *)
LEMMA SourceExact ==
  ASSUME TypeOK, pc \in Reading, NextSource, UNCHANGED objects,
         found' = Upto(at, objects) \cup NamesOf(at, objects)
  PROVE  Exact'
  <1>1. at \in SourceIndex /\ at \in Nat
    BY DEF TypeOK, SourceIndex
  <1>2. found' = Upto(at + 1, objects)
    BY <1>1, UptoStep
  <1>3. CASE at = NumSources
    <2>1. pc' = "converge"
      BY <1>3 DEF NextSource
    <2>2. Desired' = Upto(NumSources + 1, objects)
      BY DesiredIsUpto, SameObjects
    <2> QED
      BY <1>2, <1>3, <2>1, <2>2 DEF Exact
  <1>4. CASE at # NumSources
    <2>1. pc' = "resource" /\ at' = at + 1
      BY <1>4 DEF NextSource
    <2>2. found' = Upto(at', objects')
      BY <1>2, <2>1
    <2> QED
      BY <2>1, <2>2 DEF Exact
  <1> QED
    BY <1>3, <1>4

LEMMA CoveredEvent ==
  ASSUME TypeOK, Covered, NEW o \in Object, NEW new \in StatesOf(o), ObjectEvent(o, new)
  PROVE  Covered'
  <1> SUFFICES ASSUME Used \subseteq watched PROVE Pending' \/ Exact'
    BY DEF Covered, ObjectEvent, Used
  <1>1. CASE KindOf[o] \in watched /\ OfSomeSource(o)
    BY <1>1 DEF ObjectEvent, TypeOK, Pending
  <1>2. CASE ~OfSomeSource(o)
    <2>1. \A x \in Object : x # o => objects'[x] = objects[x]
      BY DEF ObjectEvent, TypeOK
    <2>2. References(objects') = References(objects)
      BY <1>2, <2>1, OthersDoNotMatter
    <2>3. Desired' = Desired
      BY <2>2 DEF Desired
    <2>4. at \in SourceIndex /\ UNCHANGED <<pc, at, found, wanted, queue>>
      BY DEF TypeOK, SourceIndex, ObjectEvent
    <2>5. Open(at, objects') = Open(at, objects)
          /\ Mentions(Source[at].configMap, objects') = Mentions(Source[at].configMap, objects)
      BY <1>2, <2>1, <2>4, OthersDoNotMatter
    <2>6. Upto(at, objects') = Upto(at, objects)
      BY <2>2 DEF Upto, NamesOf
    <2>7. Exact => Exact'
      BY <2>3, <2>4, <2>5, <2>6 DEF Exact
    <2>8. Pending => Pending'
      BY <2>4 DEF ObjectEvent, TypeOK, Pending
    <2> QED
      BY <2>7, <2>8 DEF Covered
  <1>3. CASE KindOf[o] \notin watched /\ OfSomeSource(o)
    BY <1>3, SourceKindsAreUsed
  <1> QED
    BY <1>1, <1>2, <1>3

(* Steps that leave the objects and the pass, and owe no fewer passes. *)
LEMMA IdleStepCovered ==
  ASSUME Covered, UNCHANGED <<objects, watched, pc, at, found, wanted>>,
         Pending => Pending'
  PROVE  Covered'
  <1>1. Exact => Exact'
    BY SameObjects DEF Exact
  <1> QED
    BY <1>1 DEF Covered, Used

(* Steps of the pass that owe no fewer passes. *)
LEMMA PassStepCovered ==
  ASSUME Covered, UNCHANGED <<watched>>, Pending => Pending', Exact => Exact'
  PROVE  Covered'
  BY DEF Covered, Used

LEMMA CoveredStep == TypeOK /\ KeptOK /\ QueueOK /\ Covered /\ [Next]_vars => Covered'
  <1> SUFFICES ASSUME TypeOK, KeptOK, QueueOK, Covered, [Next]_vars PROVE Covered'
    OBVIOUS
  <1>0. at \in SourceIndex /\ objects \in [Object -> ObjectState]
    BY DEF TypeOK, SourceIndex
  <1>1. ASSUME NEW o \in Object, NEW new \in StatesOf(o), ObjectEvent(o, new) PROVE Covered'
    BY <1>1, CoveredEvent
  <1>2. CASE \E k \in Custom : DefinitionChanges(k)
    BY <1>2, IdleStepCovered DEF DefinitionChanges, Pending
  <1>3. CASE EnqueueFullState
    BY <1>3, IdleStepCovered DEF EnqueueFullState, Pending, worldVars
  <1>4. ASSUME NEW why \in {"retry", "resync"}, DelayExpires(why) PROVE Covered'
    BY <1>4, IdleStepCovered DEF DelayExpires, Pending, worldVars
  <1>5. CASE Take
    <2>1. found' = {} /\ at' = 1 /\ pc' = "resource" /\ UNCHANGED objects
      BY <1>5 DEF Take, KeptOK, worldVars
    <2>2. Upto(at', objects') = {}
      BY <2>1, UptoFirst
    <2>3. Exact'
      BY <2>1, <2>2 DEF Exact
    <2> QED
      BY <1>5, <2>3 DEF Covered, Used
  <1>6. CASE GetArgoCD
    <2>1. Exact => Exact'
      <3>1. CASE Open(at, objects)
        BY <1>6, <3>1, SameObjects DEF GetArgoCD, Exact, worldVars
      <3>2. CASE ~Open(at, objects)
        <4>1. NamesOf(at, objects) = {}
          BY <1>0, <3>2, ClosedSaysNothing
        <4>2. Exact => found' = Upto(at, objects) \cup NamesOf(at, objects)
          BY <1>6, <4>1 DEF GetArgoCD, Exact
        <4> QED
          BY <1>6, <3>2, <4>2, SourceExact DEF GetArgoCD, Reading, worldVars
      <3> QED
        BY <3>1, <3>2
    <2>2. Pending => Pending'
      BY <1>6 DEF GetArgoCD, Pending
    <2> QED
      BY <1>6, <2>1, <2>2, PassStepCovered DEF GetArgoCD, worldVars
  <1>7. CASE GetConfigMap
    <2>1. ASSUME Exact PROVE Exact'
      <3>1. Open(at, objects) /\ found = Upto(at, objects)
        BY <1>7, <2>1 DEF GetConfigMap, Exact
      <3>2. CASE Source[at].projects # {}
        BY <1>7, <3>1, <3>2, SameObjects DEF GetConfigMap, Exact, worldVars
      <3>3. CASE Source[at].projects = {}
        <4>1. NamesOf(at, objects) = Mentions(Source[at].configMap, objects)
          BY <1>0, <3>1, <3>3, OpenSays
        <4> QED
          BY <1>7, <3>1, <3>3, <4>1, SourceExact DEF GetConfigMap, Reading, worldVars
      <3> QED
        BY <3>2, <3>3
    <2>2. Pending => Pending'
      BY <1>7 DEF GetConfigMap, Pending
    <2> QED
      BY <1>7, <2>1, <2>2, PassStepCovered DEF GetConfigMap, worldVars
  <1>8. CASE ListAppProjects
    <2>1. ASSUME Exact PROVE Exact'
      <3>1. Open(at, objects)
            /\ found = Upto(at, objects) \cup Mentions(Source[at].configMap, objects)
        BY <1>8, <2>1 DEF ListAppProjects, Exact
      <3>2. NamesOf(at, objects) = Mentions(Source[at].configMap, objects)
                \cup UNION {Mentions(o, objects) : o \in Source[at].projects}
        BY <1>0, <3>1, OpenSays
      <3>3. found' = Upto(at, objects) \cup NamesOf(at, objects)
        BY <1>8, <3>1, <3>2 DEF ListAppProjects
      <3> QED
        BY <1>8, <3>3, SourceExact DEF ListAppProjects, Reading, worldVars
    <2>2. Pending => Pending'
      BY <1>8 DEF ListAppProjects, Pending
    <2> QED
      BY <1>8, <2>1, <2>2, PassStepCovered DEF ListAppProjects, worldVars
  <1>9. CASE Converge
    <2>1. Exact => Exact'
      <3>1. pc' = "idle" /\ wanted' = found /\ pc = "converge" /\ UNCHANGED objects
        BY <1>9 DEF Converge, Return, worldVars
      <3> QED
        BY <3>1, SameObjects DEF Exact
    <2>2. Pending => Pending'
      BY <1>9 DEF Converge, Return, Pending, QueueOK
    <2> QED
      BY <1>9, <2>1, <2>2, PassStepCovered DEF Converge, Return, worldVars
  <1>10. CASE Fail
    BY <1>10 DEF Fail, Return, Covered, Pending
  <1>11. CASE Stop
    BY <1>11 DEF Stop, Covered, Pending
  <1>12. CASE Startup
    BY <1>12 DEF Startup, Covered, Pending
  <1>13. CASE Settle
    BY <1>13, IdleStepCovered DEF Settle, Pending
  <1>14. CASE UNCHANGED vars
    BY <1>14, IdleStepCovered DEF vars, Pending
  <1> QED
    BY <1>1, <1>2, <1>3, <1>4, <1>5, <1>6, <1>7, <1>8, <1>9, <1>10, <1>11, <1>12, <1>13,
       <1>14
       DEF Next, PassStep

(* An Argo CD target with a watch on every kind it uses misses nothing:     *)
(* with only the resync timer left, the last pass wanted what the sources   *)
(* refer to, for any number of sources and objects.                        *)
THEOREM NoUpdateIsLost == Spec => []NoLostUpdate
  <1> DEFINE I == TypeOK /\ KeptOK /\ QueueOK /\ Covered
  <1>1. Init => I
    BY TypeInit
       DEF Init, KeptOK, Reading, SteadyReferenceKept, QueueOK, Covered, Pending
  <1>2. I /\ [Next]_vars => I'
    BY TypeStep, KeptStep, QueueStep, CoveredStep
  <1>3. I => NoLostUpdate
    BY DEF NoLostUpdate, Quiet, Covered, Pending, Exact
  <1> QED
    BY <1>1, <1>2, <1>3, PTL DEF Spec

=============================================================================
