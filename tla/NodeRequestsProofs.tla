-------------------------- MODULE NodeRequestsProofs --------------------------
(***************************************************************************)
(* Proofs about NodeRequests, for any requests, names, recognizers and     *)
(* outputs: types, that requests of different file names do not notice     *)
(* each other, which files outlive a request, what Gemma is given and what *)
(* becomes of its answer.                                                  *)
(*                                                                         *)
(* An inode belongs to the file name it was created under (Linked), a file *)
(* exists only while a request of its name runs (Orphans), and two such    *)
(* requests know of each other (Apart).  So the upload of a request that   *)
(* shares its name with nobody stays its own (Held).                       *)
(***************************************************************************)
EXTENDS NodeRequests, SequenceFolds, TLAPS

USE NodeAssumption

Early  == {"new", "synthesize", "serve", "create", "over"}
Unread == {"check", "direct", "transcode"}

Orphans == \A f \in Files : path[f] # None => \E r \in Requests : pc[r] \in Uploading /\ File(r) = f

Linked ==
    /\ \A f \in Files : path[f] # None => File(path[f]) = f
    /\ \A r \in Requests : pc[r] = "copy" => fd[r] # None /\ File(fd[r]) = File(r)

Apart ==
    \A r, s \in Requests :
        r # s /\ pc[r] \in Uploading /\ pc[s] \in Uploading /\ File(r) = File(s) => clash[r]

Held ==
    \A r \in Requests : ~clash[r] =>
        /\ pc[r] = "copy" => path[File(r)] = r /\ fd[r] = r /\ data[r] = Empty
        /\ pc[r] \in Unread => path[File(r)] = r /\ data[r] = r

\* The file that a request makes, by its step.
Made ==
    \A r \in Requests :
        /\ pc[r] \in {"serve", "listen", "shape"} => wav[r] = "whole"
        /\ pc[r] \in {"over", "dropupload"} => wav[r] # "whole"
        /\ pc[r] \in {"new", "synthesize", "create", "copy"} \cup Unread => wav[r] = "none"

\* Recognizers run only while their request listens.
Listening ==
    \A r \in Requests : pc[r] # "listen" =>
        /\ \A i \in Ensemble : leg[r][i] # "run"
        /\ given[r] = Heard(r)

IInv == TypeOK /\ Orphans /\ Linked /\ Apart /\ Held /\ OwnAudio /\ Made /\ Listening

-----------------------------------------------------------------------------
LEMMA FileType == ASSUME TypeOK, NEW r \in Requests PROVE File(r) \in Files
  BY DEF TypeOK, File, Files

LEMMA OutputType == <<>> \in Output
  BY DEF Output

LEMMA IInvInit == Init => IInv
<1> SUFFICES ASSUME Init PROVE IInv
  OBVIOUS
<1>1. TypeOK
  BY OutputType DEF Init, TypeOK, Audio, NoLegs, NoTexts, Uploading
<1>2. Orphans /\ Linked /\ Apart /\ Held /\ OwnAudio /\ Made
  BY DEF Init, Orphans, Linked, Apart, Held, OwnAudio, Made, Unread, Uploading, NoTexts
<1>3. Listening
  BY DEF Init, Listening, Heard, NoLegs, NoTexts
<1> QED
  BY <1>1, <1>2, <1>3 DEF IInv

-----------------------------------------------------------------------------
\* Types are kept by every step.

LEMMA ReadingsType ==
    ASSUME TypeOK, NEW r \in Requests, ~Missing(r)
    PROVE  path[File(r)] \in Requests /\ Readings(r) \subseteq Audio
<1>1. path[File(r)] \in Requests
  BY FileType DEF TypeOK, Missing
<1> QED
  BY <1>1 DEF TypeOK, Readings, Audio

LEMMA TypeStep == ASSUME IInv, [Next]_vars PROVE TypeOK'
<1> USE DEF IInv
<1>1. CASE UNCHANGED vars
  BY <1>1 DEF TypeOK, vars, fileVars, wavVars, legVars
<1>2. ASSUME NEW r \in Requests, Accept(r) \/ Refuse(r) \/ CreateFails(r)
      PROVE  TypeOK'
  BY <1>2 DEF Accept, Refuse, CreateFails, TypeOK, Goto, Reply, FailAt, fileVars, wavVars, legVars,
              Uploading
<1>3. ASSUME NEW r \in Requests, Synthesize(r) \/ SynthesizeFails(r) \/ Serve(r)
      PROVE  TypeOK'
  <2>1. CASE Synthesize(r)
    BY <2>1 DEF Synthesize, TypeOK, Goto, fileVars, legVars, Uploading
  <2>2. CASE SynthesizeFails(r)
    <3>1. PICK left \in {"none", "partial"} : wav' = [wav EXCEPT ![r] = left]
      BY <2>2 DEF SynthesizeFails
    <3> QED
      BY <2>2, <3>1 DEF SynthesizeFails, TypeOK, Goto, Reply, FailAt, fileVars, legVars, Uploading
  <2>3. CASE Serve(r)
    <3>1. PICK how \in {"ok", "error"} : Reply(r, how)
      BY <2>3 DEF Serve
    <3> QED
      BY <2>3, <3>1 DEF Serve, TypeOK, Goto, Reply, fileVars, legVars, Uploading
  <2> QED
    BY <1>3, <2>1, <2>2, <2>3
<1>4. ASSUME NEW r \in Requests, Create(r) PROVE TypeOK'
  BY <1>4, FileType DEF Create, TypeOK, Goto, wavVars, legVars, Uploading, Audio
<1>5. ASSUME NEW r \in Requests, Copy(r) \/ CopyFails(r) PROVE TypeOK'
  <2>1. fd[r] \in Requests
    BY <1>5 DEF Copy, CopyFails, Linked, TypeOK
  <2>2. CASE Copy(r)
    <3>1. PICK content \in Audio : data' = [data EXCEPT ![fd[r]] = content]
      BY <2>2 DEF Copy, Audio
    <3> QED
      BY <2>1, <2>2, <3>1 DEF Copy, TypeOK, Goto, wavVars, legVars, Uploading
  <2>3. CASE CopyFails(r)
    BY <2>1, <2>3 DEF CopyFails, TypeOK, Goto, Reply, FailAt, wavVars, legVars, Uploading, Audio
  <2> QED
    BY <1>5, <2>2, <2>3
<1>6. ASSUME NEW r \in Requests, Check(r) \/ Unreadable(r) \/ NoRecognizer(r) \/ DirectFails(r)
      PROVE  TypeOK'
  BY <1>6 DEF Check, Unreadable, NoRecognizer, DirectFails, TypeOK, Goto, Reply, FailAt, fileVars,
              wavVars, legVars, Uploading
<1>7. ASSUME NEW r \in Requests, Direct(r) PROVE TypeOK'
  BY <1>7, ReadingsType DEF Direct, TypeOK, Goto, Reply, fileVars, legVars, Uploading
<1>8. ASSUME NEW r \in Requests, Transcode(r) PROVE TypeOK'
  BY <1>8, ReadingsType DEF Transcode, TypeOK, Goto, fileVars, Uploading
<1>9. ASSUME NEW r \in Requests, TranscodeFails(r) PROVE TypeOK'
  BY <1>9 DEF TranscodeFails, TypeOK, Goto, Reply, FailAt, fileVars, legVars, Uploading
<1>10. ASSUME NEW r \in Requests, NEW i \in Ensemble, LegAnswers(r, i) \/ LegFails(r, i)
       PROVE  TypeOK'
  <2>1. leg' \in [Requests -> [Ensemble -> {"off", "run", "done"}]]
    <3>1. leg' = [leg EXCEPT ![r][i] = "done"]
      BY <1>10 DEF LegAnswers, LegFails
    <3> QED
      BY <3>1 DEF TypeOK
  <2>2. CASE LegAnswers(r, i)
    <3>1. PICK transcript \in Audio \cup {None} : text' = [text EXCEPT ![r][i] = transcript]
      BY <2>2 DEF LegAnswers, TypeOK, Audio
    <3>2. text' \in [Requests -> [Ensemble -> Audio \cup {None}]]
      BY <3>1 DEF TypeOK
    <3> QED
      BY <2>1, <2>2, <3>2 DEF LegAnswers, TypeOK, fileVars, wavVars
  <2>3. CASE LegFails(r, i)
    BY <2>1, <2>3 DEF LegFails, TypeOK, fileVars, wavVars
  <2> QED
    BY <1>10, <2>2, <2>3
<1>11. ASSUME NEW r \in Requests, Join(r) PROVE TypeOK'
  <2>1. Heard(r) \in SUBSET Ensemble
    BY DEF Heard
  <2> QED
    BY <1>11, <2>1 DEF Join, AfterJoin, TypeOK, Goto, Reply, fileVars, wavVars, Uploading
<1>12. ASSUME NEW r \in Requests, Shape(r) \/ ShapeFails(r) PROVE TypeOK'
  <2>1. CASE Shape(r)
    <3>1. PICK raw \in Output : answer' = [answer EXCEPT ![r] = raw]
      BY <2>1 DEF Shape
    <3> QED
      BY <2>1, <3>1 DEF Shape, Forget, NoLegs, NoTexts, TypeOK, Goto, Reply, fileVars, Uploading
  <2>2. CASE ShapeFails(r)
    BY <2>2 DEF ShapeFails, Forget, NoLegs, NoTexts, TypeOK, Goto, Reply, FailAt, fileVars, Uploading
  <2> QED
    BY <1>12, <2>1, <2>2
<1>13. ASSUME NEW r \in Requests, DropWav(r) PROVE TypeOK'
  BY <1>13, OutputType DEF DropWav, Forget, NoLegs, NoTexts, TypeOK, Goto, fileVars, Uploading
<1>14. ASSUME NEW r \in Requests, DropUpload(r) PROVE TypeOK'
  BY <1>14 DEF DropUpload, Forget, NoLegs, NoTexts, TypeOK, Goto, Uploading
<1> QED
  BY <1>1, <1>2, <1>3, <1>4, <1>5, <1>6, <1>7, <1>8, <1>9, <1>10, <1>11, <1>12, <1>13, <1>14
     DEF Next, Handler, Recognizer

-----------------------------------------------------------------------------
(***************************************************************************)
(* The uploads.  Most steps leave the files alone and keep a request on    *)
(* its side of the upload's creation and removal.                          *)
(***************************************************************************)
UploadsKept == Orphans /\ Linked /\ Apart /\ Held

\* Where a request may go without touching a file.
Beside(p, q) == \/ p \in Early /\ q \in Early
                \/ p \in Uploading \ {"copy"} /\ q \in Uploading \ {"copy"}
                   /\ (q \in Unread => p \in Unread)

LEMMA FilesAlone ==
    ASSUME IInv, TypeOK', NEW r \in Requests, NEW p, pc' = [pc EXCEPT ![r] = p], Beside(pc[r], p),
           UNCHANGED <<kind, name, path, fd, data, clash>>
    PROVE  UploadsKept'
<1> USE DEF IInv
<1>1. /\ \A s \in Requests : File(s)' = File(s) /\ File(s) \in Files
      /\ \A s \in Requests : pc'[s] = IF s = r THEN p ELSE pc[s]
      /\ \A s \in Requests : pc'[s] \in Uploading <=> pc[s] \in Uploading
      /\ \A s \in Requests : pc'[s] = "copy" <=> pc[s] = "copy"
      /\ \A s \in Requests : pc'[s] \in Unread => pc[s] \in Unread
  BY FileType DEF File, TypeOK, Beside, Early, Unread, Uploading
<1>2. Orphans'
  BY <1>1 DEF Orphans
<1>3. Linked'
  BY <1>1 DEF Linked, TypeOK
<1>4. Apart'
  BY <1>1 DEF Apart
<1>5. Held'
  BY <1>1 DEF Held
<1> QED
  BY <1>2, <1>3, <1>4, <1>5 DEF UploadsKept

LEMMA CreateStep ==
    ASSUME IInv, TypeOK', NEW r \in Requests, Create(r)
    PROVE  UploadsKept'
<1> USE DEF IInv
<1> DEFINE f == File(r)
           inode == IF path[f] = None THEN r ELSE path[f]
<1>1. /\ f \in Files /\ inode \in Requests /\ File(inode) = f /\ pc[r] = "create"
      /\ pc' = [pc EXCEPT ![r] = "copy"] /\ path' = [path EXCEPT ![f] = inode]
      /\ fd' = [fd EXCEPT ![r] = inode] /\ data' = [data EXCEPT ![inode] = Empty]
      /\ clash' = [s \in Requests |-> clash[s] \/ s \in Sharing(r) \/ (s = r /\ Sharing(r) # {})]
  <2>1. f \in Files
    BY FileType
  <2>2. inode \in Requests /\ File(inode) = f
    BY <2>1 DEF Linked, TypeOK
  <2> QED
    BY <2>1, <2>2 DEF Create, Goto
<1>2. \A s \in Requests : File(s)' = File(s) /\ File(s) \in Files
  BY FileType DEF Create, File
<1> HIDE DEF inode, f
<1>3. /\ \A s \in Requests : pc'[s] = IF s = r THEN "copy" ELSE pc[s]
      /\ \A g \in Files : path'[g] = IF g = f THEN inode ELSE path[g]
      /\ \A s \in Requests : fd'[s] = IF s = r THEN inode ELSE fd[s]
      /\ \A s \in Requests : data'[s] = IF s = inode THEN Empty ELSE data[s]
  BY <1>1 DEF TypeOK
<1>3a. /\ \A s \in Requests : clash[s] => clash'[s]
       /\ \A s \in Sharing(r) : s \in Requests /\ clash'[s] /\ clash'[r]
  <2>1. Sharing(r) \subseteq Requests
    BY DEF Sharing
  <2> QED
    BY <1>1, <2>1, Zenon
<1>4. \A s \in Requests \ {r} : pc[s] \in Uploading /\ File(s) = f => s \in Sharing(r)
  BY DEF Sharing, f
<1>5. "copy" \in Uploading /\ "create" \notin Uploading /\ Unread \subseteq Uploading
      /\ "copy" \notin Unread
  BY DEF Uploading, Unread
<1>6. Orphans'
  BY <1>1, <1>2, <1>3, <1>5 DEF Orphans, f
<1>7. Linked'
  BY <1>1, <1>2, <1>3 DEF Linked, TypeOK, f
<1>8. Apart'
  <2> SUFFICES ASSUME NEW s \in Requests, NEW t \in Requests, s # t, pc'[s] \in Uploading,
                      pc'[t] \in Uploading, File(s) = File(t)
               PROVE  clash'[s]
    BY <1>2 DEF Apart
  <2> QED
    BY <1>3, <1>4, <1>3a DEF Apart, f
<1>9. Held'
  <2> SUFFICES ASSUME NEW s \in Requests, ~clash'[s]
               PROVE  /\ pc'[s] = "copy" => path'[File(s)] = s /\ fd'[s] = s /\ data'[s] = Empty
                      /\ pc'[s] \in Unread => path'[File(s)] = s /\ data'[s] = s
    BY <1>2 DEF Held
  <2>1. CASE s = r
    <3>1. path[f] = None
      BY <2>1, <1>1, <1>3, <1>4, <1>5, <1>3a DEF Orphans, f
    <3> QED
      BY <2>1, <3>1, <1>1, <1>3, <1>5 DEF inode, f
  <2>2. CASE s # r /\ pc[s] \in Uploading
    <3>1. ~clash[s] /\ File(s) # f /\ s # inode
      BY <2>2, <1>1, <1>3, <1>4, <1>3a
    <3> QED
      BY <2>2, <3>1, <1>2, <1>3 DEF Held
  <2> QED
    BY <2>1, <2>2, <1>3, <1>5
<1> QED
  BY <1>6, <1>7, <1>8, <1>9 DEF UploadsKept

LEMMA CopyStep ==
    ASSUME IInv, TypeOK', NEW r \in Requests, Copy(r) \/ CopyFails(r)
    PROVE  UploadsKept'
<1> USE DEF IInv
<1>1. PICK p \in {"check", "dropupload"}, content \in Audio :
        /\ pc' = [pc EXCEPT ![r] = p] /\ data' = [data EXCEPT ![fd[r]] = content]
        /\ p = "check" => content = r \/ Mixed(r)
  BY DEF Copy, CopyFails, Goto, FailAt, Audio
<1>2. /\ pc[r] = "copy" /\ fd[r] \in Requests /\ File(fd[r]) = File(r)
      /\ UNCHANGED <<kind, name, path, clash>> /\ fd' = [fd EXCEPT ![r] = None]
  BY DEF Copy, CopyFails, Linked, TypeOK
<1>3. /\ \A s \in Requests : File(s)' = File(s) /\ File(s) \in Files
      /\ \A s \in Requests : pc'[s] = IF s = r THEN p ELSE pc[s]
      /\ \A s \in Requests : fd'[s] = IF s = r THEN None ELSE fd[s]
      /\ \A s \in Requests : data'[s] = IF s = fd[r] THEN content ELSE data[s]
  BY <1>1, <1>2, FileType DEF File, TypeOK
<1>4. /\ \A s \in Requests : pc'[s] \in Uploading <=> pc[s] \in Uploading
      /\ Unread \subseteq Uploading /\ "copy" \in Uploading
      /\ p # "copy" /\ (p \in Unread => p = "check")
  BY <1>1, <1>2, <1>3 DEF Uploading, Unread
<1>5. Orphans'
  BY <1>2, <1>3, <1>4 DEF Orphans
<1>6. Linked'
  BY <1>2, <1>3, <1>4 DEF Linked, TypeOK
<1>7. Apart'
  BY <1>2, <1>3, <1>4 DEF Apart
<1>8. Held'
  <2> SUFFICES ASSUME NEW s \in Requests, ~clash[s]
               PROVE  /\ pc'[s] = "copy" => path[File(s)] = s /\ fd'[s] = s /\ data'[s] = Empty
                      /\ pc'[s] \in Unread => path[File(s)] = s /\ data'[s] = s
    BY <1>2, <1>3 DEF Held
  <2>1. CASE s = r
    <3>1. fd[r] = r /\ data[r] = Empty /\ path[File(r)] = r
      BY <2>1, <1>2 DEF Held
    <3>2. \A t \in Requests \ {r} : ~(pc[t] = "copy" /\ fd[t] = fd[r])
      BY <2>1, <3>1, <1>2, <1>4 DEF Apart, Linked
    <3>3. ~Mixed(r)
      BY <3>1, <3>2 DEF Mixed
    <3> QED
      BY <2>1, <3>1, <3>3, <1>1, <1>3, <1>4
  <2>2. CASE s # r /\ pc[s] \in Uploading
    <3>1. File(s) # File(r) /\ s # fd[r]
      BY <2>2, <1>2, <1>4 DEF Apart
    <3> QED
      BY <2>2, <3>1, <1>3 DEF Held
  <2> QED
    BY <2>1, <2>2, <1>3, <1>4
<1> QED
  BY <1>5, <1>6, <1>7, <1>8 DEF UploadsKept

LEMMA DropUploadStep ==
    ASSUME IInv, TypeOK', NEW r \in Requests, DropUpload(r)
    PROVE  UploadsKept'
<1> USE DEF IInv
<1>1. /\ pc[r] = "dropupload" /\ pc' = [pc EXCEPT ![r] = "over"]
      /\ path' = [path EXCEPT ![File(r)] = None] /\ UNCHANGED <<kind, name, fd, data, clash>>
  BY DEF DropUpload, Goto
<1>2. /\ \A s \in Requests : File(s)' = File(s) /\ File(s) \in Files
      /\ \A s \in Requests : pc'[s] = IF s = r THEN "over" ELSE pc[s]
      /\ \A f \in Files : path'[f] = IF f = File(r) THEN None ELSE path[f]
  BY <1>1, FileType DEF File, TypeOK
<1>3. /\ "over" \notin Uploading /\ Unread \subseteq Uploading /\ "dropupload" \in Uploading
      /\ "copy" \in Uploading /\ "over" # "copy"
  BY DEF Uploading, Unread
<1>4. Orphans'
  BY <1>2, <1>3 DEF Orphans
<1>5. Linked'
  BY <1>1, <1>2, <1>3 DEF Linked, TypeOK
<1>6. Apart'
  BY <1>1, <1>2, <1>3 DEF Apart
<1>7. Held'
  <2> SUFFICES ASSUME NEW s \in Requests, s # r, ~clash[s], pc[s] \in Uploading
               PROVE  /\ pc[s] = "copy" => path'[File(s)] = s /\ fd[s] = s /\ data[s] = Empty
                      /\ pc[s] \in Unread => path'[File(s)] = s /\ data[s] = s
    BY <1>1, <1>2, <1>3 DEF Held
  <2>1. File(s) # File(r)
    BY <1>1, <1>3 DEF Apart
  <2> QED
    BY <2>1, <1>2 DEF Held
<1> QED
  BY <1>4, <1>5, <1>6, <1>7 DEF UploadsKept

LEMMA UploadsStep == ASSUME IInv, TypeOK', [Next]_vars PROVE UploadsKept'
<1> USE DEF IInv
<1>1. CASE UNCHANGED vars
  BY <1>1 DEF vars, fileVars, UploadsKept, Orphans, Linked, Apart, Held, File
<1>2. ASSUME NEW r \in Requests,
             Accept(r) \/ Refuse(r) \/ Synthesize(r) \/ SynthesizeFails(r) \/ Serve(r) \/ CreateFails(r)
      PROVE  UploadsKept'
  <2>1. PICK q \in Early : pc' = [pc EXCEPT ![r] = q]
    BY <1>2 DEF Accept, Refuse, Synthesize, SynthesizeFails, Serve, CreateFails, Goto, FailAt, Early
  <2>2. pc[r] \in Early /\ UNCHANGED <<kind, name, path, fd, data, clash>>
    BY <1>2 DEF Accept, Refuse, Synthesize, SynthesizeFails, Serve, CreateFails, Early, fileVars
  <2> QED
    BY <2>1, <2>2, FilesAlone DEF Beside
<1>3. ASSUME NEW r \in Requests,
             \/ Check(r) \/ Unreadable(r) \/ NoRecognizer(r) \/ Direct(r) \/ DirectFails(r)
             \/ Transcode(r) \/ TranscodeFails(r) \/ Join(r) \/ Shape(r) \/ ShapeFails(r) \/ DropWav(r)
      PROVE  UploadsKept'
  <2>1. PICK q \in Uploading \ {"copy"} : pc' = [pc EXCEPT ![r] = q] /\ (q \in Unread => pc[r] \in Unread)
    BY <1>3 DEF Check, Unreadable, NoRecognizer, Direct, DirectFails, Transcode, TranscodeFails, Join,
                AfterJoin, Shape, ShapeFails, DropWav, Goto, FailAt, Uploading, Unread
  <2>2. pc[r] \in Uploading \ {"copy"} /\ UNCHANGED <<kind, name, path, fd, data, clash>>
    BY <1>3 DEF Check, Unreadable, NoRecognizer, Direct, DirectFails, Transcode, TranscodeFails, Join,
                Shape, ShapeFails, DropWav, Uploading, fileVars
  <2> QED
    BY <2>1, <2>2, FilesAlone DEF Beside
<1>4. ASSUME NEW r \in Requests, NEW i \in Ensemble, LegAnswers(r, i) \/ LegFails(r, i)
      PROVE  UploadsKept'
  BY <1>4 DEF LegAnswers, LegFails, fileVars, UploadsKept, Orphans, Linked, Apart, Held, File
<1> QED
  BY <1>1, <1>2, <1>3, <1>4, CreateStep, CopyStep, DropUploadStep DEF Next, Handler, Recognizer

-----------------------------------------------------------------------------
(***************************************************************************)
(* Answers are about a request's own audio.                                *)
(***************************************************************************)
LEMMA ClashGrows ==
    ASSUME TypeOK, [Next]_vars, NEW s \in Requests, clash[s]
    PROVE  clash'[s]
<1>1. ASSUME NEW r \in Requests, Create(r) PROVE clash'[s]
  <2>1. clash' = [q \in Requests |-> clash[q] \/ q \in Sharing(r) \/ (q = r /\ Sharing(r) # {})]
    BY <1>1 DEF Create
  <2> QED
    BY <2>1, Zenon
<1>2. CASE UNCHANGED clash
  BY <1>2
<1> QED
  BY <1>1, <1>2
     DEF Next, Handler, Recognizer, vars, fileVars, Accept, Refuse, Synthesize, SynthesizeFails, Serve,
         CreateFails, Copy, CopyFails, Check, Unreadable, NoRecognizer, Direct, DirectFails, Transcode,
         TranscodeFails, LegAnswers, LegFails, Join, Shape, ShapeFails, DropWav, DropUpload

\* The upload of a request that shares its name is there, and is its own.
LEMMA OwnUpload ==
    ASSUME IInv, NEW r \in Requests, ~clash[r], pc[r] \in Unread
    PROVE  ~Missing(r) /\ Readings(r) = {r}
<1> USE DEF IInv
<1>1. path[File(r)] = r /\ data[r] = r
  BY DEF Held
<1>2. \A s \in Requests : ~(pc[s] = "copy" /\ fd[s] = r)
  BY DEF Linked, Apart, Unread, Uploading
<1> QED
  BY <1>1, <1>2 DEF Missing, Readings

LEMMA OwnAudioStep == ASSUME IInv, TypeOK', [Next]_vars PROVE OwnAudio'
<1> USE DEF IInv
<1> DEFINE Own(s) == /\ reply[s] # "unreadable"
                     /\ heard[s] \in {s, None}
                     /\ \A i \in Ensemble : text[s][i] \in {s, Empty, None}
<1> SUFFICES ASSUME NEW s \in Requests, ~clash[s], Own(s) PROVE Own(s)'
  BY ClashGrows DEF OwnAudio
<1>1. ASSUME NEW r \in Requests, Unreadable(r) PROVE Own(s)'
  <2>1. s # r
    BY <1>1, OwnUpload DEF Unreadable, Unread
  <2> QED
    BY <1>1, <2>1 DEF Unreadable, Reply, TypeOK, wavVars, legVars
<1>2. ASSUME NEW r \in Requests, Direct(r) PROVE Own(s)'
  <2>1. PICK audio \in Readings(r) : heard' = [heard EXCEPT ![r] = audio]
    BY <1>2 DEF Direct
  <2>2. s = r => audio = s
    BY <1>2, OwnUpload DEF Direct, Unread
  <2> QED
    BY <1>2, <2>1, <2>2 DEF Direct, Reply, TypeOK, legVars
<1>3. ASSUME NEW r \in Requests, Transcode(r) PROVE Own(s)'
  <2>1. PICK audio \in Readings(r) : heard' = [heard EXCEPT ![r] = audio]
    BY <1>3 DEF Transcode
  <2>2. s = r => audio = s
    BY <1>3, OwnUpload DEF Transcode, Unread
  <2> QED
    BY <1>3, <2>1, <2>2 DEF Transcode, TypeOK
<1>4. ASSUME NEW r \in Requests, NEW i \in Ensemble, LegAnswers(r, i) PROVE Own(s)'
  <2>1. PICK transcript \in {heard[r], Empty} : text' = [text EXCEPT ![r][i] = transcript]
    BY <1>4 DEF LegAnswers
  <2>2. \A j \in Ensemble : text'[s][j] \in {text[s][j], heard[s], Empty}
    BY <2>1 DEF TypeOK
  <2> QED
    BY <1>4, <2>2 DEF LegAnswers, wavVars
<1>5. ASSUME NEW r \in Requests, NEW i \in Ensemble, LegFails(r, i) PROVE Own(s)'
  BY <1>5 DEF LegFails, wavVars
<1>6. ASSUME NEW r \in Requests,
             \/ Accept(r) \/ Synthesize(r) \/ Create(r) \/ Copy(r) \/ Check(r)
      PROVE  Own(s)'
  BY <1>6 DEF Accept, Synthesize, Create, Copy, Check, wavVars, legVars
<1>7. ASSUME NEW r \in Requests,
             \/ Refuse(r) \/ SynthesizeFails(r) \/ Serve(r) \/ CreateFails(r) \/ CopyFails(r)
             \/ NoRecognizer(r) \/ DirectFails(r) \/ TranscodeFails(r)
      PROVE  Own(s)'
  BY <1>7 DEF Refuse, SynthesizeFails, Serve, CreateFails, CopyFails, NoRecognizer, DirectFails,
              TranscodeFails, FailAt, Reply, TypeOK, wavVars, legVars
<1>8. ASSUME NEW r \in Requests, Join(r) PROVE Own(s)'
  <2>1. UNCHANGED reply \/ \E how \in {"ok", "error"} : reply' = [reply EXCEPT ![r] = how]
    BY <1>8 DEF Join, AfterJoin, Reply
  <2>2. reply'[s] # "unreadable"
    BY <2>1 DEF TypeOK
  <2> QED
    BY <1>8, <2>2 DEF Join, wavVars
<1>9. ASSUME NEW r \in Requests, Shape(r) \/ ShapeFails(r) PROVE Own(s)'
  <2>1. \E how \in {"ok", "error"} : reply' = [reply EXCEPT ![r] = how]
    BY <1>9 DEF Shape, ShapeFails, FailAt, Reply
  <2>2. reply'[s] # "unreadable"
    BY <2>1 DEF TypeOK
  <2>3. heard' = [heard EXCEPT ![r] = None] /\ text' = [text EXCEPT ![r] = NoTexts]
    BY <1>9 DEF Shape, ShapeFails, Forget
  <2> QED
    BY <2>2, <2>3 DEF NoTexts, TypeOK
<1>10. ASSUME NEW r \in Requests, DropWav(r) \/ DropUpload(r) PROVE Own(s)'
  <2>1. /\ heard' = [heard EXCEPT ![r] = None] /\ text' = [text EXCEPT ![r] = NoTexts]
        /\ UNCHANGED reply
    BY <1>10 DEF DropWav, DropUpload, Forget
  <2> QED
    BY <2>1 DEF NoTexts, TypeOK
<1>11. CASE UNCHANGED vars
  BY <1>11 DEF vars, wavVars, legVars
<1> QED
  BY <1>1, <1>2, <1>3, <1>4, <1>5, <1>6, <1>7, <1>8, <1>9, <1>10, <1>11 DEF Next, Handler, Recognizer

-----------------------------------------------------------------------------
(***************************************************************************)
(* The files that requests make, and their recognizers.                    *)
(***************************************************************************)
MadeBy(r) ==
    /\ pc[r] \in {"serve", "listen", "shape"} => wav[r] = "whole"
    /\ pc[r] \in {"over", "dropupload"} => wav[r] # "whole"
    /\ pc[r] \in {"new", "synthesize", "create", "copy"} \cup Unread => wav[r] = "none"

LEMMA MadeStep == ASSUME IInv, TypeOK', [Next]_vars PROVE Made'
<1> USE DEF IInv
<1>1. ASSUME NEW r \in Requests, NEW p, NEW w, MadeBy(r), pc' = [pc EXCEPT ![r] = p],
             wav' = [wav EXCEPT ![r] = w],
             /\ p \in {"serve", "listen", "shape"} => w = "whole"
             /\ p \in {"over", "dropupload"} => w # "whole"
             /\ p \in {"new", "synthesize", "create", "copy"} \cup Unread => w = "none"
      PROVE  Made'
  BY <1>1 DEF Made, TypeOK
<1>2. ASSUME NEW r \in Requests PROVE MadeBy(r) /\ wav = [wav EXCEPT ![r] = wav[r]]
  BY DEF Made, MadeBy, TypeOK
<1>3. ASSUME NEW r \in Requests,
             \/ Accept(r) \/ Refuse(r) \/ Create(r) \/ CreateFails(r) \/ Copy(r) \/ CopyFails(r)
             \/ Check(r) \/ Unreadable(r) \/ NoRecognizer(r) \/ Direct(r) \/ DirectFails(r)
      PROVE  Made'
  <2>1. PICK p \in Unread \cup {"synthesize", "create", "copy", "over", "dropupload"} :
          pc' = [pc EXCEPT ![r] = p]
    BY <1>3 DEF Accept, Refuse, Create, CreateFails, Copy, CopyFails, Check, Unreadable, NoRecognizer,
                Direct, DirectFails, Goto, FailAt, Unread
  <2>2. pc[r] \in {"new", "create", "copy"} \cup Unread /\ UNCHANGED wav
    BY <1>3 DEF Accept, Refuse, Create, CreateFails, Copy, CopyFails, Check, Unreadable, NoRecognizer,
                Direct, DirectFails, wavVars, Unread
  <2>3. wav[r] = "none" /\ wav' = [wav EXCEPT ![r] = "none"]
    BY <2>2, <1>2 DEF MadeBy
  <2> QED
    BY <2>1, <2>3, <1>1, <1>2 DEF Unread
<1>4. ASSUME NEW r \in Requests, Synthesize(r) \/ Transcode(r) PROVE Made'
  <2>1. PICK p \in {"serve", "listen", "shape"} : pc' = [pc EXCEPT ![r] = p]
    BY <1>4 DEF Synthesize, Transcode, Goto
  <2> QED
    BY <1>4, <2>1, <1>1, <1>2 DEF Synthesize, Transcode, Unread
<1>5. ASSUME NEW r \in Requests, SynthesizeFails(r) \/ TranscodeFails(r) \/ Serve(r) PROVE Made'
  <2>1. PICK p \in {"over", "dropupload"} : pc' = [pc EXCEPT ![r] = p]
    BY <1>5 DEF SynthesizeFails, TranscodeFails, Serve, Goto, FailAt
  <2>2. PICK w \in {"none", "partial"} : wav' = [wav EXCEPT ![r] = w]
    BY <1>5 DEF SynthesizeFails, TranscodeFails, Serve
  <2> QED
    BY <2>1, <2>2, <1>1, <1>2 DEF Unread
<1>6. ASSUME NEW r \in Requests, Join(r) \/ Shape(r) \/ ShapeFails(r) PROVE Made'
  <2>1. PICK p \in {"shape", "dropwav"} : pc' = [pc EXCEPT ![r] = p]
    BY <1>6 DEF Join, AfterJoin, Shape, ShapeFails, Goto, FailAt
  <2>2. pc[r] \in {"listen", "shape"} /\ UNCHANGED wav
    BY <1>6 DEF Join, Shape, ShapeFails, wavVars
  <2>3. wav[r] = "whole" /\ wav' = [wav EXCEPT ![r] = "whole"]
    BY <2>2, <1>2 DEF MadeBy
  <2> QED
    BY <2>1, <2>3, <1>1, <1>2 DEF Unread
<1>7. ASSUME NEW r \in Requests, DropWav(r) PROVE Made'
  BY <1>7, <1>1, <1>2 DEF DropWav, Goto, Unread
<1>8. ASSUME NEW r \in Requests, DropUpload(r) PROVE Made'
  <2>1. wav[r] # "whole" /\ wav' = [wav EXCEPT ![r] = wav[r]] /\ pc' = [pc EXCEPT ![r] = "over"]
    BY <1>8, <1>2 DEF DropUpload, Goto, MadeBy
  <2> QED
    BY <2>1, <1>1, <1>2 DEF Unread
<1>9. CASE UNCHANGED <<pc, wav>>
  BY <1>9 DEF Made
<1> QED
  BY <1>3, <1>4, <1>5, <1>6, <1>7, <1>8, <1>9
     DEF Next, Handler, Recognizer, LegAnswers, LegFails, vars, wavVars

LEMMA ListeningStep == ASSUME IInv, TypeOK', [Next]_vars PROVE Listening'
<1> USE DEF IInv
<1> DEFINE Still(s) == (\A i \in Ensemble : leg[s][i] # "run") /\ given[s] = Heard(s)
<1> SUFFICES ASSUME NEW s \in Requests, pc'[s] # "listen" PROVE Still(s)'
  BY DEF Listening
<1>1. ASSUME NEW r \in Requests,
             \/ Accept(r) \/ Refuse(r) \/ Synthesize(r) \/ SynthesizeFails(r) \/ Serve(r) \/ Create(r)
             \/ CreateFails(r) \/ Copy(r) \/ CopyFails(r) \/ Check(r) \/ Unreadable(r)
             \/ NoRecognizer(r) \/ Direct(r) \/ DirectFails(r) \/ TranscodeFails(r)
      PROVE  Still(s)'
  <2>1. /\ UNCHANGED <<leg, text, given>> /\ pc[r] # "listen"
        /\ \E p : pc' = [pc EXCEPT ![r] = p]
    BY <1>1 DEF Accept, Refuse, Synthesize, SynthesizeFails, Serve, Create, CreateFails, Copy, CopyFails,
                Check, Unreadable, NoRecognizer, Direct, DirectFails, TranscodeFails, Goto, FailAt, legVars
  <2> QED
    BY <2>1 DEF Listening, Heard, TypeOK
<1>2. ASSUME NEW r \in Requests, Transcode(r) PROVE Still(s)'
  <2>1. CASE s # r
    BY <1>2, <2>1 DEF Transcode, Goto, Listening, Heard, TypeOK
  <2>2. CASE s = r
    <3>1. kind[r] = "intent"
      BY <1>2, <2>2 DEF Transcode, Goto, TypeOK
    <3>2. \A i \in Ensemble : leg'[s][i] = "off"
      BY <1>2, <2>2, <3>1 DEF Transcode, Legs, TypeOK
    <3> QED
      BY <1>2, <2>2, <3>2 DEF Transcode, Listening, Heard
  <2> QED
    BY <2>1, <2>2
<1>3. ASSUME NEW r \in Requests, NEW i \in Ensemble, LegAnswers(r, i) \/ LegFails(r, i)
      PROVE  Still(s)'
  <2>1. s # r /\ pc[s] # "listen"
    BY <1>3 DEF LegAnswers, LegFails, Listening
  <2>2. UNCHANGED <<leg[s], text[s], given[s]>>
    BY <1>3, <2>1 DEF LegAnswers, LegFails, TypeOK
  <2> QED
    BY <2>1, <2>2 DEF Listening, Heard
<1>4. ASSUME NEW r \in Requests, Join(r) PROVE Still(s)'
  <2>1. \E p : pc' = [pc EXCEPT ![r] = p]
    BY <1>4 DEF Join, AfterJoin, Goto
  <2>2. /\ \A i \in Ensemble : leg[r][i] # "run"
        /\ UNCHANGED <<leg, text>> /\ given' = [given EXCEPT ![r] = Heard(r)]
    BY <1>4 DEF Join
  <2> QED
    BY <2>1, <2>2 DEF Listening, Heard, TypeOK
<1>5. ASSUME NEW r \in Requests, Shape(r) \/ ShapeFails(r) \/ DropWav(r) \/ DropUpload(r)
      PROVE  Still(s)'
  <2>1. /\ leg' = [leg EXCEPT ![r] = NoLegs] /\ text' = [text EXCEPT ![r] = NoTexts]
        /\ given' = [given EXCEPT ![r] = {}] /\ \E p : pc' = [pc EXCEPT ![r] = p]
    BY <1>5 DEF Shape, ShapeFails, DropWav, DropUpload, Forget, Goto, FailAt
  <2>2. CASE s = r
    BY <2>1, <2>2 DEF NoLegs, NoTexts, Heard, TypeOK
  <2>3. CASE s # r
    BY <2>1, <2>3 DEF Listening, Heard, TypeOK
  <2> QED
    BY <2>2, <2>3
<1>6. CASE UNCHANGED vars
  BY <1>6 DEF vars, legVars, Listening, Heard
<1> QED
  BY <1>1, <1>2, <1>3, <1>4, <1>5, <1>6 DEF Next, Handler, Recognizer

-----------------------------------------------------------------------------
LEMMA IInvStep == IInv /\ [Next]_vars => IInv'
  BY TypeStep, UploadsStep, OwnAudioStep, MadeStep, ListeningStep DEF IInv, UploadsKept

LEMMA IInvAlways == Spec => []IInv
  BY IInvInit, IInvStep, PTL DEF Spec

(***************************************************************************)
(* Types of the node's requests and files.                                 *)
(***************************************************************************)
THEOREM TypeCorrect == Spec => []TypeOK
  BY IInvAlways, PTL DEF IInv

(***************************************************************************)
(* A request that shares its file name with no request that runs beside it *)
(* finds its upload and is answered about it, whatever other requests do.  *)
(***************************************************************************)
THEOREM OwnAudioAlways == Spec => []OwnAudio
  BY IInvAlways, PTL DEF IInv

(***************************************************************************)
(* Whoever reads a file finds it whole, and neither an aborted upload nor  *)
(* a finished file outlives its request.                                   *)
(***************************************************************************)
THEOREM FilesKeptAlways == Spec => []FilesKept
<1>1. IInv => FilesKept
  BY DEF IInv, Made, Listening, Orphans, FilesKept
<1> QED
  BY <1>1, IInvAlways, PTL

(***************************************************************************)
(* Gemma and the clients get every transcript there is, of recognizers     *)
(* that are all done.                                                      *)
(***************************************************************************)
THEOREM EnsembleFaithfulAlways == Spec => []EnsembleFaithful
<1>1. IInv => EnsembleFaithful
  BY DEF IInv, Listening, EnsembleFaithful
<1> QED
  BY <1>1, IInvAlways, PTL

-----------------------------------------------------------------------------
(***************************************************************************)
(* What Gemma's answer becomes.  The lines before the metadata hold all of *)
(* the output but the tag (Cleaned), and the words are the pieces after    *)
(* the last marker (WordsFrom).  extractGemmaFinal returns just these with *)
(* a marker (Extracts); without one the lines that are left hold words or  *)
(* nothing (WordLines), and it returns the last that is not blank          *)
(* (ExtractsLast).                                                         *)
(***************************************************************************)

\* What a part holds is in the whole.
LEMMA InConcat ==
    ASSUME NEW W, NEW s \in Seq(W), NEW u \in Seq(W), NEW p, Has(s, p) \/ Has(u, p)
    PROVE  Has(s \o u, p)
<1>1. /\ Len(s) \in Nat /\ Len(u) \in Nat /\ Len(s \o u) = Len(s) + Len(u)
      /\ \A i \in 1..(Len(s) + Len(u)) :
            (s \o u)[i] = IF i <= Len(s) THEN s[i] ELSE u[i - Len(s)]
  BY ConcatProperties, LenProperties
<1>2. CASE Has(s, p)
  <2>1. PICK i \in 1..Len(s) : s[i] = p
    BY <1>2 DEF Has
  <2>2. i \in 1..Len(s \o u) /\ (s \o u)[i] = p
    BY <1>1, <2>1
  <2> QED
    BY <2>2 DEF Has
<1>3. CASE Has(u, p)
  <2>1. PICK i \in 1..Len(u) : u[i] = p
    BY <1>3 DEF Has
  <2>2. i + Len(s) \in 1..Len(s \o u) /\ (s \o u)[i + Len(s)] = p
    BY <1>1, <2>1
  <2> QED
    BY <2>2 DEF Has
<1> QED
  BY <1>2, <1>3

\* What a line holds is in the whole.
LEMMA InLine ==
    ASSUME NEW W, NEW d \in Seq(Seq(W)), NEW k \in 1..Len(d), NEW p, Has(d[k], p)
    PROVE  Has(FlattenSeq(d), p)
<1> DEFINE a == FlattenSeq(SubSeq(d, 1, k - 1))
           b == FlattenSeq(SubSeq(d, 1, k))
           c == FlattenSeq(SubSeq(d, k + 1, Len(d)))
           line == d[k]
<1>1. Len(d) \in Nat /\ k \in 0..Len(d) /\ \A i \in 1..Len(d) : d[i] \in Seq(W)
  BY LenProperties, ElementOfSeq
<1>2. b = a \o line /\ FlattenSeq(d) = b \o c /\ line \in Seq(W)
  BY <1>1, FlattenOne, FlattenSplit
<1>3. a \in Seq(W)
  <2>1. SubSeq(d, 1, k - 1) \in Seq(Seq(W))
    BY PrefixGrows
  <2> QED
    BY <2>1, FlattenType
<1>4. c \in Seq(W)
  <2>1. \A i \in (k + 1)..Len(d) : d[i] \in Seq(W)
    BY <1>1
  <2>2. SubSeq(d, k + 1, Len(d)) \in Seq(Seq(W))
    BY <2>1, <1>1, SubSeqProperties
  <2> QED
    BY <2>2, FlattenType
<1> HIDE DEF a, b, c
<1>5. b \in Seq(W)
  BY <1>2, <1>3, ConcatProperties
<1>6. Has(b, p)
  BY <1>2, <1>3, InConcat
<1>7. Has(b \o c, p)
  BY <1>4, <1>5, <1>6, InConcat
<1> QED
  BY <1>2, <1>7

-----------------------------------------------------------------------------
\* m is the number of the last line that is not blank, or 0.
LastLine(d, m) ==
    /\ m \in 0..Len(d) /\ TrimRight(d) = SubSeq(d, 1, m)
    /\ m # 0 => d[m] # <<>>
    /\ \A i \in (m + 1)..Len(d) : d[i] = <<>>

\* There is such a line.
LEMMA TrimExists ==
    ASSUME NEW W, NEW d \in Seq(Seq(W))
    PROVE  \E m : LastLine(d, m)
<1> DEFINE S == {i \in 1..Len(d) : d[i] # <<>>}
           m == IF S # {} THEN Max(S) ELSE 0
<1>1. Len(d) \in Nat /\ S \in SUBSET (1..Len(d))
  BY LenProperties
<1>2. TrimRight(d) = SubSeq(d, 1, m)
  BY DEF TrimRight, SelectLastInSeq
<1>3. m \in 0..Len(d) /\ (m # 0 => m \in S) /\ \A i \in S : i <= m
  <2> HIDE DEF S
  <2> QED
    BY <1>1, LastOf
<1> HIDE DEF m
<1>4. ASSUME NEW i \in (m + 1)..Len(d) PROVE d[i] = <<>>
  BY <1>1, <1>3
<1> QED
  BY <1>2, <1>3, <1>4 DEF LastLine

\* Blank lines at the end hold nothing.
LEMMA TrimFlatten ==
    ASSUME NEW W, NEW d \in Seq(Seq(W)), NEW m, LastLine(d, m)
    PROVE  FlattenSeq(d) = FlattenSeq(SubSeq(d, 1, m))
<1> DEFINE a == FlattenSeq(SubSeq(d, 1, m))
           e == SubSeq(d, m + 1, Len(d))
<1>1. Len(d) \in Nat /\ m \in 0..Len(d) /\ \A i \in 1..Len(d) : d[i] \in Seq(W)
  BY LenProperties, ElementOfSeq DEF LastLine
<1>2. FlattenSeq(d) = a \o FlattenSeq(e)
  BY <1>1, FlattenSplit
<1>3. \A i \in (m + 1)..Len(d) : d[i] \in Seq(W) /\ d[i] = <<>>
  BY <1>1 DEF LastLine
<1>4. e \in Seq(Seq(W)) /\ \A i \in 1..Len(e) : e[i] = <<>>
  <2> DEFINE j == m + 1
             n == Len(d)
  <2>1. j \in Int /\ n \in Int /\ \A i \in j..n : d[i] \in Seq(W)
    BY <1>1, <1>3
  <2>2. \A i \in j..n : d[i] = <<>>
    BY <1>3
  <2>3. e = SubSeq(d, j, n)
    OBVIOUS
  <2> HIDE DEF j, n, e
  <2>4. /\ e \in Seq(Seq(W))
        /\ Len(e) = IF j <= n THEN n - j + 1 ELSE 0
        /\ \A i \in 1..(n - j + 1) : e[i] = d[j + i - 1]
    BY <2>1, <2>3, SubSeqProperties
  <2>5. ASSUME NEW i \in 1..Len(e) PROVE e[i] = <<>>
    <3>1. i \in 1..(n - j + 1) /\ j + i - 1 \in j..n
      BY <2>1, <2>4
    <3> QED
      BY <3>1, <2>2, <2>4
  <2> QED
    BY <2>4, <2>5
<1>5. a \in Seq(W)
  <2>1. \A i \in 1..m : d[i] \in Seq(W)
    BY <1>1
  <2>2. SubSeq(d, 1, m) \in Seq(Seq(W))
    BY <2>1, <1>1, SubSeqProperties
  <2> QED
    BY <2>2, FlattenType
<1> HIDE DEF a, e
<1>6. FlattenSeq(e) = <<>>
  BY <1>4, FlattenBlank
<1>7. a \o <<>> = a
  BY <1>5, ConcatEmptySeq
<1> QED
  BY <1>2, <1>6, <1>7 DEF a

Said(said, p) == IF p = "words" THEN Append(said, p) ELSE said

\* What was said stays a sequence of pieces.
LEMMA SaidType == \A v \in Seq(Piece), x \in Piece : Said(v, x) \in Seq(Piece)
  BY AppendProperties DEF Said

\* The words of an output whose pieces are words from one place to another only.
LEMMA WordsBetween ==
    ASSUME NEW raw, NEW p \in Seq(Piece), p = FlattenSeq(raw),
           NEW a \in Nat, NEW e \in Nat, a <= e, e <= Len(p),
           \A j \in 1..Len(p) : p[j] = "words" <=> a < j /\ j <= e
    PROVE  Words(raw) = SubSeq(p, a + 1, e)
<1> DEFINE n == Len(p)
           V == Seq(Piece)
           F == [vx \in V \X Piece |-> Said(vx[1], vx[2])]
           rec(it) == [S \in SUBSET DOMAIN p |->
             IF S = {} THEN <<>> ELSE Said(it[S \ {Max(S)}], p[Max(S)])]
           c == CHOOSE it : it = rec(it)
<1>1. n \in Nat /\ DOMAIN p = 1..n /\ \A k \in 1..n : p[k] \in Piece
  BY LenProperties, ElementOfSeq
<1>2. \A v \in V, x \in Piece : F[<<v, x>>] = Said(v, x)
  OBVIOUS
<1>3. \A S \in SUBSET (1..n) : S # {} => Max(S) \in 1..n
  BY <1>1, MaxUpTo
<1>4. Foldable(V, Piece, F, <<>>, p, n)
  <2> HIDE DEF F, n
  <2>1. <<>> \in V
    BY EmptySeq
  <2> QED
    BY <2>1, <1>1, <1>2, SaidType DEF Foldable
<1>5. PICK it \in [SUBSET (1..n) -> V] : IsFold(F, <<>>, p, n, it)
  <2> HIDE DEF F, n, V
  <2> QED
    BY <1>4, FoldExists
<1>6. it = rec(it)
  <2> HIDE DEF F, V
  <2>1. ASSUME NEW S \in SUBSET (1..n), S # {}
        PROVE  it[S] = Said(it[S \ {Max(S)}], p[Max(S)])
    <3>1. it[S \ {Max(S)}] \in V /\ p[Max(S)] \in Piece
      BY <2>1, <1>3, <1>5, <1>1
    <3> QED
      BY <2>1, <1>5, <3>1, <1>2 DEF IsFold
  <2>2. it[{}] = <<>>
    BY <1>5 DEF IsFold
  <2> QED
    BY <1>1, <2>1, <2>2
<1>7. c = rec(c)
  <2> HIDE DEF rec
  <2> QED
    BY <1>6
<1>8. Words(raw) = c[1..n]
  BY <1>1 DEF Words, FoldLeft, MapThenFoldSet, Said
<1> HIDE DEF c
<1>9. c[{}] = <<>>
  BY <1>1, <1>7
<1>10. \A S \in SUBSET (1..n) :
         S # {} => c[S] = Said(c[S \ {Max(S)}], p[Max(S)])
  BY <1>1, <1>7
<1>11. Advances(V, F, <<>>, p, n, c)
  <2> HIDE DEF F, n, V
  <2> QED
    BY <1>1, <1>2, <1>3, <1>9, <1>10 DEF Advances
<1> HIDE DEF rec
<1>12. PICK G : Reaches(V, F, <<>>, p, n, G) /\ G[n] = c[1..n]
  <2> HIDE DEF n, V, F
  <2> QED
    BY <1>4, <1>11, FoldSteps
<1>13. ASSUME NEW k \in 1..n PROVE G[k] = Said(G[k - 1], p[k])
  <2> HIDE DEF F
  <2>1. k - 1 \in 0..n
    BY <1>1
  <2> HIDE DEF n
  <2>2. G[k - 1] \in V
    BY <2>1, <1>12 DEF Reaches
  <2> QED
    BY <2>2, <1>12, <1>1, <1>2 DEF Reaches
<1>14. G[0] = <<>>
  BY <1>12 DEF Reaches
<1> HIDE DEF F
<1> DEFINE upto(k) == IF k <= e THEN k ELSE e
           T == {k \in 0..n : G[k] = SubSeq(p, a + 1, upto(k))}
<1>15. 0 \in T
  <2>1. 0 \in 0..n /\ upto(0) = 0
    BY <1>1
  <2>2. SubSeq(p, a + 1, 0) = <<>>
    BY SubSeqEmpty
  <2> QED
    BY <2>1, <2>2, <1>14
<1>16. ASSUME NEW k \in 1..n, k - 1 \in T PROVE k \in T
  <2>1. G[k - 1] = SubSeq(p, a + 1, upto(k - 1)) /\ k \in 0..n
    BY <1>16, <1>1
  <2>2. G[k] = Said(SubSeq(p, a + 1, upto(k - 1)), p[k])
    BY <2>1, <1>13
  <2>3. CASE a < k /\ k <= e
    <3>1. upto(k) = k /\ upto(k - 1) = k - 1 /\ p[k] = "words"
      BY <2>3, <1>1
    <3>2. SubSeq(p, a + 1, k) = Append(SubSeq(p, a + 1, k - 1), p[k])
      <4>1. a + 1 \in 1..(n + 1) /\ k \in (a + 1)..n
        BY <2>3, <1>1
      <4>2. SubSeq(p, a + 1, k) = SubSeq(p, a + 1, k - 1) \o <<p[k]>>
        BY <4>1, <1>1, SubSeqRecursiveSecond
      <4>3. SubSeq(p, a + 1, k - 1) \in Seq(Piece)
        <5>1. \A i \in (a + 1)..(k - 1) : p[i] \in Piece
          BY <1>1
        <5> QED
          BY <5>1, <1>1, SubSeqProperties
      <4>4. p[k] \in Piece
        BY <1>1
      <4> QED
        BY <4>2, <4>3, <4>4, AppendIsConcat
    <3> QED
      BY <3>1, <3>2, <2>1, <2>2 DEF Said
  <2>4. CASE k <= a
    <3>1. upto(k) = k /\ upto(k - 1) = k - 1 /\ p[k] # "words"
      BY <2>4, <1>1
    <3>2. SubSeq(p, a + 1, k) = <<>> /\ SubSeq(p, a + 1, k - 1) = <<>>
      <4>1. a + 1 > k /\ a + 1 > k - 1 /\ a + 1 \in Int /\ k \in Int /\ k - 1 \in Int
        BY <2>4, <1>1
      <4> QED
        BY <4>1, SubSeqEmpty
    <3> QED
      BY <3>1, <3>2, <2>1, <2>2 DEF Said
  <2>5. CASE e < k
    <3>1. upto(k) = e /\ upto(k - 1) = e /\ p[k] # "words"
      BY <2>5, <1>1
    <3> QED
      BY <3>1, <2>1, <2>2 DEF Said
  <2> QED
    BY <2>3, <2>4, <2>5, <1>1
<1>17. n \in T
  <2>1. n \in 0..n
    BY <1>1
  <2> HIDE DEF T, n
  <2>2. \A k \in 0..n : k \in T
    BY <1>1, <1>15, <1>16, UpTo
  <2> QED
    BY <2>1, <2>2
<1>18. upto(n) = e
  <2>1. e <= n /\ n \in Nat
    BY <1>1
  <2> HIDE DEF n
  <2> QED
    BY <2>1
<1> QED
  BY <1>8, <1>12, <1>17, <1>18

\* What WellFormed says of the pieces p of an output.
Form(raw, p) ==
    /\ Has(p, "words")
    /\ \A i \in 1..Len(p) : p[i] = "tag" => i = Len(p) /\ Last(TrimRight(raw)) = <<"tag">>
    /\ \A i \in 1..Len(p) : p[i] = "think" => \E j \in 1..Len(p) : p[j] = "close" /\ i < j
    /\ \A i, j \in 1..Len(p) : p[i] = "words" /\ p[j] = "close" => j < i

\* WellFormed, with its sets of places written out.
LEMMA WellFormedForm ==
    ASSUME NEW raw, NEW p, p = FlattenSeq(raw), WellFormed(raw)
    PROVE  Form(raw, p)
<1> DEFINE at(x) == {i \in 1..Len(p) : p[i] = x}
<1>1. /\ at("words") # {}
      /\ at("tag") # {} => at("tag") = {Len(p)} /\ Last(TrimRight(raw)) = <<"tag">>
      /\ \A i \in at("think") : \E j \in at("close") : i < j
      /\ \A i \in at("words"), j \in at("close") : j < i
  <2>1. WellFormed(raw)
    OBVIOUS
  <2> QED
    BY <2>1 DEF WellFormed
<1>2. \A x : \A i \in 1..Len(p) : p[i] = x <=> i \in at(x)
  OBVIOUS
<1>3. \A x : at(x) # {} <=> Has(p, x)
  BY DEF Has
<1>4. \A x : \A i \in at(x) : i \in 1..Len(p) /\ p[i] = x
  OBVIOUS
<1> HIDE DEF at
<1>5. ASSUME NEW i \in 1..Len(p), p[i] = "tag"
      PROVE  i = Len(p) /\ Last(TrimRight(raw)) = <<"tag">>
  BY <1>1, <1>2, <1>5
<1>6. ASSUME NEW i \in 1..Len(p), p[i] = "think"
      PROVE  \E j \in 1..Len(p) : p[j] = "close" /\ i < j
  BY <1>1, <1>2, <1>4, <1>6
<1>7. \A i, j \in 1..Len(p) : p[i] = "words" /\ p[j] = "close" => j < i
  BY <1>1, <1>2
<1>8. Has(p, "words")
  BY <1>1, <1>3
<1> QED
  BY <1>5, <1>6, <1>7, <1>8 DEF Form

\* The lines of d that are left are the first k, and hold q.
Cleaned(d, p, k, q) ==
    /\ k \in 0..Len(d) /\ StripMetaLine(d) = SubSeq(d, 1, k)
    /\ q = FlattenSeq(SubSeq(d, 1, k)) /\ q \in Seq(Piece)
    /\ ~Has(q, "tag")
    /\ p = q \/ p = q \o <<"tag">>

\* stripMetaLine leaves the lines before the metadata.
LEMMA Strips ==
    ASSUME NEW raw \in Output, NEW p, p = FlattenSeq(raw), Form(raw, p)
    PROVE  \E k, q : Cleaned(raw, p, k, q)
<1>1. PICK m : LastLine(raw, m)
  BY TrimExists DEF Output
<1>2. Len(raw) \in Nat /\ m \in 0..Len(raw) /\ \A i \in 1..Len(raw) : raw[i] \in Seq(Piece)
  BY <1>1, LenProperties, ElementOfSeq DEF LastLine, Output
<1>3. p \in Seq(Piece) /\ Len(p) \in Nat
  BY FlattenType, LenProperties DEF Output
<1> DEFINE lines == SubSeq(raw, 1, m)
<1>4. /\ lines \in Seq(Seq(Piece)) /\ Len(lines) = m
      /\ \A i \in 1..m : lines[i] = raw[i]
  <2>1. \A i \in 1..m : raw[i] \in Seq(Piece)
    BY <1>2
  <2>2. /\ lines \in Seq(Seq(Piece)) /\ Len(lines) = IF 1 <= m THEN m - 1 + 1 ELSE 0
        /\ \A i \in 1..(m - 1 + 1) : lines[i] = raw[1 + i - 1]
    BY <2>1, <1>2, SubSeqProperties
  <2> HIDE DEF lines
  <2> QED
    BY <2>2, <1>2
<1>5. TrimRight(raw) = lines
  BY <1>1 DEF LastLine
<1>6. p = FlattenSeq(lines)
  BY <1>1, TrimFlatten DEF Output
<1> HIDE DEF lines
<1> DEFINE from == IF m > 1 THEN m - 1 ELSE 1
           S == {i \in from..m : Has(lines[i], "tag")}
<1>7. StripMetaLine(raw) =
        LET tagged == IF S # {} THEN Max(S) ELSE 0
        IN  IF tagged = 0 THEN raw ELSE RemoveAt(lines, tagged)
  <2> DEFINE had(l, n) == {i \in (IF n > 1 THEN n - 1 ELSE 1)..n : Has(l[i], "tag")}
             strip(l, n) == LET tagged == IF had(l, n) # {} THEN Max(had(l, n)) ELSE 0
                            IN  IF tagged = 0 THEN raw ELSE RemoveAt(l, tagged)
  <2>1. StripMetaLine(raw) = strip(TrimRight(raw), Len(TrimRight(raw)))
    BY DEF StripMetaLine, SelectLastInSubSeq
  <2>2. had(lines, m) = S
    OBVIOUS
  <2>3. strip(lines, m) =
          LET tagged == IF S # {} THEN Max(S) ELSE 0
          IN  IF tagged = 0 THEN raw ELSE RemoveAt(lines, tagged)
    <3> HIDE DEF had, S
    <3> QED
      BY <2>2
  <2>4. TrimRight(raw) = lines /\ Len(TrimRight(raw)) = m
    BY <1>4, <1>5
  <2> HIDE DEF strip, S
  <2> QED
    BY <2>1, <2>3, <2>4
<1>8. S \in SUBSET (1..m)
  BY <1>2
<1>9. CASE Has(p, "tag")
  <2>1. lines[m] = <<"tag">>
    BY <1>9, <1>4, <1>5 DEF Form, Has, Last
  <2>2. m # 0
    <3>1. CASE m = 0
      <4>1. lines = <<>>
        BY <3>1, <1>4, EmptySeq
      <4>2. p = <<>>
        BY <4>1, <1>6, FlattenEmpty
      <4> QED
        BY <4>2, <1>9, EmptySeq DEF Has
    <3> QED
      BY <3>1
  <2>3. m \in S
    <3>1. Has(<<"tag">>, "tag")
      BY DEF Has
    <3>2. m \in from..m
      BY <2>2, <1>2
    <3> QED
      BY <3>1, <3>2, <2>1
  <2>4. Max(S) = m
    <3>1. m \in Nat
      BY <1>2
    <3> HIDE DEF S
    <3>2. Max(S) \in S /\ \A i \in S : Max(S) >= i
      BY <3>1, <2>3, <1>8, MaxUpTo
    <3>3. Max(S) \in 1..m /\ Max(S) >= m
      BY <3>2, <2>3, <1>8
    <3> QED
      BY <3>1, <3>3
  <2>5. StripMetaLine(raw) = SubSeq(lines, 1, m - 1)
    <3>1. StripMetaLine(raw) = RemoveAt(lines, m)
      <4> HIDE DEF S
      <4> QED
        BY <1>7, <2>2, <2>3, <2>4
    <3>2. RemoveAt(lines, m) = SubSeq(lines, 1, m - 1) \o SubSeq(lines, m + 1, m)
      BY <1>4 DEF RemoveAt
    <3>3. SubSeq(lines, m + 1, m) = <<>>
      BY <1>2, SubSeqEmpty
    <3>4. SubSeq(lines, 1, m - 1) \in Seq(Seq(Piece))
      BY <1>2, <1>4, <2>2, PrefixGrows
    <3>5. SubSeq(lines, 1, m - 1) \o <<>> = SubSeq(lines, 1, m - 1)
      BY <3>4, ConcatEmptySeq
    <3> QED
      BY <3>1, <3>2, <3>3, <3>5
  <2>6. SubSeq(lines, 1, m - 1) = SubSeq(raw, 1, m - 1)
    <3>1. \A i \in 1..(m - 1) : raw[i] = lines[i]
      BY <1>2, <1>4
    <3> QED
      BY <3>1, <1>2, <1>4, SamePrefix DEF Output
  <2> DEFINE k == m - 1
             q == FlattenSeq(SubSeq(raw, 1, k))
  <2>7. k \in 0..Len(raw) /\ m \in 1..Len(lines)
    BY <1>2, <1>4, <2>2
  <2>8. q \in Seq(Piece)
    <3>1. SubSeq(lines, 1, k) \in Seq(Seq(Piece))
      BY <1>4, <2>7, PrefixGrows
    <3> QED
      BY <3>1, <2>6, FlattenType
  <2>9. p = q \o <<"tag">>
    <3>1. SubSeq(lines, 1, m) = lines
      BY <1>4, SubSeqFull
    <3>2. FlattenSeq(SubSeq(lines, 1, m)) = FlattenSeq(SubSeq(lines, 1, m - 1)) \o lines[m]
      BY <1>4, <2>7, FlattenOne
    <3> QED
      BY <3>1, <3>2, <1>6, <2>1, <2>6
  <2> HIDE DEF q, k
  <2>10. ~Has(q, "tag")
    <3> SUFFICES ASSUME NEW i \in 1..Len(q), q[i] = "tag" PROVE FALSE
      BY DEF Has
    <3>1. <<"tag">> \in Seq(Piece) /\ Len(<<"tag">>) = 1
      BY DEF Piece
    <3>2. Len(p) = Len(q) + 1 /\ p[i] = q[i] /\ Len(q) \in Nat
      BY <2>8, <2>9, <3>1, ConcatProperties, LenProperties
    <3>3. i \in 1..Len(p) /\ i # Len(p)
      BY <3>2
    <3> QED
      BY <3>2, <3>3 DEF Form
  <2>11. StripMetaLine(raw) = SubSeq(raw, 1, k) /\ q = FlattenSeq(SubSeq(raw, 1, k))
    BY <2>5, <2>6 DEF k, q
  <2> QED
    BY <2>7, <2>8, <2>9, <2>10, <2>11 DEF Cleaned
<1>10. CASE ~Has(p, "tag")
  <2>1. S = {}
    <3>1. ASSUME NEW i \in S PROVE FALSE
      <4>1. i \in 1..Len(lines) /\ Has(lines[i], "tag")
        BY <1>8, <1>4
      <4>2. Has(p, "tag")
        BY <4>1, <1>4, <1>6, InLine
      <4> QED
        BY <4>2, <1>10
    <3> QED
      BY <3>1
  <2>2. StripMetaLine(raw) = raw
    <3> HIDE DEF S
    <3> QED
      BY <2>1, <1>7
  <2>3. SubSeq(raw, 1, Len(raw)) = raw
    BY SubSeqFull DEF Output
  <2> QED
    <3>1. Len(raw) \in 0..Len(raw)
      BY <1>2
    <3> QED
      BY <3>1, <1>3, <1>10, <2>2, <2>3 DEF Cleaned
<1> QED
  BY <1>9, <1>10

\* The place of the last marker of q, or 0.
LastClose(q, a) ==
    /\ a \in 0..Len(q) /\ a = SelectLastInSeq(q, LAMBDA p : p = "close")
    /\ a # 0 => q[a] = "close"
    /\ \A j \in 1..Len(q) : q[j] = "close" => j <= a

\* There is such a place.
LEMMA CloseExists ==
    ASSUME NEW W, NEW q \in Seq(W)
    PROVE  \E a : LastClose(q, a)
<1> DEFINE S == {i \in 1..Len(q) : q[i] = "close"}
           a == IF S # {} THEN Max(S) ELSE 0
<1>1. Len(q) \in Nat /\ S \in SUBSET (1..Len(q))
  BY LenProperties
<1>2. a = SelectLastInSeq(q, LAMBDA p : p = "close")
  BY DEF SelectLastInSeq
<1>3. a \in 0..Len(q) /\ (a # 0 => a \in S) /\ \A i \in S : i <= a
  <2> HIDE DEF S
  <2> QED
    BY <1>1, LastOf
<1> HIDE DEF a
<1> QED
  BY <1>2, <1>3 DEF LastClose

\* Where the words are: from the last marker to the metadata.
LEMMA WordsFrom ==
    ASSUME NEW raw, NEW p \in Seq(Piece), Form(raw, p), NEW k, NEW q, Cleaned(raw, p, k, q),
           NEW a, LastClose(q, a)
    PROVE  /\ a < Len(q) /\ Len(q) <= Len(p)
           /\ \A j \in 1..Len(q) : q[j] = p[j]
           /\ \A j \in 1..Len(p) : p[j] = "words" <=> a < j /\ j <= Len(q)
           /\ Has(p, "close") <=> a # 0
<1>1. /\ Len(q) \in Nat /\ Len(p) \in Nat /\ a \in 0..Len(q) /\ q \in Seq(Piece)
      /\ \A j \in 1..Len(p) : p[j] \in Piece
  BY LenProperties, ElementOfSeq DEF LastClose, Cleaned
<1>2. /\ Len(q) <= Len(p) /\ \A j \in 1..Len(q) : q[j] = p[j]
      /\ \A j \in 1..Len(p) : j > Len(q) => p[j] = "tag"
  <2>1. CASE p = q
    BY <2>1, <1>1
  <2>2. CASE p = q \o <<"tag">>
    <3>1. <<"tag">> \in Seq(Piece) /\ Len(<<"tag">>) = 1
      BY DEF Piece
    <3>2. /\ Len(p) = Len(q) + 1
          /\ \A i \in 1..(Len(q) + 1) : p[i] = IF i <= Len(q) THEN q[i] ELSE <<"tag">>[i - Len(q)]
      BY <1>1, <2>2, <3>1, ConcatProperties
    <3>3. ASSUME NEW j \in 1..Len(p), j > Len(q) PROVE p[j] = "tag"
      <4>1. j - Len(q) = 1
        BY <1>1, <3>2, <3>3
      <4> QED
        BY <1>1, <3>2, <3>3, <4>1
    <3> QED
      BY <1>1, <3>2, <3>3
  <2> QED
    BY <2>1, <2>2 DEF Cleaned
<1>3. ASSUME NEW j \in 1..Len(p), p[j] = "close" PROVE j <= a
  <2>1. j \in 1..Len(q)
    BY <1>1, <1>2, <1>3
  <2> QED
    BY <2>1, <1>2, <1>3 DEF LastClose
<1>4. a # 0 => a \in 1..Len(p) /\ p[a] = "close"
  <2>1. a # 0 => a \in 1..Len(q) /\ q[a] = "close"
    BY <1>1 DEF LastClose
  <2> QED
    BY <2>1, <1>1, <1>2
<1>5. ASSUME NEW j \in 1..Len(p), p[j] = "words" PROVE a < j /\ j <= Len(q)
  <2>1. j <= Len(q)
    BY <1>1, <1>2, <1>5
  <2>2. a < j
    BY <1>1, <1>4, <1>5 DEF Form
  <2> QED
    BY <2>1, <2>2
<1>6. ASSUME NEW j \in 1..Len(p), a < j, j <= Len(q) PROVE p[j] = "words"
  <2>1. p[j] # "close"
    BY <1>1, <1>3, <1>6
  <2>2. p[j] # "think"
    <3> SUFFICES ASSUME p[j] = "think" PROVE FALSE
      OBVIOUS
    <3>1. PICK i \in 1..Len(p) : p[i] = "close" /\ j < i
      BY DEF Form
    <3>2. i <= a
      BY <3>1, <1>3
    <3> QED
      BY <3>1, <3>2, <1>1, <1>6
  <2>3. p[j] # "tag"
    <3>1. j \in 1..Len(q) /\ q[j] = p[j]
      BY <1>1, <1>2, <1>6
    <3> QED
      BY <3>1 DEF Cleaned, Has
  <2> QED
    BY <1>1, <2>1, <2>2, <2>3 DEF Piece
<1>7. a < Len(q)
  <2>1. PICK i \in 1..Len(p) : p[i] = "words"
    BY DEF Form, Has
  <2> QED
    BY <2>1, <1>1, <1>5
<1>8. Has(p, "close") <=> a # 0
  <2>1. Has(p, "close") => a # 0
    BY <1>1, <1>3 DEF Has
  <2>2. a # 0 => Has(p, "close")
    BY <1>4 DEF Has
  <2> QED
    BY <2>1, <2>2
<1> QED
  BY <1>2, <1>5, <1>6, <1>7, <1>8

\* What is left after the metadata and the reasoning.
LEMMA Extracts ==
    ASSUME NEW raw \in Output, NEW p, NEW k, NEW q, Cleaned(raw, p, k, q),
           NEW a, LastClose(q, a), a # 0
    PROVE  ExtractGemmaFinal(SubSeq(raw, 1, k)) = SubSeq(q, a + 1, Len(q))
<1>1. q = FlattenSeq(SubSeq(raw, 1, k))
  BY DEF Cleaned
<1>2. a = SelectLastInSeq(q, LAMBDA x : x = "close")
  BY DEF LastClose
<1> QED
  BY <1>1, <1>2 DEF ExtractGemmaFinal

\* Without a marker every line that is left and not blank has words, and none after them has.
LEMMA WordLines ==
    ASSUME NEW raw \in Output, NEW p, p = FlattenSeq(raw), NEW k, NEW q, Cleaned(raw, p, k, q),
           Len(q) <= Len(p),
           \A j \in 1..Len(q) : q[j] = p[j],
           \A j \in 1..Len(p) : p[j] = "words" <=> j <= Len(q)
    PROVE  \A i \in 1..Len(raw) : Has(raw[i], "words") <=> i <= k /\ raw[i] # <<>>
<1> DEFINE d == SubSeq(raw, 1, k)
           e == SubSeq(raw, k + 1, Len(raw))
           b == FlattenSeq(e)
<1>1. /\ k \in 0..Len(raw) /\ Len(raw) \in Nat /\ \A i \in 1..Len(raw) : raw[i] \in Seq(Piece)
      /\ q \in Seq(Piece) /\ Len(q) \in Nat /\ q = FlattenSeq(d)
  BY LenProperties, ElementOfSeq DEF Cleaned, Output
<1>2. /\ d \in Seq(Seq(Piece)) /\ Len(d) = k
      /\ \A i \in 1..k : d[i] = raw[i]
  <2>1. \A i \in 1..k : raw[i] \in Seq(Piece)
    BY <1>1
  <2>2. /\ d \in Seq(Seq(Piece)) /\ Len(d) = IF 1 <= k THEN k - 1 + 1 ELSE 0
        /\ \A i \in 1..(k - 1 + 1) : d[i] = raw[1 + i - 1]
    BY <2>1, <1>1, SubSeqProperties
  <2> HIDE DEF d
  <2> QED
    BY <2>2, <1>1
<1>3. /\ e \in Seq(Seq(Piece)) /\ Len(e) = Len(raw) - k
      /\ \A i \in (k + 1)..Len(raw) : i - k \in 1..Len(e) /\ e[i - k] = raw[i]
  <2>1. \A i \in (k + 1)..Len(raw) : raw[i] \in Seq(Piece)
    BY <1>1
  <2> DEFINE f == k + 1
             n == Len(raw)
  <2>2. f \in Int /\ n \in Int /\ e = SubSeq(raw, f, n) /\ \A i \in f..n : raw[i] \in Seq(Piece)
    BY <1>1, <2>1
  <2> HIDE DEF e, f, n
  <2>3. /\ e \in Seq(Seq(Piece)) /\ Len(e) = IF f <= n THEN n - f + 1 ELSE 0
        /\ \A i \in 1..(n - f + 1) : e[i] = raw[f + i - 1]
    BY <2>2, SubSeqProperties
  <2>4. f = k + 1 /\ n = Len(raw)
    BY DEF f, n
  <2>5. Len(e) = Len(raw) - k
    BY <1>1, <2>3, <2>4
  <2>6. ASSUME NEW i \in (k + 1)..Len(raw) PROVE i - k \in 1..Len(e) /\ e[i - k] = raw[i]
    <3>1. i - k \in 1..(n - f + 1) /\ f + (i - k) - 1 = i /\ i - k \in 1..Len(e)
      BY <1>1, <2>4, <2>5
    <3> QED
      BY <2>3, <3>1
  <2> QED
    BY <2>3, <2>5, <2>6
<1>4. p = q \o b
  <2> HIDE DEF d, e, b
  <2>1. FlattenSeq(raw) = FlattenSeq(SubSeq(raw, 1, k)) \o FlattenSeq(SubSeq(raw, k + 1, Len(raw)))
    BY <1>1, FlattenSplit DEF Output
  <2> QED
    BY <1>1, <2>1 DEF d, e, b
<1>5. b \in Seq(Piece)
  BY <1>3, FlattenType
<1> HIDE DEF d, e, b
<1>6. ASSUME NEW i \in 1..Len(raw), i <= k, raw[i] # <<>> PROVE Has(raw[i], "words")
  <2>1. raw[i] \in Seq(Piece) /\ i \in 1..Len(d) /\ d[i] = raw[i]
    BY <1>1, <1>2, <1>6
  <2>2. Len(raw[i]) \in Nat /\ Len(raw[i]) # 0
    BY <1>6, <2>1, EmptySeq, LenProperties
  <2>3. 1 \in 1..Len(raw[i])
    BY <2>2
  <2>4. \A x : Has(d[i], x) => Has(q, x)
    BY <1>1, <1>2, <2>1, InLine
  <2>5. Has(q, raw[i][1])
    BY <2>1, <2>3, <2>4 DEF Has
  <2>6. \A j \in 1..Len(q) : q[j] = "words"
    <3> SUFFICES ASSUME NEW j \in 1..Len(q) PROVE q[j] = "words"
      OBVIOUS
    <3>1. Len(p) \in Nat
      BY FlattenType, LenProperties DEF Output
    <3>2. j \in 1..Len(p) /\ j <= Len(q)
      BY <1>1, <3>1
    <3> QED
      BY <3>2
  <2> QED
    BY <2>3, <2>5, <2>6 DEF Has
<1>7. ASSUME NEW i \in 1..Len(raw), Has(raw[i], "words") PROVE i <= k /\ raw[i] # <<>>
  <2>1. raw[i] # <<>>
    BY <1>7, EmptySeq DEF Has
  <2>2. CASE i > k
    <3>1. i - k \in 1..Len(e) /\ e[i - k] = raw[i]
      BY <1>1, <1>3, <2>2
    <3>2. Has(b, "words")
      BY <1>3, <1>7, <3>1, InLine DEF b
    <3>3. PICK j \in 1..Len(b) : b[j] = "words"
      BY <3>2 DEF Has
    <3>4. Len(b) \in Nat /\ Len(p) = Len(q) + Len(b)
          /\ \A x \in 1..(Len(q) + Len(b)) : p[x] = IF x <= Len(q) THEN q[x] ELSE b[x - Len(q)]
      BY <1>1, <1>4, <1>5, ConcatProperties, LenProperties
    <3>5. Len(q) + j \in 1..Len(p) /\ Len(q) + j > Len(q) /\ (Len(q) + j) - Len(q) = j
      BY <1>1, <3>3, <3>4
    <3>6. p[Len(q) + j] = "words"
      BY <1>1, <3>3, <3>4, <3>5
    <3> QED
      BY <1>1, <3>3, <3>5, <3>6
  <2> QED
    BY <1>1, <2>1, <2>2
<1> QED
  BY <1>6, <1>7

\* Without a marker, what is left is the last line of words.
LEMMA ExtractsLast ==
    ASSUME NEW raw \in Output, NEW p, p = FlattenSeq(raw), NEW k, NEW q, Cleaned(raw, p, k, q),
           LastClose(q, 0), q # <<>>,
           \A i \in 1..Len(raw) : Has(raw[i], "words") <=> i <= k /\ raw[i] # <<>>
    PROVE  /\ ExtractGemmaFinal(SubSeq(raw, 1, k)) = LastWords(raw)
           /\ LastWords(raw) # <<>>
<1> DEFINE d == SubSeq(raw, 1, k)
<1>3. /\ k \in 0..Len(raw) /\ Len(raw) \in Nat /\ \A i \in 1..Len(raw) : raw[i] \in Seq(Piece)
  BY LenProperties, ElementOfSeq DEF Cleaned, Output
<1>4. /\ d \in Seq(Seq(Piece)) /\ Len(d) = k
      /\ \A i \in 1..k : d[i] = raw[i]
  <2>1. \A i \in 1..k : raw[i] \in Seq(Piece)
    BY <1>3
  <2>2. /\ d \in Seq(Seq(Piece)) /\ Len(d) = IF 1 <= k THEN k - 1 + 1 ELSE 0
        /\ \A i \in 1..(k - 1 + 1) : d[i] = raw[1 + i - 1]
    BY <2>1, <1>3, SubSeqProperties
  <2> HIDE DEF d
  <2> QED
    BY <2>2, <1>3
<1>5. q = FlattenSeq(d)
  BY DEF Cleaned
<1> HIDE DEF d
<1>6. ExtractGemmaFinal(d) = Last(TrimRight(d))
  <2>1. 0 = SelectLastInSeq(q, LAMBDA x : x = "close")
    BY DEF LastClose
  <2> QED
    BY <1>5, <2>1 DEF ExtractGemmaFinal
<1>7. PICK m : LastLine(d, m)
  BY <1>4, TrimExists
<1>8. /\ m \in 0..k /\ TrimRight(d) = SubSeq(d, 1, m) /\ (m # 0 => d[m] # <<>>)
      /\ \A i \in (m + 1)..k : d[i] = <<>>
  BY <1>7, <1>4 DEF LastLine
<1>9. m # 0
  <2>1. CASE m = 0
    <3>1. q = FlattenSeq(SubSeq(d, 1, m))
      BY <1>7, <1>4, <1>5, TrimFlatten
    <3>2. SubSeq(d, 1, m) = <<>>
      BY <2>1, SubSeqEmpty
    <3> QED
      BY <3>1, <3>2, FlattenEmpty
  <2> QED
    BY <2>1
<1>10. m \in 1..Len(d) /\ m \in 1..Len(raw) /\ d[m] = raw[m] /\ d[m] # <<>>
  BY <1>8, <1>9, <1>3, <1>4
<1>11. Last(TrimRight(d)) = d[m]
  <2> DEFINE b == SubSeq(d, 1, m)
  <2>1. \A i \in 1..m : d[i] \in Seq(Piece)
    BY <1>3, <1>4, <1>10
  <2>2. m \in Nat /\ m >= 1
    BY <1>10
  <2>3. /\ Len(b) = IF 1 <= m THEN m - 1 + 1 ELSE 0
        /\ \A i \in 1..(m - 1 + 1) : b[i] = d[1 + i - 1]
    BY <2>1, <2>2, SubSeqProperties
  <2>4. TrimRight(d) = b
    BY <1>8
  <2> HIDE DEF b
  <2>5. Len(b) = m /\ b[m] = d[m]
    BY <2>2, <2>3
  <2> QED
    BY <2>4, <2>5 DEF Last
<1>12. LastWords(raw) = raw[m]
  <2> DEFINE S == {i \in 1..Len(raw) : Has(raw[i], "words")}
             z == IF S # {} THEN Max(S) ELSE 0
  <2>1. LastWords(raw) = raw[z]
    BY DEF LastWords, SelectLastInSeq
  <2>2. m \in S
    BY <1>3, <1>8, <1>10
  <2>3. \A i \in S : i \in 1..Len(raw) /\ i <= m
    <3> SUFFICES ASSUME NEW i \in 1..Len(raw), Has(raw[i], "words") PROVE i <= m
      OBVIOUS
    <3>1. i <= k /\ raw[i] # <<>>
      OBVIOUS
    <3> HIDE DEF S, z
    <3>2. i \in 1..k
      BY <1>3, <3>1
    <3>3. d[i] # <<>>
      BY <1>4, <3>1, <3>2
    <3> QED
      BY <1>3, <1>8, <3>2, <3>3
  <2>4. S \in SUBSET (1..Len(raw))
    OBVIOUS
  <2> HIDE DEF S
  <2>5. z \in 0..Len(raw) /\ (z # 0 => z \in S) /\ \A i \in S : i <= z
    BY <1>3, <2>4, LastOf
  <2> HIDE DEF z
  <2>6. m <= z /\ z # 0
    BY <1>3, <1>10, <2>2, <2>5
  <2>7. z <= m
    BY <2>3, <2>5, <2>6
  <2>8. z = m
    BY <1>3, <1>10, <2>5, <2>6, <2>7
  <2> QED
    BY <2>1, <2>8
<1> QED
  BY <1>6, <1>10, <1>11, <1>12 DEF d

\* An output that has the form Gemma is asked for becomes the words in it, or, without a
\* marker, the last line of them.
LEMMA FinalizeClean ==
    ASSUME NEW raw \in Output, WellFormed(raw)
    PROVE  FinalizeInterpret(raw) = IF Marked(raw) THEN Words(raw) ELSE LastWords(raw)
<1> DEFINE p == FlattenSeq(raw)
<1>1. p \in Seq(Piece) /\ Form(raw, p)
  BY FlattenType, WellFormedForm DEF Output
<1>2. PICK k, q : Cleaned(raw, p, k, q)
  BY <1>1, Strips
<1>3. PICK a : LastClose(q, a)
  BY <1>2, CloseExists DEF Cleaned
<1> DEFINE e == Len(q)
           said == SubSeq(q, a + 1, e)
<1>4. q \in Seq(Piece) /\ e \in Nat /\ a \in Nat
  BY <1>2, <1>3, LenProperties DEF Cleaned, LastClose
<1>5. /\ a < e /\ e <= Len(p)
      /\ \A j \in 1..e : q[j] = p[j]
      /\ \A j \in 1..Len(p) : p[j] = "words" <=> a < j /\ j <= e
      /\ Marked(raw) <=> a # 0
  BY <1>1, <1>2, <1>3, WordsFrom DEF Marked
<1>6. StripMetaLine(raw) = SubSeq(raw, 1, k)
  BY <1>2 DEF Cleaned
<1>7. CASE Marked(raw)
  <2>1. ExtractGemmaFinal(StripMetaLine(raw)) = said
    <3>1. a # 0
      BY <1>5, <1>7
    <3> QED
      BY <1>2, <1>3, <1>6, <3>1, Extracts
  <2>2. said # <<>>
    <3>1. \A i \in (a + 1)..e : q[i] \in Piece
      BY <1>4, ElementOfSeq
    <3>2. Len(said) = IF a + 1 <= e THEN e - (a + 1) + 1 ELSE 0
      BY <1>4, <3>1, SubSeqProperties
    <3>3. Len(said) # 0
      BY <1>4, <1>5, <3>2
    <3> QED
      BY <3>3, EmptySeq
  <2>3. FinalizeInterpret(raw) = said
    <3> HIDE DEF said
    <3> QED
      BY <2>1, <2>2 DEF FinalizeInterpret
  <2>4. Words(raw) = SubSeq(p, a + 1, e)
    <3> HIDE DEF e
    <3>1. a <= e
      BY <1>4, <1>5
    <3> QED
      BY <1>1, <1>4, <1>5, <3>1, WordsBetween
  <2>5. SubSeq(p, a + 1, e) = said
    <3>1. a + 1 \in Nat \ {0} /\ e <= Len(q)
      BY <1>4
    <3> QED
      BY <1>1, <1>4, <1>5, <3>1, SamePrefix
  <2> QED
    BY <1>7, <2>3, <2>4, <2>5
<1>8. CASE ~Marked(raw)
  <2>1. a = 0
    BY <1>5, <1>8
  <2>2. q # <<>>
    BY <1>4, <1>5, EmptySeq
  <2>3. \A j \in 1..Len(p) : p[j] = "words" <=> j <= Len(q)
    BY <1>4, <1>5, <2>1
  <2>4. \A i \in 1..Len(raw) : Has(raw[i], "words") <=> i <= k /\ raw[i] # <<>>
    <3> HIDE DEF p
    <3>1. p = FlattenSeq(raw)
      BY DEF p
    <3> QED
      BY <1>2, <1>5, <2>3, <3>1, WordLines
  <2>5. /\ ExtractGemmaFinal(SubSeq(raw, 1, k)) = LastWords(raw)
        /\ LastWords(raw) # <<>>
    BY <1>2, <1>3, <2>1, <2>2, <2>4, ExtractsLast
  <2> QED
    BY <1>6, <1>8, <2>5 DEF FinalizeInterpret
<1> QED
  BY <1>7, <1>8

(***************************************************************************)
(* Of an output that has the form Gemma is asked for, whatever it says and *)
(* over how many lines, an agent gets the words and neither the reasoning  *)
(* nor the metadata: all of them when the output has a marker, the last    *)
(* line of them when it has none.                                          *)
(***************************************************************************)
THEOREM AnswerCleanAlways == Spec => []AnswerClean
<1>1. TypeOK => AnswerClean
  <2> SUFFICES ASSUME TypeOK, NEW r \in Requests, WellFormed(answer[r])
               PROVE  FinalizeInterpret(answer[r]) =
                          IF Marked(answer[r]) THEN Words(answer[r]) ELSE LastWords(answer[r])
    BY DEF AnswerClean
  <2>1. answer[r] \in Output
    BY DEF TypeOK
  <2> QED
    BY <2>1, FinalizeClean
<1> QED
  BY <1>1, TypeCorrect, PTL

=============================================================================
