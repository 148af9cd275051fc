--------------------------- MODULE PrCommentsProofs ---------------------------
(***************************************************************************)
(* Proofs about PrComments, for every page size, every number of pushes and *)
(* comments, and whatever the pushes hold.                                  *)
(***************************************************************************)
EXTENDS PrComments, SequenceTheorems, WellFoundedInduction, TLAPS

USE BoundsAssumption, ContentAssumption

-----------------------------------------------------------------------------
(* The first page, and the search in it. *)

\* A page is a prefix of the comments; when it is not full it is all of them.
LEMMA PageIsPrefix ==
    ASSUME TypeOK
    PROVE  /\ Page \in Seq(Comment)
           /\ Len(Page) \in 0..PageSize
           /\ Len(Page) # PageSize => Page = comments
           /\ \A i \in DOMAIN Page : i \in DOMAIN comments /\ Page[i] = comments[i]
<1> DEFINE k == IF Len(comments) < PageSize THEN Len(comments) ELSE PageSize
<1>1. comments \in Seq(Comment) /\ Len(comments) \in Nat /\ k \in 0..Len(comments)
  BY LenProperties DEF TypeOK
<1>2. \A i \in 1..k : comments[i] \in Comment
  BY <1>1, ElementOfSeq
<1>3. Page \in Seq(Comment) /\ Len(Page) = k
  <2>1. k \in Int /\ 1 \in Int /\ Page = SubSeq(comments, 1, k)
    BY <1>1 DEF Page
  <2>2. Page \in Seq(Comment) /\ Len(Page) = IF 1 <= k THEN k - 1 + 1 ELSE 0
    BY <2>1, <1>2, SubSeqProperties
  <2>3. QED
    BY <2>2, <1>1
<1>4. Len(Page) # PageSize => Page = comments
  <2> SUFFICES ASSUME Len(Page) # PageSize PROVE Page = comments
    OBVIOUS
  <2>1. Page = SubSeq(comments, 1, Len(comments))
    BY <1>1, <1>3 DEF Page
  <2>2. QED
    BY <2>1, <1>1, SubSeqFull
<1>5. \A i \in DOMAIN Page : i \in DOMAIN comments /\ Page[i] = comments[i]
  <2>1. DOMAIN Page = 1..k /\ DOMAIN comments = 1..Len(comments)
    BY <1>1, <1>3, LenProperties
  <2>2. k \in Int /\ 1 \in Int /\ Page = SubSeq(comments, 1, k)
    BY <1>1 DEF Page
  <2>3. \A i \in 1..k - 1 + 1 : Page[i] = comments[1 + i - 1]
    BY <2>2, <1>2, SubSeqProperties
  <2> HIDE DEF k
  <2>4. QED
    BY <2>1, <2>3, <1>1
<1>6. QED
  BY <1>1, <1>3, <1>4, <1>5

\* The search returns the id of a comment of the page that has the marker, or 0
\* when there is none.
LEMMA SearchFinds ==
    ASSUME TypeOK, NEW m
    PROVE  /\ Existing(m) \in 0..MaxComments
           /\ Existing(m) = 0 => WithMarker(m) = {}
           /\ Existing(m) # 0 => \E i \in WithMarker(m) : Page[i].id = Existing(m)
<1>1. CASE WithMarker(m) = {}
  BY <1>1 DEF Existing
<1>2. CASE WithMarker(m) # {}
  <2>1. Page \in Seq(Comment) /\ DOMAIN Page = 1..Len(Page) /\ Len(Page) \in Nat
    BY PageIsPrefix, LenProperties
  <2>2. WithMarker(m) \subseteq 1..Len(Page) /\ WithMarker(m) \subseteq Nat
    BY <2>1 DEF WithMarker
  <2>3. PICK i \in WithMarker(m) : \A j \in WithMarker(m) : ~ (<<j, i>> \in OpToRel(<, Nat))
    BY <1>2, <2>2, WFMin, NatLessThanWellFounded
  <2>4. \A j \in WithMarker(m) : ~ (j < i)
    BY <2>2, <2>3, Zenon DEF OpToRel
  <2>5. \A j \in WithMarker(m) : i <= j
    BY <2>2, <2>4
  <2> DEFINE c == CHOOSE k \in WithMarker(m) : \A j \in WithMarker(m) : k <= j
  <2>6. c \in WithMarker(m)
    BY <2>5
  <2> HIDE DEF c
  <2>7. Page[c] \in Comment
    BY <2>1, <2>2, <2>6, ElementOfSeq
  <2>8. Page[c].id \in 1..MaxComments
    BY <2>7 DEF Comment
  <2>9. Existing(m) = Page[c].id
    BY <1>2 DEF Existing, c
  <2>10. QED
    BY <2>6, <2>8, <2>9, <1>2
<1>3. QED
  BY <1>1, <1>2

\* What a listing that found nothing tells: the page was full, or none of the
\* comments there are has the marker.
LEMMA NothingFound ==
    ASSUME TypeOK, NEW m, Existing(m) = 0, Len(Page) # PageSize
    PROVE  \A i \in DOMAIN comments : comments[i].marker # m
BY SearchFinds, PageIsPrefix DEF WithMarker

\* A listing keeps a run a run.
LEMMA ListedType ==
    ASSUME TypeOK, NEW r \in Run, NEW m, NEW next \in Steps
    PROVE  Listed(r, m, next) \in Run
BY SearchFinds, PageIsPrefix DEF Listed, Run, TypeOK

-----------------------------------------------------------------------------
(* What the comments are after each kind of change. *)

\* A comment as far as the properties of markers can tell.
Same(c, d) == c.id = d.id /\ c.marker = d.marker /\ c.saw = d.saw /\ c.page = d.page

\* Every comment afterwards was one before, and they keep their order.
Thinned ==
    /\ made' = made
    /\ \E f \in [DOMAIN comments' -> DOMAIN comments] :
         /\ \A i \in DOMAIN comments' : Same(comments'[i], comments[f[i]])
         /\ \A i, j \in DOMAIN comments' : i < j => f[i] < f[j]

\* One comment more, the youngest.
Grown(m, saw, page) ==
    /\ made' = made + 1 /\ made' \in 1..MaxComments
    /\ Len(comments') = Len(comments) + 1
    /\ \A i \in 1..Len(comments) : comments'[i] = comments[i]
    /\ LET c == comments'[Len(comments) + 1] IN
         c.id = made + 1 /\ c.marker = m /\ c.saw = saw /\ c.page = page

LEMMA WrittenIs ==
    ASSUME TypeOK, NEW r \in Run, NEW m \in Markers, NEW n \in 0..MaxPushes,
           NEW h \in SUBSET HookIds, NEW x \in SUBSET Problems, Written(r, m, n, h, x)
    PROVE  /\ comments' \in Seq(Comment) /\ made' \in 0..MaxComments
           /\ Thinned \/ (r.target = 0 /\ Grown(m, r.saw, r.page))
<1>1. comments \in Seq(Comment) /\ Len(comments) \in Nat /\ DOMAIN comments = 1..Len(comments)
      /\ made \in 0..MaxComments /\ MaxComments \in Nat
  BY LenProperties DEF TypeOK
<1>2. CASE /\ comments' = [i \in DOMAIN comments |->
                      IF comments[i].id = r.target
                      THEN [comments[i] EXCEPT !.of = n, !.hooks = h, !.fixes = x]
                      ELSE comments[i]]
           /\ UNCHANGED made
  <2>1. \A i \in DOMAIN comments : comments'[i] \in Comment /\ Same(comments'[i], comments[i])
    <3> TAKE i \in DOMAIN comments
    <3>1. comments[i] \in Comment
      BY <1>1, ElementOfSeq
    <3>2. QED
      BY <3>1, <1>2 DEF Comment, Same
  <2>2. DOMAIN comments' = DOMAIN comments /\ comments' \in [1..Len(comments) -> Comment]
    BY <2>1, <1>1, <1>2
  <2>3. comments' \in Seq(Comment)
    BY <2>2, <1>1, SeqDef
  <2>4. Thinned
    <3> DEFINE f == [i \in DOMAIN comments' |-> i]
    <3>1. f \in [DOMAIN comments' -> DOMAIN comments]
      BY <2>2
    <3>2. \A i \in DOMAIN comments' : Same(comments'[i], comments[f[i]])
      BY <2>1, <2>2
    <3>3. \A i, j \in DOMAIN comments' : i < j => f[i] < f[j]
      OBVIOUS
    <3> HIDE DEF f
    <3>4. QED
      BY <3>1, <3>2, <3>3, <1>2 DEF Thinned
  <2>5. QED
    BY <2>3, <2>4, <1>1, <1>2
<1>3. CASE /\ r.target = 0 /\ made < MaxComments
           /\ comments' = Append(comments, [id |-> made + 1, marker |-> m, of |-> n,
                            hooks |-> h, fixes |-> x, saw |-> r.saw, page |-> r.page])
           /\ made' = made + 1
  <2> DEFINE c == [id |-> made + 1, marker |-> m, of |-> n,
                   hooks |-> h, fixes |-> x, saw |-> r.saw, page |-> r.page]
  <2>1. c \in Comment
    BY <1>1, <1>3 DEF Comment, Run
  <2>2. c.id = made + 1 /\ c.marker = m /\ c.saw = r.saw /\ c.page = r.page
    OBVIOUS
  <2> HIDE DEF c
  <2>3. comments' = Append(comments, c)
    BY <1>3 DEF c
  <2>4. comments' \in Seq(Comment) /\ Len(comments') = Len(comments) + 1
        /\ (\A i \in 1..Len(comments) : comments'[i] = comments[i])
        /\ comments'[Len(comments) + 1] = c
    BY <2>1, <2>3, <1>1, AppendProperties
  <2>5. Grown(m, r.saw, r.page)
    BY <2>2, <2>4, <1>1, <1>3 DEF Grown
  <2>6. QED
    BY <2>4, <2>5, <1>1, <1>3
<1>4. QED
  BY <1>2, <1>3 DEF Written

LEMMA DeletionThins ==
    ASSUME TypeOK, DeleteComment
    PROVE  comments' \in Seq(Comment) /\ Thinned
<1>1. comments \in Seq(Comment) /\ Len(comments) \in Nat /\ DOMAIN comments = 1..Len(comments)
  BY LenProperties DEF TypeOK
<1>2. PICK k \in 1..Len(comments) :
        comments' = [j \in 1..(Len(comments) - 1) |-> comments[IF j < k THEN j ELSE j + 1]]
  BY <1>1 DEF DeleteComment
<1> DEFINE f == [j \in 1..(Len(comments) - 1) |-> IF j < k THEN j ELSE j + 1]
<1>3. DOMAIN comments' = 1..(Len(comments) - 1) /\ Len(comments) - 1 \in Nat
  BY <1>1, <1>2
<1>4. f \in [DOMAIN comments' -> DOMAIN comments]
  BY <1>1, <1>3
<1>5. \A j \in DOMAIN comments' : comments'[j] = comments[f[j]] /\ comments'[j] \in Comment
  <2> TAKE j \in DOMAIN comments'
  <2>1. comments'[j] = comments[f[j]]
    BY <1>2, <1>3
  <2>2. f[j] \in 1..Len(comments)
    BY <1>1, <1>4
  <2>3. QED
    BY <2>1, <2>2, <1>1, ElementOfSeq
<1>6. comments' \in Seq(Comment)
  <2>1. comments' \in [1..(Len(comments) - 1) -> Comment]
    BY <1>2, <1>3, <1>5
  <2>2. QED
    BY <2>1, <1>3, SeqDef
<1>7. \A i, j \in DOMAIN comments' : i < j => f[i] < f[j]
  BY <1>1, <1>3
<1> HIDE DEF f
<1>8. QED
  BY <1>4, <1>5, <1>6, <1>7 DEF Thinned, Same, DeleteComment

-----------------------------------------------------------------------------
(* Types. *)

\* A step of a run's own keeps the runs typed.
LEMMA RunsStepType ==
    ASSUME TypeOK, NEW n \in Pushes, NEW r \in Run, runs' = [runs EXCEPT ![n] = r]
    PROVE  runs' \in Seq(Run) /\ Len(runs') = Len(runs)
BY ExceptSeq DEF TypeOK, Pushes

\* A push is one push and one run more.
LEMMA PushType ==
    ASSUME TypeOK, NEW c \in Content, Push(c)
    PROVE  TypeOK'
<1>1. NewRun \in Run
  BY DEF NewRun, Started, Run, Steps
<1>2. content' \in Seq(Content) /\ Len(content') = Len(content) + 1
  BY AppendProperties DEF TypeOK, Push
<1>3. runs' \in Seq(Run) /\ Len(runs') = Len(runs) + 1
  BY <1>1, AppendProperties DEF TypeOK, Push
<1>4. Len(content') \in 1..MaxPushes
  BY <1>2 DEF TypeOK, Push
<1>5. QED
  BY <1>2, <1>3, <1>4 DEF TypeOK, Push

LEMMA StartedType == ASSUME NEW at \in Steps PROVE Started(at) \in Run
BY DEF Started, Run

LEMMA PushContent ==
    ASSUME TypeOK
    PROVE  content[Len(content)] \in Content
BY ElementOfSeq DEF TypeOK

\* What one run's step changes: the run, and what is written.
LEMMA RunType ==
    ASSUME TypeOK, NEW n \in Pushes, NEW r \in Run, runs' = [runs EXCEPT ![n] = r],
           UNCHANGED <<content, hand>>,
           comments' \in Seq(Comment), made' \in 0..MaxComments
    PROVE  TypeOK'
BY RunsStepType DEF TypeOK

\* Every variable keeps its type in every step.
LEMMA TypeStep ==
    ASSUME TypeOK, [Next]_vars
    PROVE  TypeOK'
<1> USE DEF Steps
<1>1. ASSUME NEW n \in Pushes
      PROVE  /\ runs[n] \in Run /\ n \in 0..MaxPushes /\ content[n] \in Content
             /\ Captured(n) \in SUBSET HookIds
             /\ Suggested(n) \in SUBSET Problems
  <2>1. runs[n] \in Run /\ content[n] \in Content /\ n \in 0..MaxPushes
    BY <1>1, ElementOfSeq DEF TypeOK, Pushes
  <2>2. QED
    BY <2>1 DEF Captured, FailingHooks, Suggested, Content
<1>2. "pre-commit-template-sync" \in Markers /\ "pre-commit-aggregated-suggestions" \in Markers
      /\ "srs-title-ascii-lint" \in Markers /\ "none" \in Markers
  BY DEF Markers
<1>3. CASE Edit
  BY <1>3, PushType DEF Edit
<1>4. CASE SyncTemplates
  <2>1. Synced(content[Len(content)]) \in Content
    BY PushContent DEF Synced, Content, ExistingLinks
  <2>2. QED
    BY <2>1, <1>4, PushType DEF SyncTemplates
<1>5. CASE FixTitles
  <2>1. TitlesFixed(content[Len(content)]) \in Content
    BY PushContent DEF TitlesFixed, Content
  <2>2. QED
    BY <2>1, <1>5, PushType DEF FixTitles
<1>6. ASSUME NEW n \in Pushes, Lint(n) PROVE TypeOK'
  <2> DEFINE r == [runs[n] EXCEPT !.at = IF SyncNeeded(content[n]) THEN "syncList" ELSE "hooks"]
  <2>1. r \in Run
    BY <1>1 DEF Run
  <2>2. runs' = [runs EXCEPT ![n] = r] /\ UNCHANGED <<content, comments, made, hand>>
    BY <1>6 DEF Lint
  <2> HIDE DEF r
  <2>3. QED
    BY <2>1, <2>2, RunType DEF TypeOK
<1>7. ASSUME NEW n \in Pushes, SyncList(n) PROVE TypeOK'
  <2>1. Listed(runs[n], "pre-commit-template-sync", "syncWrite") \in Run
    BY <1>1, ListedType
  <2>2. QED
    BY <2>1, <1>7, RunType DEF SyncList, TypeOK
<1>8. ASSUME NEW n \in Pushes, SyncWrite(n) PROVE TypeOK'
  <2>1. comments' \in Seq(Comment) /\ made' \in 0..MaxComments
    BY <1>1, <1>2, <1>8, WrittenIs DEF SyncWrite
  <2>2. QED
    BY <2>1, <1>8, StartedType, RunType DEF SyncWrite
<1>9. ASSUME NEW n \in Pushes, Hooks(n) PROVE TypeOK'
  <2> DEFINE r == IF FailingHooks(content[n]) = {} THEN Started("done")
                  ELSE [runs[n] EXCEPT !.at = "hintList", !.json = TRUE]
  <2>1. r \in Run
    BY <1>1, StartedType DEF Run
  <2>2. runs' = [runs EXCEPT ![n] = r] /\ UNCHANGED <<content, comments, made, hand>>
    BY <1>9 DEF Hooks
  <2> HIDE DEF r
  <2>3. QED
    BY <2>1, <2>2, RunType DEF TypeOK
<1>10. ASSUME NEW n \in Pushes, HintList(n) PROVE TypeOK'
  <2> DEFINE r == IF Captured(n) = {} /\ Suggested(n) = {} THEN Started("done")
                  ELSE Listed(runs[n], "pre-commit-aggregated-suggestions", "hintWrite")
  <2>1. r \in Run
    BY <1>1, StartedType, ListedType
  <2>2. runs' = [runs EXCEPT ![n] = r] /\ UNCHANGED <<content, comments, made, hand>>
    BY <1>10 DEF HintList
  <2> HIDE DEF r
  <2>3. QED
    BY <2>1, <2>2, RunType DEF TypeOK
<1>11. ASSUME NEW n \in Pushes, HintWrite(n) PROVE TypeOK'
  <2>1. comments' \in Seq(Comment) /\ made' \in 0..MaxComments
    BY <1>1, <1>2, <1>11, WrittenIs DEF HintWrite
  <2>2. QED
    BY <2>1, <1>11, StartedType, RunType DEF HintWrite
<1>12. ASSUME NEW n \in Pushes, ApiFails(n) PROVE TypeOK'
  <2> DEFINE r == Started(IF runs[n].at \in {"syncList", "syncWrite"} THEN "hintList" ELSE "done")
  <2>1. r \in Run
    BY StartedType
  <2>2. runs' = [runs EXCEPT ![n] = r] /\ UNCHANGED <<content, comments, made, hand>>
    BY <1>12 DEF ApiFails
  <2> HIDE DEF r
  <2>3. QED
    BY <2>1, <2>2, RunType DEF TypeOK
<1>13. CASE HandList
  BY <1>13, ListedType DEF HandList, TypeOK
<1>14. CASE HandWrite
  <2>1. comments' \in Seq(Comment) /\ made' \in 0..MaxComments
    <3>1. hand \in Run /\ 0 \in 0..MaxPushes /\ {"srs"} \in SUBSET Problems
      BY DEF TypeOK, Problems
    <3>2. QED
      BY <3>1, <1>2, <1>14, WrittenIs DEF HandWrite
  <2>2. QED
    BY <2>1, <1>14, StartedType DEF HandWrite, TypeOK
<1>15. CASE PostComment
  <2>1. [NewRun EXCEPT !.saw = made] \in Run
    BY StartedType DEF NewRun, Run, TypeOK
  <2>2. comments' \in Seq(Comment) /\ made' \in 0..MaxComments
    BY <2>1, <1>2, <1>15, WrittenIs DEF PostComment
  <2>3. QED
    BY <2>2, <1>15 DEF PostComment, TypeOK
<1>16. CASE DeleteComment
  BY <1>16, DeletionThins DEF DeleteComment, TypeOK
<1>17. CASE UNCHANGED vars
  BY <1>17 DEF vars, TypeOK
<1>18. QED
  BY <1>3, <1>4, <1>5, <1>6, <1>7, <1>8, <1>9, <1>10, <1>11, <1>12, <1>13, <1>14, <1>15,
     <1>16, <1>17 DEF Next

LEMMA InitType == Init => TypeOK
<1> SUFFICES ASSUME Init PROVE TypeOK
  OBVIOUS
<1>1. PICK c \in FirstContent : content = <<c>>
  BY DEF Init
<1>2. NewRun \in Run /\ Started("done") \in Run
  BY StartedType DEF NewRun, Steps
<1>3. content \in Seq(Content) /\ Len(content) = 1
  BY <1>1
<1>4. runs \in Seq(Run) /\ Len(runs) = 1
  BY <1>2 DEF Init
<1>5. QED
  BY <1>2, <1>3, <1>4 DEF Init, TypeOK

\* Every variable keeps its type.
THEOREM TypeCorrect == Spec => []TypeOK
<1>1. Init => TypeOK
  BY InitType
<1>2. TypeOK /\ [Next]_vars => TypeOK'
  BY TypeStep
<1>3. QED
  BY <1>1, <1>2, PTL DEF Spec

-----------------------------------------------------------------------------
(* Duplicates. *)

\* What a writer of comments with marker m relies on between its two calls: if
\* it found none, its page was full, or those there are now came after it
\* looked.
Knows(r, m) ==
    /\ r.saw <= made
    /\ r.target = 0 => \/ r.page = PageSize
                       \/ \A i \in DOMAIN comments :
                            comments[i].marker = m => comments[i].id > r.saw

\* Every script that is about to write relies on that.
WritersKnow ==
    /\ \A n \in Pushes :
         /\ runs[n].at = "syncWrite" => Knows(runs[n], "pre-commit-template-sync")
         /\ runs[n].at = "hintWrite" => Knows(runs[n], "pre-commit-aggregated-suggestions")
    /\ hand.at = "hintWrite" => Knows(hand, "srs-title-ascii-lint")

DuplicateInv == TypeOK /\ WritersKnow /\ DuplicateHasCause

LEMMA CommentsTyped ==
    ASSUME TypeOK
    PROVE  /\ Len(comments) \in Nat /\ DOMAIN comments = 1..Len(comments)
           /\ \A i \in DOMAIN comments : comments[i] \in Comment
           /\ made \in 0..MaxComments /\ MaxComments \in Nat
BY LenProperties, ElementOfSeq DEF TypeOK

\* A listing gives what a writer relies on.
LEMMA ListedKnows ==
    ASSUME TypeOK, NEW r \in Run, NEW m, NEW next \in Steps
    PROVE  Knows(Listed(r, m, next), m)
<1>1. /\ Listed(r, m, next).saw = made /\ Listed(r, m, next).page = Len(Page)
      /\ Listed(r, m, next).target = Existing(m)
  BY DEF Listed, Run
<1>2. made <= made
  BY CommentsTyped
<1>3. QED
  BY <1>1, <1>2, NothingFound DEF Knows

\* Whatever is written or deleted, it goes on relying on it: what is new has an
\* id not yet given out.
LEMMA KnowsKept ==
    ASSUME TypeOK, NEW r \in Run, NEW m, Knows(r, m), comments' \in Seq(Comment),
           NEW w, NEW saw, NEW page,
           UNCHANGED <<comments, made>> \/ Thinned \/ Grown(w, saw, page)
    PROVE  Knows(r, m)'
<1>1. r.saw \in Nat /\ made \in Nat
  BY CommentsTyped DEF Run
<1>2. CASE UNCHANGED <<comments, made>>
  BY <1>2 DEF Knows
<1>3. CASE Thinned
  BY <1>3, CommentsTyped DEF Thinned, Same, Knows
<1>4. CASE Grown(w, saw, page)
  <2>1. DOMAIN comments' = 1..(Len(comments) + 1)
    BY <1>4, LenProperties DEF Grown
  <2>2. r.saw <= made'
    BY <1>1, <1>4 DEF Knows, Grown
  <2>3. ASSUME NEW i \in DOMAIN comments', comments'[i].marker = m,
               \A j \in DOMAIN comments : comments[j].marker = m => comments[j].id > r.saw
        PROVE  comments'[i].id > r.saw
    <3>1. CASE i \in 1..Len(comments)
      BY <2>3, <3>1, <1>4, CommentsTyped DEF Grown
    <3>2. CASE i = Len(comments) + 1
      BY <3>2, <1>1, <1>4 DEF Grown, Knows
    <3>3. QED
      BY <3>1, <3>2, <2>1, CommentsTyped
  <2>4. QED
    BY <2>2, <2>3 DEF Knows
<1>5. QED
  BY <1>2, <1>3, <1>4

\* A change of the comments keeps the property, if the writer of a new one
\* relied on what it may rely on.
LEMMA DuplicateKept ==
    ASSUME TypeOK, DuplicateHasCause, comments' \in Seq(Comment),
           NEW r \in Run, NEW m,
           UNCHANGED comments \/ Thinned
             \/ (r.target = 0 /\ Grown(m, r.saw, r.page) /\ (m = "none" \/ Knows(r, m)))
    PROVE  DuplicateHasCause'
<1>1. CASE UNCHANGED comments
  BY <1>1 DEF DuplicateHasCause
<1>2. CASE Thinned
  BY <1>2 DEF Thinned, Same, DuplicateHasCause
<1>3. CASE r.target = 0 /\ Grown(m, r.saw, r.page) /\ (m = "none" \/ Knows(r, m))
  <2> SUFFICES ASSUME NEW i \in DOMAIN comments', NEW j \in DOMAIN comments',
                      i < j, comments'[i].marker = comments'[j].marker,
                      comments'[i].marker # "none"
               PROVE  comments'[i].id > comments'[j].saw \/ comments'[j].page = PageSize
    BY DEF DuplicateHasCause
  <2>1. i \in 1..(Len(comments) + 1) /\ j \in 1..(Len(comments) + 1)
    BY <1>3, LenProperties DEF Grown
  <2>2. i \in 1..Len(comments) /\ comments'[i] = comments[i]
    BY <2>1, <1>3, CommentsTyped DEF Grown
  <2>3. CASE j \in 1..Len(comments)
    BY <2>2, <2>3, <1>3, CommentsTyped DEF Grown, DuplicateHasCause
  <2>4. CASE j = Len(comments) + 1
    BY <2>2, <2>4, <1>3, CommentsTyped DEF Grown, Knows
  <2>5. QED
    BY <2>1, <2>3, <2>4, CommentsTyped
<1>4. QED
  BY <1>1, <1>2, <1>3

\* What a step does to the comments, as far as the two lemmas above need it.
Changed(r, m) ==
    \/ UNCHANGED <<comments, made>>
    \/ Thinned
    \/ r.target = 0 /\ Grown(m, r.saw, r.page) /\ (m = "none" \/ Knows(r, m))

\* A step after which nobody is about to write who was not before keeps the
\* invariant.
LEMMA NoNewWriter ==
    ASSUME DuplicateInv, TypeOK', NEW r \in Run, NEW m, Changed(r, m),
           \A n \in Pushes' : runs'[n].at \in {"syncWrite", "hintWrite"}
                              => n \in Pushes /\ runs'[n] = runs[n],
           hand'.at = "hintWrite" => hand' = hand
    PROVE  DuplicateInv'
<1>1. comments' \in Seq(Comment)
  BY DEF TypeOK
<1>2. ASSUME NEW q \in Run, NEW k, Knows(q, k) PROVE Knows(q, k)'
  BY <1>1, <1>2, KnowsKept DEF Changed, DuplicateInv
<1>3. \A n \in Pushes : runs[n] \in Run
  BY ElementOfSeq DEF DuplicateInv, TypeOK, Pushes
<1>4. ASSUME NEW n \in Pushes'
      PROVE  /\ runs'[n].at = "syncWrite" => Knows(runs[n], "pre-commit-template-sync")'
             /\ runs'[n].at = "hintWrite" => Knows(runs[n], "pre-commit-aggregated-suggestions")'
  <2>1. CASE runs'[n].at \in {"syncWrite", "hintWrite"}
    <3>1. n \in Pushes /\ runs'[n] = runs[n]
      BY <2>1
    <3>2. PICK q \in Run : q = runs[n]
      BY <1>3, <3>1
    <3>3. runs'[n].at = "syncWrite" => Knows(q, "pre-commit-template-sync")'
      <4>1. runs'[n].at = "syncWrite" => Knows(q, "pre-commit-template-sync")
        BY <3>1, <3>2 DEF DuplicateInv, WritersKnow
      <4>2. QED
        BY <4>1, <1>2
    <3>4. runs'[n].at = "hintWrite" => Knows(q, "pre-commit-aggregated-suggestions")'
      <4>1. runs'[n].at = "hintWrite" => Knows(q, "pre-commit-aggregated-suggestions")
        BY <3>1, <3>2 DEF DuplicateInv, WritersKnow
      <4>2. QED
        BY <4>1, <1>2
    <3>5. QED
      BY <3>1, <3>2, <3>3, <3>4 DEF Knows
  <2>2. QED
    BY <2>1
<1>5. hand'.at = "hintWrite" => Knows(hand, "srs-title-ascii-lint")'
  <2> SUFFICES ASSUME hand'.at = "hintWrite" PROVE Knows(hand, "srs-title-ascii-lint")'
    OBVIOUS
  <2>1. PICK q \in Run : q = hand
    BY DEF DuplicateInv, TypeOK
  <2>2. Knows(q, "srs-title-ascii-lint")
    BY <2>1 DEF DuplicateInv, WritersKnow
  <2>3. Knows(q, "srs-title-ascii-lint")'
    BY <2>2, <1>2
  <2>4. QED
    BY <2>1, <2>3 DEF Knows
<1>6. DuplicateHasCause'
  BY <1>1, DuplicateKept DEF Changed, DuplicateInv
<1>7. WritersKnow'
  BY <1>4, <1>5 DEF WritersKnow
<1>8. QED
  BY <1>6, <1>7 DEF DuplicateInv

\* The step of a run after which it is about to list, or done, or before its
\* first write.
LEMMA RunMovesOn ==
    ASSUME DuplicateInv, TypeOK', NEW q \in Run, NEW m, Changed(q, m),
           NEW n \in Pushes, NEW r \in Run, runs' = [runs EXCEPT ![n] = r],
           r.at \notin {"syncWrite", "hintWrite"}, UNCHANGED <<content, hand>>
    PROVE  DuplicateInv'
<1>1. runs \in Seq(Run) /\ Len(runs) = Len(content)
  BY DEF DuplicateInv, TypeOK
<1>2. \A k \in Pushes : runs'[k] = IF k = n THEN r ELSE runs[k]
  BY <1>1, ExceptSeq DEF Pushes
<1>3. Pushes' = Pushes
  BY DEF Pushes
<1>4. QED
  BY <1>2, <1>3, NoNewWriter

\* A listing: the writer to be knows, the others see nothing change.
LEMMA RunLists ==
    ASSUME DuplicateInv, TypeOK', UNCHANGED <<content, hand, comments, made>>,
           NEW n \in Pushes, NEW r \in Run, runs' = [runs EXCEPT ![n] = r],
           r.at = "syncWrite" => Knows(r, "pre-commit-template-sync"),
           r.at = "hintWrite" => Knows(r, "pre-commit-aggregated-suggestions")
    PROVE  DuplicateInv'
<1>1. runs \in Seq(Run) /\ Len(runs) = Len(content)
  BY DEF DuplicateInv, TypeOK
<1>2. \A k \in Pushes : runs'[k] = IF k = n THEN r ELSE runs[k]
  BY <1>1, ExceptSeq DEF Pushes
<1>3. Pushes' = Pushes
  BY DEF Pushes
<1>4. DuplicateHasCause'
  BY DEF DuplicateInv, DuplicateHasCause
<1>5. WritersKnow'
  BY <1>2, <1>3 DEF DuplicateInv, WritersKnow, Knows
<1>6. QED
  BY <1>4, <1>5 DEF DuplicateInv

LEMMA DuplicateStep ==
    ASSUME DuplicateInv, [Next]_vars
    PROVE  DuplicateInv'
<1> USE DEF Steps
<1>1. TypeOK /\ TypeOK'
  BY TypeStep DEF DuplicateInv
<1>2. NewRun \in Run /\ Started("hintList") \in Run /\ Started("done") \in Run
      /\ NewRun.at = "lint" /\ \A at \in Steps : Started(at).at = at
  BY StartedType DEF NewRun, Started
<1>3. ASSUME NEW n \in Pushes
      PROVE  /\ runs[n] \in Run /\ n \in 0..MaxPushes
             /\ Captured(n) \in SUBSET HookIds /\ Suggested(n) \in SUBSET Problems
  <2>1. runs[n] \in Run /\ content[n] \in Content /\ n \in 0..MaxPushes
    BY <1>1, <1>3, ElementOfSeq DEF TypeOK, Pushes
  <2>2. QED
    BY <2>1 DEF Captured, FailingHooks, Suggested, Content
<1>4. UNCHANGED <<comments, made>> => Changed(NewRun, "none")
  BY DEF Changed
<1>5. ASSUME NEW c \in Content, Push(c) PROVE DuplicateInv'
  <2>1. runs \in Seq(Run) /\ Len(runs) = Len(content) /\ Len(content) \in Nat
        /\ content \in Seq(Content)
    BY <1>1 DEF TypeOK
  <2>2. Len(content') = Len(content) + 1 /\ runs'[Len(content) + 1] = NewRun
        /\ \A k \in Pushes : runs'[k] = runs[k]
    BY <1>2, <1>5, <2>1, AppendProperties DEF Push, Pushes
  <2>3. \A k \in Pushes' : k \in Pushes \/ k = Len(content) + 1
    BY <2>1, <2>2 DEF Pushes
  <2>4. Changed(NewRun, "none") /\ hand' = hand
    BY <1>4, <1>5 DEF Push
  <2>5. QED
    BY <1>1, <1>2, <2>2, <2>3, <2>4, NoNewWriter
<1>6. CASE Edit
  BY <1>5, <1>6 DEF Edit
<1>7. CASE SyncTemplates
  <2>1. Synced(content[Len(content)]) \in Content
    BY <1>1, PushContent DEF Synced, Content, ExistingLinks
  <2>2. QED
    BY <1>5, <1>7, <2>1 DEF SyncTemplates
<1>8. CASE FixTitles
  <2>1. TitlesFixed(content[Len(content)]) \in Content
    BY <1>1, PushContent DEF TitlesFixed, Content
  <2>2. QED
    BY <1>5, <1>8, <2>1 DEF FixTitles
<1>9. ASSUME NEW n \in Pushes, Lint(n) PROVE DuplicateInv'
  <2> DEFINE r == [runs[n] EXCEPT !.at = IF SyncNeeded(content[n]) THEN "syncList" ELSE "hooks"]
  <2>1. r \in Run /\ r.at \notin {"syncWrite", "hintWrite"}
    BY <1>3 DEF Run
  <2>2. runs' = [runs EXCEPT ![n] = r] /\ UNCHANGED <<content, comments, made, hand>>
    BY <1>9 DEF Lint
  <2> HIDE DEF r
  <2>3. QED
    BY <1>1, <1>2, <1>4, <2>1, <2>2, RunMovesOn
<1>10. ASSUME NEW n \in Pushes, SyncList(n) PROVE DuplicateInv'
  <2> DEFINE r == Listed(runs[n], "pre-commit-template-sync", "syncWrite")
  <2>1. r \in Run /\ Knows(r, "pre-commit-template-sync")
    BY <1>1, <1>3, ListedType, ListedKnows
  <2>2. r.at = "syncWrite"
    BY <1>3 DEF Listed, Run
  <2>3. runs' = [runs EXCEPT ![n] = r] /\ UNCHANGED <<content, comments, made, hand>>
    BY <1>10 DEF SyncList
  <2> HIDE DEF r
  <2>4. QED
    BY <1>1, <2>1, <2>2, <2>3, RunLists
<1>11. ASSUME NEW n \in Pushes, SyncWrite(n) PROVE DuplicateInv'
  <2>1. Written(runs[n], "pre-commit-template-sync", n, {}, {})
    BY <1>11 DEF SyncWrite
  <2>2. Thinned \/ (runs[n].target = 0 /\
                    Grown("pre-commit-template-sync", runs[n].saw, runs[n].page))
    BY <1>1, <1>3, <2>1, WrittenIs DEF Markers
  <2>3. Changed(runs[n], "pre-commit-template-sync")
    BY <1>11, <2>2 DEF Changed, SyncWrite, DuplicateInv, WritersKnow
  <2>4. QED
    BY <1>1, <1>2, <1>3, <1>11, <2>3, RunMovesOn DEF SyncWrite
<1>12. ASSUME NEW n \in Pushes, Hooks(n) PROVE DuplicateInv'
  <2> DEFINE r == IF FailingHooks(content[n]) = {} THEN Started("done")
                  ELSE [runs[n] EXCEPT !.at = "hintList", !.json = TRUE]
  <2>1. r \in Run /\ r.at \notin {"syncWrite", "hintWrite"}
    BY <1>2, <1>3 DEF Run
  <2>2. runs' = [runs EXCEPT ![n] = r] /\ UNCHANGED <<content, comments, made, hand>>
    BY <1>12 DEF Hooks
  <2> HIDE DEF r
  <2>3. QED
    BY <1>1, <1>2, <1>4, <2>1, <2>2, RunMovesOn
<1>13. ASSUME NEW n \in Pushes, HintList(n) PROVE DuplicateInv'
  <2> DEFINE l == Listed(runs[n], "pre-commit-aggregated-suggestions", "hintWrite")
             r == IF Captured(n) = {} /\ Suggested(n) = {} THEN Started("done") ELSE l
  <2>1. l \in Run /\ Knows(l, "pre-commit-aggregated-suggestions")
    BY <1>1, <1>3, ListedType, ListedKnows
  <2>2. l.at = "hintWrite"
    BY <1>3 DEF Listed, Run
  <2>3. runs' = [runs EXCEPT ![n] = r] /\ UNCHANGED <<content, comments, made, hand>>
    BY <1>13 DEF HintList
  <2> HIDE DEF l
  <2>4. r \in Run /\ (r.at = "hintWrite" => Knows(r, "pre-commit-aggregated-suggestions"))
        /\ r.at # "syncWrite"
    BY <1>2, <2>1, <2>2
  <2> HIDE DEF r
  <2>5. QED
    BY <1>1, <2>3, <2>4, RunLists
<1>14. ASSUME NEW n \in Pushes, HintWrite(n) PROVE DuplicateInv'
  <2>1. Written(runs[n], "pre-commit-aggregated-suggestions", n, Captured(n), Suggested(n))
    BY <1>14 DEF HintWrite
  <2>2. Thinned \/ (runs[n].target = 0 /\
                    Grown("pre-commit-aggregated-suggestions", runs[n].saw, runs[n].page))
    BY <1>1, <1>3, <2>1, WrittenIs DEF Markers
  <2>3. Changed(runs[n], "pre-commit-aggregated-suggestions")
    BY <1>14, <2>2 DEF Changed, HintWrite, DuplicateInv, WritersKnow
  <2>4. QED
    BY <1>1, <1>2, <1>3, <1>14, <2>3, RunMovesOn DEF HintWrite
<1>15. ASSUME NEW n \in Pushes, ApiFails(n) PROVE DuplicateInv'
  <2> DEFINE r == Started(IF runs[n].at \in {"syncList", "syncWrite"} THEN "hintList" ELSE "done")
  <2>1. r \in Run /\ r.at \notin {"syncWrite", "hintWrite"}
    BY <1>2
  <2>2. runs' = [runs EXCEPT ![n] = r] /\ UNCHANGED <<content, comments, made, hand>>
    BY <1>15 DEF ApiFails
  <2> HIDE DEF r
  <2>3. QED
    BY <1>1, <1>2, <1>4, <2>1, <2>2, RunMovesOn
<1>16. CASE HandList
  <2>1. Knows(Listed(hand, "srs-title-ascii-lint", "hintWrite"), "srs-title-ascii-lint")
    BY <1>1, ListedKnows DEF TypeOK
  <2>2. WritersKnow'
    BY <1>16, <2>1 DEF HandList, DuplicateInv, WritersKnow, Knows, Pushes
  <2>3. DuplicateHasCause'
    BY <1>16 DEF HandList, DuplicateInv, DuplicateHasCause
  <2>4. QED
    BY <1>1, <2>2, <2>3 DEF DuplicateInv
<1>17. CASE HandWrite
  <2>1. hand \in Run /\ 0 \in 0..MaxPushes /\ {"srs"} \in SUBSET Problems
    BY <1>1 DEF TypeOK, Problems
  <2>2. Thinned \/ (hand.target = 0 /\ Grown("srs-title-ascii-lint", hand.saw, hand.page))
    BY <1>1, <1>17, <2>1, WrittenIs DEF Markers, HandWrite
  <2>3. Changed(hand, "srs-title-ascii-lint")
    BY <1>17, <2>2 DEF Changed, HandWrite, DuplicateInv, WritersKnow
  <2>4. UNCHANGED <<content, runs>> /\ hand'.at = "done"
    BY <1>2, <1>17 DEF HandWrite
  <2>5. QED
    BY <1>1, <2>1, <2>3, <2>4, NoNewWriter DEF Pushes
<1>18. CASE PostComment
  <2> DEFINE r == [NewRun EXCEPT !.saw = made]
  <2>1. r \in Run
    BY <1>1, <1>2 DEF Run, TypeOK
  <2>2. Written(r, "none", 0, {}, {}) /\ UNCHANGED <<content, runs, hand>>
    BY <1>18 DEF PostComment
  <2> HIDE DEF r
  <2>3. Thinned \/ (r.target = 0 /\ Grown("none", r.saw, r.page))
    BY <1>1, <2>1, <2>2, WrittenIs DEF Markers
  <2>4. Changed(r, "none")
    BY <2>3 DEF Changed
  <2>5. QED
    BY <1>1, <2>1, <2>2, <2>4, NoNewWriter DEF Pushes
<1>19. CASE DeleteComment
  <2>1. Changed(NewRun, "none")
    BY <1>1, <1>19, DeletionThins DEF Changed
  <2>2. QED
    BY <1>1, <1>2, <1>19, <2>1, NoNewWriter DEF DeleteComment, Pushes
<1>20. CASE UNCHANGED vars
  BY <1>1, <1>2, <1>4, <1>20, NoNewWriter DEF vars, Pushes
<1>21. QED
  BY <1>6, <1>7, <1>8, <1>9, <1>10, <1>11, <1>12, <1>13, <1>14, <1>15, <1>16, <1>17,
     <1>18, <1>19, <1>20 DEF Next

\* Two comments of one script always have a cause: its two calls are not one,
\* or the page it was shown was full.
THEOREM DuplicateExplained == Spec => []DuplicateHasCause
<1>1. Init => DuplicateInv
  <2> SUFFICES ASSUME Init PROVE DuplicateInv
    OBVIOUS
  <2>1. TypeOK
    BY InitType
  <2>2. PICK c \in FirstContent : content = <<c>>
    BY DEF Init
  <2>3. Pushes = 1..1
    BY <2>2 DEF Pushes
  <2>4. runs[1].at = "lint" /\ hand.at = "done"
    BY DEF Init, NewRun, Started
  <2>5. DOMAIN comments = {}
    BY DEF Init
  <2>6. QED
    BY <2>1, <2>3, <2>4, <2>5 DEF DuplicateInv, WritersKnow, DuplicateHasCause
<1>2. DuplicateInv /\ [Next]_vars => DuplicateInv'
  BY DuplicateStep
<1>3. DuplicateInv => DuplicateHasCause
  BY DEF DuplicateInv
<1>4. QED
  BY <1>1, <1>2, <1>3, PTL DEF Spec

-----------------------------------------------------------------------------
(***************************************************************************)
(* What the comments on a pull request say, for every page size, every      *)
(* number of pushes and comments, and whatever the pushes hold.             *)
(***************************************************************************)

Sync == "pre-commit-template-sync"
Hints == "pre-commit-aggregated-suggestions"
Titles == "srs-title-ascii-lint"

-----------------------------------------------------------------------------
(* The invariant. *)

\* There is something to say about a push.
Blamed(c) == FailingHooks(c) # {} \/ ~c.noted \/ ~(StdLinks \subseteq c.links)

\* An id is the id of comments of one marker only, and has been given out.
IdsAreOfOne ==
    /\ \A i \in DOMAIN comments : comments[i].id <= made
    /\ \A i, j \in DOMAIN comments :
         comments[i].id = comments[j].id => comments[i].marker = comments[j].marker

\* The comment a writer is about to change is one of its own kind, whatever has
\* been written or deleted since it looked.
Aims(r, m) ==
    /\ r.target <= made
    /\ r.target # 0 =>
         \A i \in DOMAIN comments : comments[i].id = r.target => comments[i].marker = m

\* What a run is about to say can be said.
RunFine(r, c) ==
    /\ r.at = "syncWrite" => Aims(r, Sync)
    /\ r.at = "hintWrite" => Aims(r, Hints)
    /\ r.at \in {"syncList", "syncWrite", "hintList", "hintWrite"} => Blamed(c)

HintsFine ==
    \A i \in DOMAIN comments :
      comments[i].marker = Hints =>
        /\ comments[i].of \in Pushes
        /\ comments[i].hooks = FailingHooks(content[comments[i].of])
        /\ Blamed(content[comments[i].of])

HintInv ==
    /\ TypeOK /\ IdsAreOfOne /\ HintsFine
    /\ \A n \in Pushes : RunFine(runs[n], content[n])
    /\ hand.at = "hintWrite" => Aims(hand, Titles)

\* A push that is out of sync is blamed: where the links cannot be read, the
\* hook that checks them fails.
LEMMA SyncIsBlamed ==
    ASSUME NEW c \in Content, SyncNeeded(c)
    PROVE  Blamed(c)
<1>1. CASE ~c.readable
  <2>1. ~(StdLinks \union {"own"} \subseteq ExistingLinks(c))
    BY <1>1 DEF ExistingLinks
  <2>2. "precommit-hook-links" \in FailingHooks(c)
    BY <2>1 DEF FailingHooks, HookIds
  <2>3. QED
    BY <2>2 DEF Blamed
<1>2. CASE c.readable
  BY <1>2 DEF SyncNeeded, AddedLinks, ExistingLinks, Blamed
<1>3. QED
  BY <1>1, <1>2

-----------------------------------------------------------------------------
(* Changes of the comments. *)

\* Every comment afterwards was there before, or is one of marker m, written for
\* n: a new one, or what one of that marker has become.
Rewritten(m, n, h) ==
    /\ made' \in {made, made + 1}
    /\ \A i \in DOMAIN comments' :
         \/ \E j \in DOMAIN comments : comments'[i] = comments[j]
         \/ /\ comments'[i].marker = m /\ comments'[i].of = n /\ comments'[i].hooks = h
            /\ \/ comments'[i].id = made + 1 /\ made' = made + 1
               \/ \E j \in DOMAIN comments :
                    comments[j].id = comments'[i].id /\ comments[j].marker = m

LEMMA CommentTyped ==
    ASSUME TypeOK
    PROVE  /\ DOMAIN comments = 1..Len(comments) /\ Len(comments) \in Nat
           /\ \A i \in DOMAIN comments :
                comments[i] \in Comment /\ comments[i].id \in Nat \ {0}
           /\ made \in Nat
<1>1. comments \in Seq(Comment)
  BY DEF TypeOK
<1>2. DOMAIN comments = 1..Len(comments) /\ Len(comments) \in Nat
  BY <1>1, LenProperties
<1>3. \A i \in DOMAIN comments : comments[i] \in Comment
  BY <1>1, <1>2, ElementOfSeq
<1>4. QED
  BY <1>2, <1>3 DEF Comment, TypeOK

\* post_or_update_comment, second call: the comment it changes is of its kind.
LEMMA WriteRewrites ==
    ASSUME TypeOK, NEW r \in Run, NEW m \in Markers, NEW n, NEW h, NEW x,
           r.target # 0 => Aims(r, m), Written(r, m, n, h, x)
    PROVE  Rewritten(m, n, h)
<1>1. CASE /\ r.target # 0
           /\ comments' = [i \in DOMAIN comments |->
                      IF comments[i].id = r.target
                      THEN [comments[i] EXCEPT !.of = n, !.hooks = h, !.fixes = x]
                      ELSE comments[i]]
           /\ UNCHANGED made
  <2>1. ASSUME NEW i \in DOMAIN comments
        PROVE  \/ comments'[i] = comments[i]
               \/ /\ comments'[i].marker = m /\ comments'[i].of = n /\ comments'[i].hooks = h
                  /\ comments[i].id = comments'[i].id /\ comments[i].marker = m
    <3>1. comments[i] \in Comment
      BY CommentTyped
    <3>2. CASE comments[i].id = r.target
      <4>1. comments[i].marker = m
        BY <1>1, <3>2 DEF Aims
      <4>2. comments'[i] = [comments[i] EXCEPT !.of = n, !.hooks = h, !.fixes = x]
        BY <1>1, <3>2
      <4>3. QED
        BY <3>1, <4>1, <4>2 DEF Comment
    <3>3. CASE comments[i].id # r.target
      BY <1>1, <3>3
    <3>4. QED
      BY <3>2, <3>3
  <2>2. DOMAIN comments' = DOMAIN comments /\ made' = made
    BY <1>1
  <2>3. QED
    BY <2>1, <2>2 DEF Rewritten
<1>2. CASE /\ r.target = 0 /\ made < MaxComments
           /\ comments' = Append(comments, [id |-> made + 1, marker |-> m, of |-> n,
                            hooks |-> h, fixes |-> x, saw |-> r.saw, page |-> r.page])
           /\ made' = made + 1
  <2> DEFINE c == [id |-> made + 1, marker |-> m, of |-> n,
                   hooks |-> h, fixes |-> x, saw |-> r.saw, page |-> r.page]
  <2>1. c.id = made + 1 /\ c.marker = m /\ c.of = n /\ c.hooks = h
    OBVIOUS
  <2> HIDE DEF c
  <2>2. comments' = Append(comments, c) /\ made' = made + 1
    BY <1>2 DEF c
  <2>3. \A i \in DOMAIN comments' :
          (i \in DOMAIN comments /\ comments'[i] = comments[i]) \/ comments'[i] = c
    BY <2>2, CommentTyped DEF TypeOK
  <2>4. QED
    BY <2>1, <2>2, <2>3 DEF Rewritten
<1>3. QED
  BY <1>1, <1>2 DEF Written

LEMMA DeletionRewrites ==
    ASSUME TypeOK, DeleteComment, NEW m, NEW n, NEW h
    PROVE  Rewritten(m, n, h)
<1>1. PICK k \in DOMAIN comments :
        comments' = [j \in 1..(Len(comments) - 1) |-> comments[IF j < k THEN j ELSE j + 1]]
  BY DEF DeleteComment
<1>2. \A j \in 1..(Len(comments) - 1) : (IF j < k THEN j ELSE j + 1) \in DOMAIN comments
  BY CommentTyped
<1>3. \A j \in DOMAIN comments' : \E i \in DOMAIN comments : comments'[j] = comments[i]
  BY <1>1, <1>2
<1>4. QED
  BY <1>3 DEF Rewritten, DeleteComment

\* Who aims at its own kind still does after any such change.
LEMMA AimKept ==
    ASSUME TypeOK, IdsAreOfOne, NEW m, NEW n, NEW h, Rewritten(m, n, h),
           NEW r \in Run, NEW k, Aims(r, k)
    PROVE  r.target <= made' /\ (r.target # 0 =>
             \A i \in DOMAIN comments' : comments'[i].id = r.target => comments'[i].marker = k)
<1>1. r.target \in Nat /\ made \in Nat /\ made' \in {made, made + 1}
  BY CommentTyped DEF Run, Rewritten
<1>2. r.target <= made /\ r.target <= made'
  BY <1>1 DEF Aims
<1>3. ASSUME r.target # 0, NEW i \in DOMAIN comments', comments'[i].id = r.target
      PROVE  comments'[i].marker = k
  <2>1. comments'[i].id # made + 1
    BY <1>1, <1>2, <1>3
  <2>2. QED
    BY <1>3, <2>1 DEF Rewritten, Aims
<1>4. QED
  BY <1>2, <1>3

\* And ids are still of one marker.
LEMMA IdsKept ==
    ASSUME TypeOK, IdsAreOfOne, NEW m, NEW n, NEW h, Rewritten(m, n, h)
    PROVE  IdsAreOfOne'
<1>1. made \in Nat /\ made' \in {made, made + 1}
  BY CommentTyped DEF Rewritten
<1>2. ASSUME NEW i \in DOMAIN comments' PROVE comments'[i].id <= made'
  <2>1. CASE \E j \in DOMAIN comments : comments'[i].id = comments[j].id
    <3>1. PICK j \in DOMAIN comments : comments'[i].id = comments[j].id
      BY <2>1
    <3>2. comments[j].id \in Nat /\ comments[j].id <= made
      BY CommentTyped DEF IdsAreOfOne
    <3>3. QED
      BY <1>1, <3>1, <3>2
  <2>2. CASE comments'[i].id = made + 1 /\ made' = made + 1
    BY <1>1, <2>2
  <2>3. QED
    BY <2>1, <2>2 DEF Rewritten
<1> DEFINE Old(i) == \E j \in DOMAIN comments :
                       comments[j].id = comments'[i].id /\ comments[j].marker = comments'[i].marker
           New(i) == comments'[i].id = made + 1 /\ comments'[i].marker = m
<1>3. ASSUME NEW i \in DOMAIN comments' PROVE Old(i) \/ New(i)
  BY DEF Rewritten
<1>4. ASSUME NEW i \in DOMAIN comments', NEW j \in DOMAIN comments', comments'[i].id = comments'[j].id
      PROVE  comments'[i].marker = comments'[j].marker
  <2>1. \A k \in DOMAIN comments : comments[k].id # made + 1
    <3> TAKE k \in DOMAIN comments
    <3>1. comments[k].id \in Nat /\ comments[k].id <= made
      BY CommentTyped DEF IdsAreOfOne
    <3>2. QED
      BY <1>1, <3>1
  <2>2. CASE Old(i) /\ Old(j)
    BY <1>4, <2>2 DEF IdsAreOfOne
  <2>3. CASE New(i) /\ New(j)
    BY <2>3
  <2>4. CASE (Old(i) /\ New(j)) \/ (New(i) /\ Old(j))
    BY <1>4, <2>1, <2>4
  <2>5. QED
    BY <1>3, <2>2, <2>3, <2>4
<1>5. QED
  BY <1>2, <1>4 DEF IdsAreOfOne

\* The pushes there are stay as they are.
Grows == \A n \in Pushes : n \in Pushes' /\ content'[n] = content[n]

\* And what is said is right, if what is written is.
LEMMA HintsKept ==
    ASSUME HintsFine, Grows, NEW m, NEW n, NEW h, Rewritten(m, n, h),
           m = Hints => n \in Pushes /\ h = FailingHooks(content[n]) /\ Blamed(content[n])
    PROVE  HintsFine'
<1> SUFFICES ASSUME NEW i \in DOMAIN comments', comments'[i].marker = Hints
             PROVE  /\ comments'[i].of \in Pushes'
                    /\ comments'[i].hooks = FailingHooks(content'[comments'[i].of])
                    /\ Blamed(content'[comments'[i].of])
  BY DEF HintsFine, FailingHooks, ExistingLinks, Blamed
<1>1. /\ comments'[i].of \in Pushes
      /\ comments'[i].hooks = FailingHooks(content[comments'[i].of])
      /\ Blamed(content[comments'[i].of])
  BY DEF Rewritten, HintsFine
<1>2. comments'[i].of \in Pushes' /\ content'[comments'[i].of] = content[comments'[i].of]
  BY <1>1 DEF Grows
<1>3. QED
  BY <1>1, <1>2

-----------------------------------------------------------------------------
(* The steps. *)

\* A step of one push's run: it lists only what it may say something about, and
\* aims at what it has found.
LEMMA RunStep ==
    ASSUME HintInv, TypeOK', NEW n \in Pushes, NEW r \in Run, NEW m, NEW o, NEW h,
           runs' = [runs EXCEPT ![n] = r], UNCHANGED <<content, hand>>,
           Rewritten(m, o, h),
           m = Hints => o \in Pushes /\ h = FailingHooks(content[o]) /\ Blamed(content[o]),
           r.at = "syncWrite" => Aims(r, Sync), r.at = "hintWrite" => Aims(r, Hints),
           r.at \in {"syncList", "syncWrite", "hintList", "hintWrite"} => Blamed(content[n])
    PROVE  HintInv'
<1>1. runs \in Seq(Run) /\ Len(runs) = Len(content) /\ TypeOK /\ IdsAreOfOne /\ hand \in Run
  BY DEF HintInv, TypeOK
<1>2. \A k \in Pushes : runs'[k] = (IF k = n THEN r ELSE runs[k]) /\ runs[k] \in Run
  BY <1>1, ExceptSeq, ElementOfSeq DEF Pushes
<1>3. Grows /\ Pushes' = Pushes
  BY DEF Grows, Pushes
<1>4. ASSUME NEW q \in Run, NEW k, Aims(q, k)
      PROVE  q.target <= made' /\ (q.target # 0 =>
               \A i \in DOMAIN comments' : comments'[i].id = q.target => comments'[i].marker = k)
  BY <1>1, <1>4, AimKept
<1>5. ASSUME NEW k \in Pushes PROVE RunFine(runs[k], content[k])'
  <2>1. PICK q \in Run : q = runs'[k]
    BY <1>2
  <2>2. RunFine(q, content[k])
    BY <1>2, <2>1 DEF HintInv, RunFine
  <2>3. /\ q.at = "syncWrite" => Aims(q, Sync)
        /\ q.at = "hintWrite" => Aims(q, Hints)
        /\ q.at \in {"syncList", "syncWrite", "hintList", "hintWrite"} => Blamed(content[k])
    BY <2>2 DEF RunFine
  <2>4. q.at = "syncWrite" => Aims(q, Sync)'
    BY <1>4, <2>3 DEF Aims
  <2>5. q.at = "hintWrite" => Aims(q, Hints)'
    BY <1>4, <2>3 DEF Aims
  <2>6. Blamed(content[k])' <=> Blamed(content[k])
    BY DEF Blamed, FailingHooks, ExistingLinks
  <2>7. QED
    BY <2>1, <2>3, <2>4, <2>5, <2>6 DEF RunFine, Aims
<1>6. hand'.at = "hintWrite" => Aims(hand, Titles)'
  BY <1>1, <1>4 DEF HintInv, Aims
<1>7. IdsAreOfOne' /\ HintsFine'
  BY <1>1, <1>3, IdsKept, HintsKept DEF HintInv
<1>8. QED
  BY <1>3, <1>5, <1>6, <1>7 DEF HintInv

\* A step of nobody's run: a push, a comment by hand, a deletion.
LEMMA OtherStep ==
    ASSUME HintInv, TypeOK', Grows, NEW m, NEW o, NEW h, Rewritten(m, o, h), m # Hints,
           \A k \in Pushes' : (k \in Pushes /\ runs'[k] = runs[k]) \/ runs'[k].at = "lint",
           hand'.at = "hintWrite" => hand' = hand \/ (Aims(hand', Titles) /\ UNCHANGED <<comments, made>>)
    PROVE  HintInv'
<1>1. runs \in Seq(Run) /\ Len(runs) = Len(content) /\ TypeOK /\ IdsAreOfOne /\ hand \in Run
  BY DEF HintInv, TypeOK
<1>2. \A k \in Pushes : runs[k] \in Run
  BY <1>1, ElementOfSeq DEF Pushes
<1>3. ASSUME NEW q \in Run, NEW k, Aims(q, k)
      PROVE  q.target <= made' /\ (q.target # 0 =>
               \A i \in DOMAIN comments' : comments'[i].id = q.target => comments'[i].marker = k)
  BY <1>1, <1>3, AimKept
<1>4. ASSUME NEW k \in Pushes' PROVE RunFine(runs[k], content[k])'
  <2>1. CASE runs'[k].at = "lint"
    BY <2>1 DEF RunFine
  <2>2. CASE k \in Pushes /\ runs'[k] = runs[k]
    <3>1. content'[k] = content[k]
      BY <2>2 DEF Grows
    <3>2. PICK q \in Run : q = runs[k]
      BY <1>2, <2>2
    <3>3. /\ q.at = "syncWrite" => Aims(q, Sync)
          /\ q.at = "hintWrite" => Aims(q, Hints)
          /\ q.at \in {"syncList", "syncWrite", "hintList", "hintWrite"} => Blamed(content[k])
      BY <2>2, <3>2 DEF HintInv, RunFine
    <3>4. q.at = "syncWrite" => Aims(q, Sync)'
      BY <1>3, <3>3 DEF Aims
    <3>5. q.at = "hintWrite" => Aims(q, Hints)'
      BY <1>3, <3>3 DEF Aims
    <3>6. QED
      BY <2>2, <3>1, <3>2, <3>3, <3>4, <3>5 DEF RunFine, Aims, Blamed, FailingHooks, ExistingLinks
  <2>3. QED
    BY <2>1, <2>2
<1>5. hand'.at = "hintWrite" => Aims(hand, Titles)'
  <2>1. CASE hand' = hand
    BY <1>1, <1>3, <2>1 DEF HintInv, Aims
  <2>2. CASE Aims(hand', Titles) /\ UNCHANGED <<comments, made>>
    BY <2>2 DEF Aims
  <2>3. QED
    BY <2>1, <2>2
<1>6. IdsAreOfOne' /\ HintsFine'
  BY <1>1, IdsKept, HintsKept DEF HintInv
<1>7. QED
  BY <1>4, <1>5, <1>6 DEF HintInv

\* A listing finds a comment of its kind.
LEMMA ListedAims ==
    ASSUME TypeOK, IdsAreOfOne, NEW r \in Run, NEW m, NEW next \in Steps
    PROVE  Aims(Listed(r, m, next), m) /\ Listed(r, m, next).at = next
<1>1. Listed(r, m, next).target = Existing(m) /\ Listed(r, m, next).at = next
  BY DEF Listed, Run
<1>2. CASE Existing(m) = 0
  BY <1>1, <1>2, CommentTyped DEF Aims
<1>3. CASE Existing(m) # 0
  <2>1. PICK i \in WithMarker(m) : Page[i].id = Existing(m)
    BY <1>3, SearchFinds
  <2>2. i \in DOMAIN comments /\ comments[i].id = Existing(m) /\ comments[i].marker = m
    BY <2>1, PageIsPrefix DEF WithMarker
  <2>3. QED
    BY <1>1, <2>2 DEF Aims, IdsAreOfOne
<1>4. QED
  BY <1>2, <1>3

LEMMA NothingRewritten ==
    ASSUME UNCHANGED <<comments, made>>, NEW m, NEW n, NEW h
    PROVE  Rewritten(m, n, h)
BY DEF Rewritten

LEMMA HintStep ==
    ASSUME HintInv, [Next]_vars
    PROVE  HintInv'
<1> USE DEF Steps
<1>1. TypeOK /\ TypeOK' /\ IdsAreOfOne
  BY TypeStep DEF HintInv
<1>2. NewRun \in Run /\ NewRun.at = "lint"
      /\ \A at \in Steps : Started(at) \in Run /\ Started(at).at = at
  BY StartedType DEF NewRun, Started
<1>3. ASSUME NEW n \in Pushes
      PROVE  runs[n] \in Run /\ content[n] \in Content /\ RunFine(runs[n], content[n])
  BY <1>1, ElementOfSeq DEF TypeOK, Pushes, HintInv
<1>4. Sync \in Markers /\ Hints \in Markers /\ Titles \in Markers /\ "none" \in Markers
      /\ Sync # Hints /\ Titles # Hints /\ "none" # Hints
  BY DEF Markers, Sync, Hints, Titles
<1>5. ASSUME NEW c \in Content, Push(c) PROVE HintInv'
  <2>1. runs \in Seq(Run) /\ Len(runs) = Len(content) /\ Len(content) \in Nat
        /\ content \in Seq(Content)
    BY <1>1 DEF TypeOK
  <2>2. Len(content') = Len(content) + 1 /\ runs'[Len(content) + 1] = NewRun
        /\ \A k \in Pushes : runs'[k] = runs[k] /\ content'[k] = content[k]
    BY <1>2, <1>5, <2>1, AppendProperties DEF Push, Pushes
  <2>3. (\A k \in Pushes' : k \in Pushes \/ k = Len(content) + 1) /\ Pushes \subseteq Pushes'
    BY <2>1, <2>2 DEF Pushes
  <2>4. Rewritten("none", 0, {}) /\ hand' = hand
    BY <1>5, NothingRewritten DEF Push
  <2>5. Grows
    BY <2>2, <2>3 DEF Grows
  <2>6. QED
    BY <1>1, <1>2, <1>4, <2>2, <2>3, <2>4, <2>5, OtherStep
<1>6. CASE Edit
  BY <1>5, <1>6, ContentAssumption DEF Edit
<1>7. CASE SyncTemplates
  <2>1. Synced(content[Len(content)]) \in Content
    BY <1>1, PushContent DEF Synced, Content, ExistingLinks
  <2>2. QED
    BY <1>5, <1>7, <2>1 DEF SyncTemplates
<1>8. CASE FixTitles
  <2>1. TitlesFixed(content[Len(content)]) \in Content
    BY <1>1, PushContent DEF TitlesFixed, Content
  <2>2. QED
    BY <1>5, <1>8, <2>1 DEF FixTitles
<1>9. ASSUME NEW n \in Pushes, Lint(n) PROVE HintInv'
  <2> DEFINE r == [runs[n] EXCEPT !.at = IF SyncNeeded(content[n]) THEN "syncList" ELSE "hooks"]
  <2>1. r \in Run /\ r.at \in {"syncList", "hooks"} /\ (r.at = "syncList" => SyncNeeded(content[n]))
    BY <1>3 DEF Run
  <2>2. runs' = [runs EXCEPT ![n] = r] /\ UNCHANGED <<content, comments, made, hand>>
    BY <1>9 DEF Lint
  <2> HIDE DEF r
  <2>3. r.at = "syncList" => Blamed(content[n])
    BY <1>3, <2>1, SyncIsBlamed
  <2>4. Rewritten("none", 0, {})
    BY <2>2, NothingRewritten
  <2>5. QED
    BY <1>1, <1>4, <2>1, <2>2, <2>3, <2>4, RunStep
<1>10. ASSUME NEW n \in Pushes, SyncList(n) PROVE HintInv'
  <2> DEFINE r == Listed(runs[n], Sync, "syncWrite")
  <2>1. r \in Run /\ Aims(r, Sync) /\ r.at = "syncWrite"
    BY <1>1, <1>3, ListedType, ListedAims
  <2>2. runs' = [runs EXCEPT ![n] = r] /\ UNCHANGED <<content, comments, made, hand>>
    BY <1>10 DEF SyncList, Sync
  <2> HIDE DEF r
  <2>3. Blamed(content[n])
    BY <1>3, <1>10 DEF SyncList, RunFine
  <2>4. Rewritten("none", 0, {})
    BY <2>2, NothingRewritten
  <2>5. QED
    BY <1>1, <1>4, <2>1, <2>2, <2>3, <2>4, RunStep
<1>11. ASSUME NEW n \in Pushes, SyncWrite(n) PROVE HintInv'
  <2>1. Written(runs[n], Sync, n, {}, {}) /\ runs' = [runs EXCEPT ![n] = Started("hintList")]
        /\ UNCHANGED <<content, hand>> /\ runs[n].at = "syncWrite"
    BY <1>11 DEF SyncWrite, Sync
  <2>2. Aims(runs[n], Sync) /\ Blamed(content[n])
    BY <1>3, <2>1 DEF RunFine
  <2>3. Rewritten(Sync, n, {})
    BY <1>1, <1>3, <1>4, <2>1, <2>2, WriteRewrites
  <2>4. QED
    BY <1>1, <1>2, <1>4, <2>1, <2>2, <2>3, RunStep
<1>12. ASSUME NEW n \in Pushes, Hooks(n) PROVE HintInv'
  <2> DEFINE r == IF FailingHooks(content[n]) = {} THEN Started("done")
                  ELSE [runs[n] EXCEPT !.at = "hintList", !.json = TRUE]
  <2>1. r \in Run /\ r.at \in {"done", "hintList"}
        /\ (r.at = "hintList" => FailingHooks(content[n]) # {})
    BY <1>2, <1>3 DEF Run
  <2>2. runs' = [runs EXCEPT ![n] = r] /\ UNCHANGED <<content, comments, made, hand>>
    BY <1>12 DEF Hooks
  <2> HIDE DEF r
  <2>3. r.at = "hintList" => Blamed(content[n])
    BY <2>1 DEF Blamed
  <2>4. Rewritten("none", 0, {})
    BY <2>2, NothingRewritten
  <2>5. QED
    BY <1>1, <1>4, <2>1, <2>2, <2>3, <2>4, RunStep
<1>13. ASSUME NEW n \in Pushes, HintList(n) PROVE HintInv'
  <2> DEFINE l == Listed(runs[n], Hints, "hintWrite")
             r == IF Captured(n) = {} /\ Suggested(n) = {} THEN Started("done") ELSE l
  <2>1. l \in Run /\ Aims(l, Hints) /\ l.at = "hintWrite"
    BY <1>1, <1>3, ListedType, ListedAims
  <2>2. runs' = [runs EXCEPT ![n] = r] /\ UNCHANGED <<content, comments, made, hand>>
    BY <1>13 DEF HintList, Hints
  <2> HIDE DEF l
  <2>3. r \in Run /\ r.at \in {"done", "hintWrite"} /\ (r.at = "hintWrite" => Aims(r, Hints))
    BY <1>2, <2>1
  <2> HIDE DEF r
  <2>4. Blamed(content[n])
    BY <1>3, <1>13 DEF HintList, RunFine
  <2>5. Rewritten("none", 0, {})
    BY <2>2, NothingRewritten
  <2>6. QED
    BY <1>1, <1>4, <2>2, <2>3, <2>4, <2>5, RunStep
<1>14. ASSUME NEW n \in Pushes, HintWrite(n) PROVE HintInv'
  <2>1. Written(runs[n], Hints, n, Captured(n), Suggested(n))
        /\ runs' = [runs EXCEPT ![n] = Started("done")]
        /\ UNCHANGED <<content, hand>> /\ runs[n].at = "hintWrite"
    BY <1>14 DEF HintWrite, Hints
  <2>2. Aims(runs[n], Hints) /\ Blamed(content[n])
    BY <1>3, <2>1 DEF RunFine
  <2>3. Rewritten(Hints, n, Captured(n))
    BY <1>1, <1>3, <1>4, <2>1, <2>2, WriteRewrites
  <2>4. Captured(n) = FailingHooks(content[n])
    BY DEF Captured
  <2>5. QED
    BY <1>1, <1>2, <2>1, <2>2, <2>3, <2>4, RunStep
<1>15. ASSUME NEW n \in Pushes, ApiFails(n) PROVE HintInv'
  <2> DEFINE r == Started(IF runs[n].at \in {"syncList", "syncWrite"} THEN "hintList" ELSE "done")
  <2>1. r \in Run /\ r.at \in {"done", "hintList"}
    BY <1>2
  <2>2. runs' = [runs EXCEPT ![n] = r] /\ UNCHANGED <<content, comments, made, hand>>
    BY <1>15 DEF ApiFails
  <2> HIDE DEF r
  <2>3. Blamed(content[n])
    BY <1>3, <1>15 DEF ApiFails, RunFine
  <2>4. Rewritten("none", 0, {})
    BY <2>2, NothingRewritten
  <2>5. QED
    BY <1>1, <1>4, <2>1, <2>2, <2>3, <2>4, RunStep
<1>16. CASE HandList
  <2>1. hand' = Listed(hand, Titles, "hintWrite") /\ UNCHANGED <<content, runs, comments, made>>
    BY <1>16 DEF HandList, Titles
  <2>2. Aims(hand', Titles)
    BY <1>1, <2>1, ListedAims DEF TypeOK
  <2>3. Rewritten("none", 0, {}) /\ Grows /\ Pushes' = Pushes
    BY <2>1, NothingRewritten DEF Grows, Pushes
  <2>4. QED
    BY <1>1, <1>4, <2>1, <2>2, <2>3, OtherStep
<1>17. CASE HandWrite
  <2>1. Written(hand, Titles, 0, {}, {"srs"}) /\ UNCHANGED <<content, runs>>
        /\ hand' = Started("done") /\ hand.at = "hintWrite"
    BY <1>17 DEF HandWrite, Titles
  <2>2. Rewritten(Titles, 0, {})
    BY <1>1, <1>4, <2>1, WriteRewrites DEF HintInv, TypeOK
  <2>3. Grows /\ Pushes' = Pushes /\ hand'.at # "hintWrite"
    BY <1>2, <2>1 DEF Grows, Pushes
  <2>4. QED
    BY <1>1, <1>4, <2>1, <2>2, <2>3, OtherStep
<1>18. CASE PostComment
  <2> DEFINE r == [NewRun EXCEPT !.saw = made]
  <2>1. r \in Run /\ r.target = 0
    BY <1>1, <1>2 DEF Run, TypeOK, NewRun, Started
  <2>2. Written(r, "none", 0, {}, {}) /\ UNCHANGED <<content, runs, hand>>
    BY <1>18 DEF PostComment
  <2> HIDE DEF r
  <2>3. Rewritten("none", 0, {})
    BY <1>1, <1>4, <2>1, <2>2, WriteRewrites
  <2>4. Grows /\ Pushes' = Pushes
    BY <2>2 DEF Grows, Pushes
  <2>5. QED
    BY <1>1, <1>4, <2>2, <2>3, <2>4, OtherStep
<1>19. CASE DeleteComment
  <2>1. Rewritten("none", 0, {}) /\ UNCHANGED <<content, runs, hand>>
    BY <1>1, <1>19, DeletionRewrites DEF DeleteComment
  <2>2. Grows /\ Pushes' = Pushes
    BY <2>1 DEF Grows, Pushes
  <2>3. QED
    BY <1>1, <1>4, <2>1, <2>2, OtherStep
<1>20. CASE UNCHANGED vars
  <2>1. UNCHANGED <<content, runs, comments, made, hand>>
    BY <1>20 DEF vars
  <2>2. Rewritten("none", 0, {}) /\ Grows /\ Pushes' = Pushes
    BY <2>1, NothingRewritten DEF Grows, Pushes
  <2>3. QED
    BY <1>1, <1>4, <2>1, <2>2, OtherStep
<1>21. QED
  BY <1>6, <1>7, <1>8, <1>9, <1>10, <1>11, <1>12, <1>13, <1>14, <1>15, <1>16, <1>17,
     <1>18, <1>19, <1>20 DEF Next

LEMMA HintInit == Init => HintInv
<1> SUFFICES ASSUME Init PROVE HintInv
  OBVIOUS
<1>1. TypeOK
  BY InitType
<1>2. PICK c \in FirstContent : content = <<c>>
  BY DEF Init
<1>3. Pushes = 1..1 /\ runs[1].at = "lint" /\ hand.at = "done" /\ DOMAIN comments = {}
  BY <1>2 DEF Pushes, Init, NewRun, Started
<1>4. QED
  BY <1>1, <1>3 DEF HintInv, RunFine, IdsAreOfOne, HintsFine

\* Synchronising the templates settles them: here it matters that there are
\* links to add, for only then a file that is no JSON is written anew.
LEMMA SyncedIsSettled ==
    ASSUME NEW c \in Content
    PROVE  LET d == Synced(c) IN
             /\ d.noted /\ StdLinks \subseteq d.links /\ d.readable
             /\ c.readable => c.links \subseteq d.links
<1> DEFINE d == Synced(c)
<1>1. /\ d.noted = TRUE /\ d.readable = (c.readable \/ AddedLinks(c) # {})
      /\ d.links = IF AddedLinks(c) = {} THEN c.links ELSE ExistingLinks(c) \union StdLinks
  BY DEF Synced, Content
<1>2. CASE AddedLinks(c) = {}
  <2>1. c.readable /\ StdLinks \subseteq c.links
    BY <1>2, LinksAssumption DEF AddedLinks, ExistingLinks
  <2>2. QED
    BY <1>1, <1>2, <2>1
<1>3. CASE AddedLinks(c) # {}
  BY <1>1, <1>3 DEF ExistingLinks
<1>4. QED
  BY <1>2, <1>3

LEMMA SettleStep ==
    ASSUME TypeOK, SyncTemplates
    PROVE  LET c == content[Len(content)]  d == content'[Len(content')] IN
             /\ d.noted /\ StdLinks \subseteq d.links /\ d.readable
             /\ c.readable => c.links \subseteq d.links
<1> DEFINE c == content[Len(content)]
<1>1. c \in Content
  BY PushContent
<1>2. content' = Append(content, Synced(c)) /\ content \in Seq(Content) /\ Synced(c) \in Content
  BY <1>1 DEF SyncTemplates, Push, TypeOK, Synced, Content, ExistingLinks
<1> HIDE DEF c
<1>3. content'[Len(content')] = Synced(c)
  BY <1>2, AppendProperties
<1>4. QED
  BY <1>1, <1>3, SyncedIsSettled DEF c

\* The aggregated comment lists the hooks that fail on the push it was written
\* for and is not written for one that passes; and doing what the comments ask
\* for is enough.
THEOREM CommentsAreRight == Spec => CommentsHelp
<1>1. HintInv /\ [Next]_vars => HintInv'
  BY HintStep
<1>2. HintInv => TypeOK /\ SaysWhatFailed
  BY DEF HintInv, HintsFine, SaysWhatFailed, Blamed, Hints
<1>3. HintInv /\ [Next]_vars =>
        (SyncTemplates =>
           LET c == content[Len(content)]  d == content'[Len(content')] IN
             /\ d.noted /\ StdLinks \subseteq d.links /\ d.readable
             /\ c.readable => c.links \subseteq d.links)
  BY SettleStep DEF HintInv
<1>4. QED
  BY HintInit, <1>1, <1>2, <1>3, PTL DEF Spec, CommentsHelp, SyncSettles
===============================================================================
