------------------------- MODULE ComicEditorProofs --------------------------
(***************************************************************************)
(* Theorems about ComicEditor, for any drafts, jobs and bounds: what the    *)
(* header calls saved is saved, the editor knows which draft it edits, and  *)
(* a submission whose answer was lost is not paid twice.                    *)
(***************************************************************************)
EXTENDS ComicEditor, SequenceTheorems, TLAPS
-----------------------------------------------------------------------------
(* Undo and redo: only a change trims, and moving between the stacks keeps  *)
(* their sum.                                                               *)
IsStack(s) == \E S : s \in Seq(S)

StackInv == IsStack(history) /\ IsStack(future) /\ UndoBounded

LEMMA TrimmedIsShort ==
  ASSUME NEW S, NEW s \in Seq(S)
  PROVE  Trimmed(s) \in Seq(S) /\ Len(Trimmed(s)) <= HistoryLimit - 1
<1> DEFINE n == HistoryLimit - 1
<1>1. n \in Nat /\ Len(s) \in Nat
  BY LimitAssumption
<1> HIDE DEF n
<1>2. CASE Len(s) <= n
  BY <1>1, <1>2 DEF Trimmed, Last, n
<1>3. CASE Len(s) > n
  <2>1. Trimmed(s) = SubSeq(s, Len(s) - n + 1, Len(s))
    BY <1>1, <1>3 DEF Trimmed, Last, n
  <2>2. \A i \in (Len(s) - n + 1)..Len(s) : i \in 1..Len(s)
    BY <1>1, <1>3
  <2>3. SubSeq(s, Len(s) - n + 1, Len(s)) \in Seq(S)
    BY <1>1, <2>2, SubSeqProperties
  <2>4. Len(SubSeq(s, Len(s) - n + 1, Len(s))) = n
    BY <1>1, <1>3, <2>2, SubSeqProperties
  <2> QED BY <1>1, <2>1, <2>3, <2>4 DEF n
<1> QED BY <1>1, <1>2, <1>3

LEMMA Pushed ==
  ASSUME NEW s, IsStack(s), NEW x
  PROVE  IsStack(Append(s, x)) /\ Len(Append(s, x)) = Len(s) + 1
<1>1. PICK S : s \in Seq(S)
  BY DEF IsStack
<1>2. s \in Seq(S \cup {x})
  BY <1>1
<1>3. Append(s, x) \in Seq(S \cup {x}) /\ Len(Append(s, x)) = Len(s) + 1
  BY <1>2, AppendProperties
<1> QED BY <1>3 DEF IsStack

LEMMA Popped ==
  ASSUME NEW s, IsStack(s), s # <<>>
  PROVE  IsStack(Front(s)) /\ Len(Front(s)) = Len(s) - 1 /\ Len(s) \in Nat
<1>1. PICK S : s \in Seq(S)
  BY DEF IsStack
<1>2. Len(s) \in Nat \ {0}
  BY <1>1, EmptySeq
<1> DEFINE n == Len(s) - 1
<1>3. n \in Nat
  BY <1>2
<1>4. n = Len(s) - 1 /\ Front(s) = SubSeq(s, 1, n)
  BY DEF Front
<1> HIDE DEF n
<1>5. SubSeq(s, 1, n) \in Seq(S) /\ Len(SubSeq(s, 1, n)) = IF 1 <= n THEN n - 1 + 1 ELSE 0
  <2>1. \A i \in 1..n : i \in 1..Len(s)
    BY <1>2, <1>3, <1>4
  <2> QED BY <1>1, <1>3, <2>1, SubSeqProperties
<1>6. IsStack(Front(s))
  BY <1>4, <1>5 DEF IsStack
<1>7. Len(Front(s)) = IF 1 <= n THEN n - 1 + 1 ELSE 0
  BY <1>4, <1>5
<1>8. Len(Front(s)) = n
  BY <1>3, <1>7
<1> QED BY <1>2, <1>4, <1>6, <1>8

LEMMA ChangeBounds ==
  ASSUME StackInv, history' = Append(Trimmed(history), doc), future' = <<>>
  PROVE  StackInv'
<1>1. PICK S : history \in Seq(S)
  BY DEF StackInv, IsStack
<1>2. IsStack(Trimmed(history)) /\ Len(Trimmed(history)) \in Nat
      /\ Len(Trimmed(history)) <= HistoryLimit - 1
  BY <1>1, TrimmedIsShort DEF IsStack
<1>3. IsStack(history') /\ Len(history') = Len(Trimmed(history)) + 1
  BY <1>2, Pushed
<1>4. IsStack(future') /\ Len(future') = 0
  BY DEF IsStack
<1> QED BY <1>2, <1>3, <1>4, LimitAssumption DEF StackInv, UndoBounded

LEMMA StackStep ==
  ASSUME StackInv, [Next]_vars
  PROVE  StackInv'
<1>0. /\ IsStack(history) /\ IsStack(future) /\ IsStack(<<>>) /\ Len(<<>>) = 0
      /\ Len(history) \in Nat /\ Len(future) \in Nat
  BY DEF StackInv, IsStack
<1>1. ASSUME UNCHANGED <<history, future>> PROVE StackInv'
  BY <1>1 DEF StackInv, UndoBounded
<1>2. ASSUME history' = <<>>, future' = <<>> PROVE StackInv'
  BY <1>0, <1>2, LimitAssumption DEF StackInv, UndoBounded
<1>3. ASSUME NEW value, NEW keep, Activate(value, keep) PROVE StackInv'
  BY <1>2, <1>3, ChangeBounds DEF Activate
<1>4. ASSUME NEW next, Change(next) PROVE StackInv'
  BY <1>4, ChangeBounds DEF Change
<1>5. CASE Undo
  <2>1. history # <<>> /\ history' = Front(history) /\ future' = Append(future, doc)
    BY <1>5 DEF Undo
  <2>2. IsStack(history') /\ Len(history') = Len(history) - 1
    BY <1>0, <2>1, Popped
  <2>3. IsStack(future') /\ Len(future') = Len(future) + 1
    BY <1>0, <2>1, Pushed
  <2> QED BY <1>0, <2>2, <2>3, LimitAssumption DEF StackInv, UndoBounded
<1>6. CASE Redo
  <2>1. future # <<>> /\ future' = Front(future) /\ history' = Append(history, doc)
    BY <1>6 DEF Redo
  <2>2. IsStack(future') /\ Len(future') = Len(future) - 1
    BY <1>0, <2>1, Popped
  <2>3. IsStack(history') /\ Len(history') = Len(history) + 1
    BY <1>0, <2>1, Pushed
  <2> QED BY <1>0, <2>2, <2>3, LimitAssumption DEF StackInv, UndoBounded
<1>7. CASE EditStory \/ EditArt \/ FinishUpload
  BY <1>4, <1>7 DEF EditStory, EditArt, FinishUpload
<1>8. CASE PollEnded
  BY <1>1, <1>4, <1>8 DEF PollEnded, Adjust
<1>9. CASE Leave
  BY <1>2, <1>9 DEF Leave, Mount
<1>10. CASE FileRead
  BY <1>1, <1>3, <1>4, <1>10 DEF FileRead, session
<1>11. CASE Choose \/ Answer
  BY <1>1, <1>3, <1>11 DEF Choose, Answer, Perform, session
<1>12. CASE ResolveConflict \/ Restore
  BY <1>1, <1>3, <1>12 DEF ResolveConflict, BeginCopy, Restore, session
<1>13. CASE Opened \/ Removed
  BY <1>1, <1>2, <1>3, <1>13 DEF Opened, Removed, Mount, session
<1>14. CASE UNCHANGED vars
  BY <1>1, <1>14 DEF vars, session
<1>15. CASE \/ StartUpload \/ DismissRecovery \/ Save \/ SaveCopy \/ (\E op \in Ops : ReadFile(op))
            \/ (\E panel \in BOOLEAN : Review(panel)) \/ CancelQuote \/ ConfirmQuote \/ Autosave
  BY <1>1, <1>15 DEF StartUpload, DismissRecovery, Save, SaveCopy, BeginCopy, ReadFile, Review, CancelQuote,
       ConfirmQuote, Autosave, session
<1>16. CASE Handle
  BY <1>1, <1>16 DEF Handle, HandleSaveComic, HandleGetComic, HandleDeleteComic, HandleEstimate,
       HandleCreateJob, unasked, session
<1>17. CASE SaveAnswered \/ SaveFailed \/ ConflictFetched \/ Estimated \/ JobCreated
  BY <1>1, <1>17 DEF SaveAnswered, SaveFailed, ConflictFetched, Estimated, JobCreated, session
<1>18. CASE Environment
  BY <1>1, <1>18 DEF Environment, Disconnect, Elsewhere, JobEnds, JobDeleted, unasked, session
<1> QED BY <1>5, <1>6, <1>7, <1>8, <1>9, <1>10, <1>11, <1>12, <1>13, <1>14, <1>15, <1>16, <1>17, <1>18
        DEF Next, User, Receive
-----------------------------------------------------------------------------
(* What the editor holds of a draft.  Versions only grow and a document     *)
(* changes only with its version, so a copy that was true stays true.       *)
IsBase(b) == b \in [id : Drafts \cup {Nothing}, version : Nat]
IsCopy(v) == v \in [id : Drafts \cup {Nothing}, version : Nat, doc : {v.doc}]

Behind(st, b) == b.id # Nothing => b.version <= st[b.id].version
Holds(st, b, d) == b.id # Nothing /\ b.version = st[b.id].version => st[b.id].doc = d
IsTrue(st, v) == IsCopy(v) /\ v.id # Nothing /\ Behind(st, v) /\ Holds(st, v, v.doc)

Newer(st, id, version) == id # Nothing /\ st[id].version > version

IsStore(st) == /\ st = [d \in Drafts |-> st[d]]
               /\ \A d \in Drafts : st[d] \in [version : Nat, doc : {st[d].doc}, live : {st[d].live}]

Grows(st, new) ==
    /\ IsStore(st) /\ IsStore(new)
    /\ \A d \in Drafts : /\ st[d].version <= new[d].version
                         /\ st[d].version = new[d].version => st[d].doc = new[d].doc

(* A call is a record whose fields are not restricted here. *)
IsCall(c) == c \in [op : {c.op}, at : {c.at}, held : {c.held}, payload : {c.payload}, asks : {c.asks},
                    prior : {c.prior}, sent : {c.sent}, base : {c.base}, reply : {c.reply}, got : {c.got},
                    shown : {c.shown}, home : {c.home}]

(* A copy has forgotten the draft and will have it back if it fails. *)
Copying == Busy /\ call.op = "copy" /\ call.at = "persist"

(* A backup is restored only while no action is under way. *)
Steady == "restores" \in Kept

(* The draft of the document on the screen. *)
BaseInv ==
    /\ IsBase(saved) /\ savedId \in Drafts \cup {Nothing} /\ Behind(stored, saved)
    /\ ~adrift /\ ~dirty => Holds(stored, saved, doc)
    /\ Steady /\ ~Copying => savedId = saved.id

(* Dialogs keep actions from starting, and are not opened by one that goes on. *)
DialogInv ==
    /\ Busy => ask = Nothing /\ conflict = Nothing /\ (call.at = "local" => quote = Nothing)
    /\ ask # Nothing =>
         /\ conflict = Nothing /\ quote = Nothing /\ IsCopy(ask.value)
         /\ ask.kind \in {"new", "import"} => ask.value.id = Nothing
         /\ ask.kind = "switch" => ask.value.id \in Drafts
    /\ conflict # Nothing =>
         /\ IsTrue(stored, conflict)
         /\ Steady => conflict.id = saved.id /\ conflict.version > saved.version
    /\ recovery # Nothing => IsCopy(recovery) /\ Behind(stored, recovery)
    /\ backup # Nothing => IsCopy(backup) /\ Behind(stored, backup)

(* What an action carries, and what it will be told. *)
Told(st, c) ==
    /\ c.at = "persist" => /\ IsTrue(st, c.got) /\ c.got.doc = c.sent
                           /\ c.base.id # Nothing => c.got.id = c.base.id
    /\ c.at = "get" => IsTrue(st, c.got) /\ c.got.id = c.base.id
    /\ c.at = "fetch" => IsTrue(st, c.got) /\ c.got.id = c.shown

CallInv ==
    Busy => /\ IsCall(call) /\ IsBase(call.prior) /\ IsBase(call.base)
            /\ call.shown \in Drafts \cup {Nothing}
            /\ call.at = "get" => call.base.id # Nothing
            /\ call.at = "fetch" => call.shown # Nothing
            /\ call.at = "create" => call.op = "submit"
            /\ call.reply = "ok" => Told(stored, call)
            /\ call.at = "persist" /\ ~touched => doc = call.sent
            /\ call.at = "persist" /\ call.op = "copy" => call.base.id = Nothing

(* And of the draft it left on the screen. *)
HomeInv ==
    Busy =>
      /\ Copying => Behind(stored, call.prior) /\ (~adrift /\ ~dirty => Holds(stored, call.prior, doc))
      /\ Steady =>
           /\ call.shown # Nothing => call.shown = savedId
           /\ call.at = "persist" /\ call.op # "copy" => call.base = saved
           /\ call.at = "persist" /\ call.reply = "conflict" => Newer(stored, call.base.id, call.base.version)
           /\ Copying => savedId = call.prior.id
           /\ call.at = "get" /\ call.op = "keep" => call.base.id = saved.id
           /\ call.at = "create" => saved.id # Nothing
           /\ call.at = "fetch" => /\ Newer(stored, saved.id, saved.version)
                                   /\ call.reply = "ok" => call.got.version > saved.version

EditorInv == IsStore(stored) /\ BaseInv /\ DialogInv /\ CallInv /\ HomeInv

LEMMA TrueStays ==
  ASSUME NEW st, NEW new, Grows(st, new)
  PROVE  /\ \A b : (IsBase(b) \/ IsCopy(b)) /\ Behind(st, b) => Behind(new, b)
         /\ \A b, d : IsBase(b) /\ Behind(st, b) /\ Holds(st, b, d) => Holds(new, b, d)
         /\ \A v : IsTrue(st, v) => IsTrue(new, v)
         /\ \A id \in Drafts \cup {Nothing}, n \in Nat : Newer(st, id, n) => Newer(new, id, n)
<1>0. \A d \in Drafts : st[d].version \in Nat /\ new[d].version \in Nat
  BY DEF Grows, IsStore
<1>1. ASSUME NEW b, IsBase(b) \/ IsCopy(b), Behind(st, b)
      PROVE  Behind(new, b) /\ \A d : Holds(st, b, d) => Holds(new, b, d)
  <2>1. b.id \in Drafts \cup {Nothing} /\ b.version \in Nat
    BY <1>1 DEF IsBase, IsCopy
  <2>2. CASE b.id = Nothing
    BY <2>2 DEF Behind, Holds
  <2>3. CASE b.id \in Drafts /\ b.id # Nothing
    <3>1. b.version <= st[b.id].version /\ st[b.id].version <= new[b.id].version
      BY <1>1, <2>3 DEF Behind, Grows
    <3>2. b.version = new[b.id].version => b.version = st[b.id].version
      BY <1>0, <2>1, <2>3, <3>1
    <3>3. b.version <= new[b.id].version
      BY <1>0, <2>1, <2>3, <3>1
    <3> QED BY <2>3, <3>2, <3>3 DEF Behind, Holds, Grows
  <2> QED BY <2>1, <2>2, <2>3
<1>2. ASSUME NEW id \in Drafts \cup {Nothing}, NEW n \in Nat, Newer(st, id, n) PROVE Newer(new, id, n)
  <2>1. id \in Drafts /\ id # Nothing /\ st[id].version > n /\ st[id].version <= new[id].version
    BY <1>2 DEF Newer, Grows
  <2> QED BY <1>0, <2>1 DEF Newer
<1>3. \A v : IsTrue(st, v) => IsTrue(new, v)
  BY <1>1 DEF IsTrue
<1> QED BY <1>1, <1>2, <1>3

LEMMA StoreStays ==
  ASSUME NEW st, IsStore(st)
  PROVE  Grows(st, st)
BY DEF Grows, IsStore

(* Nothing the editor holds has changed. *)
LEMMA Unmoved ==
  ASSUME EditorInv, Grows(stored, stored'),
         UNCHANGED <<doc, touched, saved, savedId, dirty, call, conflict, ask, adrift>>,
         quote' \in {quote, Nothing}, recovery' \in {recovery, Nothing},
         backup' # Nothing => IsCopy(backup') /\ Behind(stored', backup')
  PROVE  EditorInv'
<1>0. IsStore(stored) /\ IsStore(stored)'
  BY DEF EditorInv, Grows
<1>1. BaseInv'
  BY TrueStays DEF EditorInv, BaseInv, Copying, Busy
<1>2. DialogInv'
  BY TrueStays DEF EditorInv, DialogInv, Busy
<1>3. CallInv'
  BY TrueStays DEF EditorInv, CallInv, Busy, Told
<1>4. HomeInv'
  <2> SUFFICES ASSUME Busy PROVE HomeInv'
    BY DEF HomeInv, Busy
  <2>1. /\ IsBase(saved) /\ IsBase(call.base) /\ IsBase(call.prior)
        /\ saved.id \in Drafts \cup {Nothing} /\ saved.version \in Nat
        /\ call.base.id \in Drafts \cup {Nothing} /\ call.base.version \in Nat
    BY DEF EditorInv, BaseInv, CallInv, IsBase
  <2>2. Newer(stored, call.base.id, call.base.version) => Newer(stored', call.base.id, call.base.version)
    BY <2>1, TrueStays
  <2>3. Newer(stored, saved.id, saved.version) => Newer(stored', saved.id, saved.version)
    BY <2>1, TrueStays
  <2>4. Copying => Behind(stored', call.prior) /\ (~adrift /\ ~dirty => Holds(stored', call.prior, doc))
    BY <2>1, TrueStays DEF EditorInv, HomeInv
  <2> QED BY <2>2, <2>3, <2>4 DEF EditorInv, HomeInv, Busy, Copying
<1> QED BY <1>0, <1>1, <1>2, <1>3, <1>4 DEF EditorInv

LEMMA CallIsNotIdle ==
  ASSUME NEW c, IsCall(c)
  PROVE  c # Idle
<1>1. "at" \in DOMAIN c
  BY DEF IsCall
<1>2. "at" \notin DOMAIN Idle
  BY DEF Idle
<1> QED BY <1>1, <1>2

(* An answer of the server. *)
Answers(c, d) == /\ IsCall(d) /\ d.op = c.op /\ d.at = c.at /\ d.prior = c.prior /\ d.sent = c.sent
                 /\ d.base = c.base /\ d.shown = c.shown /\ d.home = c.home

LEMMA ReplyFields ==
  ASSUME NEW c, IsCall(c)
  PROVE  /\ \A r : LET d == [c EXCEPT !.reply = r] IN Answers(c, d) /\ d.reply = r
         /\ \A r, v : LET d == [c EXCEPT !.reply = r, !.got = v]
                      IN  Answers(c, d) /\ d.reply = r /\ d.got = v
BY DEF Answers, IsCall

LEMMA Replied ==
  ASSUME EditorInv, Grows(stored, stored'), Busy,
         UNCHANGED <<doc, touched, saved, savedId, dirty, recovery, conflict, ask, quote, backup, adrift>>,
         Answers(call, call'),
         call'.reply = "ok" => Told(stored', call'),
         call'.reply = "conflict" /\ call.at = "persist" /\ Steady =>
            Newer(stored', call.base.id, call.base.version),
         call'.reply = "ok" /\ call.at = "fetch" /\ Steady => call'.got.version > saved.version
  PROVE  EditorInv'
<1>0. IsStore(stored) /\ IsStore(stored)' /\ IsCall(call)
  BY DEF EditorInv, Grows, CallInv
<1>c. /\ IsCall(call') /\ call'.op = call.op /\ call'.at = call.at /\ call'.prior = call.prior
      /\ call'.sent = call.sent /\ call'.base = call.base /\ call'.shown = call.shown
      /\ call'.home = call.home
  BY DEF Answers
<1>1. BaseInv'
  <2>1. ~Copying' => ~Copying
    BY <1>0, <1>c, CallIsNotIdle DEF Copying, Busy
  <2> QED BY <1>c, <2>1, TrueStays DEF EditorInv, BaseInv
<1>2. DialogInv'
  BY <1>c, TrueStays DEF EditorInv, DialogInv, Busy
<1>3. CallInv'
  BY <1>c DEF EditorInv, CallInv
<1>4. HomeInv'
  <2>1. /\ IsBase(saved) /\ IsBase(call.base) /\ IsBase(call.prior)
        /\ saved.id \in Drafts \cup {Nothing} /\ saved.version \in Nat
    BY DEF EditorInv, BaseInv, CallInv, IsBase
  <2>3. Newer(stored, saved.id, saved.version) => Newer(stored', saved.id, saved.version)
    BY <2>1, TrueStays
  <2>4. Copying => Behind(stored', call.prior) /\ (~adrift /\ ~dirty => Holds(stored', call.prior, doc))
    BY <2>1, TrueStays DEF EditorInv, HomeInv
  <2>5. Copying' => Copying
    BY <1>c DEF Copying
  <2> QED BY <1>c, <2>3, <2>4, <2>5 DEF EditorInv, HomeInv
<1> QED BY <1>0, <1>1, <1>2, <1>3, <1>4 DEF EditorInv

(* The document is edited, while an action may be going on. *)
LEMMA Rewritten ==
  ASSUME EditorInv, dirty' = TRUE, touched' = TRUE, quote' \in {quote, Nothing},
         call' = call \/ (call' = Idle /\ ~Copying),
         UNCHANGED <<saved, savedId, recovery, conflict, ask, backup, stored, adrift>>
  PROVE  EditorInv'
<1>0. IsStore(stored)'
  BY DEF EditorInv
<1>1. BaseInv'
  <2>1. ~Copying' => ~Copying
    BY DEF Copying, Busy
  <2> QED BY <2>1 DEF EditorInv, BaseInv, Copying, Busy
<1>2. DialogInv'
  BY DEF EditorInv, DialogInv, Busy
<1>3. CallInv'
  BY DEF EditorInv, CallInv, Busy
<1>4. HomeInv'
  BY DEF EditorInv, HomeInv, Busy, Copying
<1> QED BY <1>0, <1>1, <1>2, <1>3, <1>4 DEF EditorInv

LEMMA IdentityIsBase ==
  ASSUME NEW v, IsCopy(v)
  PROVE  /\ Identity(v) = [id |-> v.id, version |-> v.version]
         /\ IsBase(Identity(v)) /\ Identity(v).id = v.id /\ Identity(v).version = v.version
         /\ \A st : /\ Behind(st, v) => Behind(st, Identity(v))
                    /\ Holds(st, v, v.doc) => Holds(st, Identity(v), v.doc)
BY DEF IsCopy, IsBase, Identity, Behind, Holds

(* Another document takes the place of the one on the screen: a new one, or *)
(* a copy of the server's, while no action goes on.                         *)
LEMMA Opens ==
  ASSUME EditorInv, NEW value, NEW keep, Activate(value, keep),
         IsCopy(value), value.id = Nothing \/ IsTrue(stored, value),
         adrift' = FALSE, stored' = stored, backup' = backup,
         ~Busy', ask' = Nothing, conflict' = Nothing
  PROVE  EditorInv'
<1>1. /\ saved' = Identity(value) /\ savedId' = value.id /\ doc' = value.doc
      /\ dirty' = (value.id = Nothing) /\ recovery' = Nothing /\ origin' = value.id
  BY DEF Activate
<1>2. IsBase(saved') /\ saved'.id = value.id
      /\ Behind(stored, saved') /\ (value.id # Nothing => Holds(stored, saved', doc'))
  BY <1>1, IdentityIsBase DEF IsTrue, Behind
<1>3. BaseInv'
  BY <1>1, <1>2 DEF BaseInv, IsBase
<1>4. DialogInv'
  BY <1>1 DEF EditorInv, DialogInv
<1>5. CallInv' /\ HomeInv'
  BY DEF CallInv, HomeInv
<1>6. IsStore(stored)'
  BY DEF EditorInv
<1> QED BY <1>3, <1>4, <1>5, <1>6 DEF EditorInv

(* A backup is restored, which is not newer than the server's copy. *)
LEMMA Restored ==
  ASSUME EditorInv, Restore
  PROVE  EditorInv'
<1>1. /\ saved' = Identity(recovery) /\ savedId' = recovery.id /\ touched' = TRUE
      /\ recovery' = Nothing /\ adrift' = TRUE /\ IsCopy(recovery) /\ Behind(stored, recovery)
      /\ UNCHANGED <<call, conflict, ask, quote, backup, stored>>
      /\ Steady => ~Busy
      /\ conflict = Nothing
  BY DEF Restore, Activate, EditorInv, DialogInv, NoDialog, Steady, dialogs, local, server
<1>2. /\ IsBase(saved') /\ savedId' \in Drafts \cup {Nothing} /\ saved'.id = savedId'
      /\ Behind(stored', saved')
  BY <1>1, IdentityIsBase DEF IsCopy
<1>3. BaseInv' /\ DialogInv' /\ IsStore(stored)'
  BY <1>1, <1>2 DEF EditorInv, BaseInv, DialogInv, Busy
<1>4. CallInv'
  BY <1>1 DEF EditorInv, CallInv, Busy
<1>5. HomeInv'
  BY <1>1 DEF EditorInv, HomeInv, Busy, Copying
<1> QED BY <1>3, <1>4, <1>5 DEF EditorInv

(* An action begins. *)
LEMMA Begins ==
  ASSUME EditorInv, IsCall(call'), call'.reply = "none", IsBase(call'.base), IsBase(call'.prior),
         call'.shown = savedId, call'.home = origin, call'.at \notin {"fetch", "create"},
         call'.at = "get" => call'.base.id # Nothing /\ (call'.op = "keep" => call'.base.id = saved.id),
         call'.at = "local" => quote' = Nothing,
         ~Busy, ask' = Nothing, conflict' = Nothing,
         UNCHANGED <<doc, savedId, dirty, recovery, backup, stored, adrift>>,
         \/ call'.at # "persist" /\ saved' = saved
         \/ /\ call'.at = "persist" /\ touched' = FALSE /\ call'.sent = doc
            /\ \/ call'.op # "copy" /\ saved' = saved /\ call'.base = saved
               \/ call'.op = "copy" /\ saved' = Unsaved /\ call'.base = Unsaved /\ call'.prior = saved
  PROVE  EditorInv'
<1>0. IsStore(stored)' /\ ~Copying /\ IsBase(saved)
  BY DEF EditorInv, BaseInv, Copying
<1>1. IsBase(Unsaved) /\ Unsaved.id = Nothing /\ Behind(stored, Unsaved) /\ Holds(stored, Unsaved, doc)
  BY DEF IsBase, Unsaved, Behind, Holds
<1>2. Busy'
  BY CallIsNotIdle DEF Busy
<1>3. BaseInv'
  <2>1. CASE saved' = saved /\ ~Copying'
    BY <1>0, <2>1 DEF EditorInv, BaseInv
  <2>2. CASE saved' = Unsaved /\ Copying'
    BY <1>0, <1>1, <2>2 DEF EditorInv, BaseInv
  <2> QED BY <1>2, <2>1, <2>2 DEF Copying
<1>4. DialogInv'
  BY DEF EditorInv, DialogInv
<1>5. CallInv'
  <2>1. call'.at = "persist" => doc' = call'.sent /\ (call'.op = "copy" => call'.base.id = Nothing)
    BY <1>1
  <2>2. call'.shown \in Drafts \cup {Nothing}
    BY DEF EditorInv, BaseInv
  <2> QED BY <2>1, <2>2 DEF CallInv
<1>6. HomeInv'
  BY <1>0 DEF EditorInv, BaseInv, HomeInv, Copying
<1> QED BY <1>0, <1>3, <1>4, <1>5, <1>6 DEF EditorInv

(* No action goes on, and only dialogs have changed. *)
LEMMA Settles ==
  ASSUME EditorInv, ~Busy', ~Copying, DialogInv',
         UNCHANGED <<doc, saved, savedId, dirty, stored, adrift>>
  PROVE  EditorInv'
<1>1. BaseInv' /\ IsStore(stored)'
  BY DEF EditorInv, BaseInv, Copying
<1>2. CallInv' /\ HomeInv'
  BY DEF CallInv, HomeInv
<1> QED BY <1>1, <1>2 DEF EditorInv

-----------------------------------------------------------------------------
(* The steps. *)
LEMMA StartIsCall ==
  ASSUME NEW op, NEW at
  PROVE  /\ IsCall(Start(op, at)) /\ Start(op, at).op = op /\ Start(op, at).at = at
         /\ Start(op, at).reply = "none" /\ Start(op, at).shown = savedId /\ Start(op, at).home = origin
         /\ Start(op, at).prior = Unsaved /\ Start(op, at).base = Unsaved
BY DEF Start, IsCall

LEMMA PersistIsCall ==
  ASSUME NEW c, IsCall(c), NEW value, NEW base
  PROVE  LET p == Persist(c, value, base)
         IN  /\ IsCall(p) /\ p.op = c.op /\ p.at = "persist" /\ p.reply = "none" /\ p.sent = value
             /\ p.base = base /\ p.prior = c.prior /\ p.shown = c.shown /\ p.home = c.home
             /\ p.payload = c.payload
BY DEF Persist, Ask, IsCall

LEMMA NoBase == IsBase(Unsaved) /\ Unsaved.id = Nothing
BY DEF IsBase, Unsaved

LEMMA UserRewrites ==
  ASSUME EditorInv, EditStory \/ EditArt \/ Undo \/ Redo \/ FinishUpload \/ PollEnded
  PROVE  EditorInv'
<1>1. /\ dirty' = TRUE /\ touched' = TRUE /\ quote' \in {quote, Nothing} /\ call' = call
      /\ UNCHANGED <<saved, savedId, recovery, conflict, ask, backup, stored, adrift>>
  <2>1. CASE EditStory \/ EditArt \/ FinishUpload
    BY <2>1 DEF EditStory, EditArt, FinishUpload, Change, dialogs, local, server, ghosts
  <2>2. CASE Undo \/ Redo
    BY <2>2 DEF Undo, Redo, dialogs, local, server, ghosts
  <2>3. CASE PollEnded
    BY <2>3 DEF PollEnded, Change, Adjust, dialogs, local, server, ghosts
  <2> QED BY <2>1, <2>2, <2>3
<1> QED BY <1>1, Rewritten

LEMMA BackupIsCopy ==
  ASSUME NEW d, NEW b, IsBase(b)
  PROVE  IsCopy(BackupOf(d, b)) /\ \A st : Behind(st, b) => Behind(st, BackupOf(d, b))
BY DEF BackupOf, IsBase, IsCopy, Behind

LEMMA QuietSteps ==
  ASSUME EditorInv, StartUpload \/ Autosave \/ DismissRecovery \/ CancelQuote
                    \/ (\E j \in Jobs : JobEnds(j) \/ JobDeleted(j))
  PROVE  EditorInv'
<1>0. Grows(stored, stored) /\ IsBase(saved) /\ Behind(stored, saved)
      /\ (backup # Nothing => IsCopy(backup) /\ Behind(stored, backup))
  BY StoreStays DEF EditorInv, BaseInv, DialogInv
<1>1. /\ UNCHANGED <<doc, touched, saved, savedId, dirty, call, conflict, ask, adrift, stored>>
      /\ quote' \in {quote, Nothing} /\ recovery' \in {recovery, Nothing}
      /\ backup' \in {backup, BackupOf(doc, saved)}
  <2>1. CASE StartUpload \/ Autosave
    BY <2>1 DEF StartUpload, Autosave, session, dialogs, local, server, ghosts
  <2>2. CASE DismissRecovery \/ CancelQuote
    BY <2>2 DEF DismissRecovery, CancelQuote, session, dialogs, local, server, ghosts
  <2>3. CASE \E j \in Jobs : JobEnds(j) \/ JobDeleted(j)
    BY <2>3 DEF JobEnds, JobDeleted, unasked, session, dialogs, local, ghosts
  <2> QED BY <2>1, <2>2, <2>3
<1>2. Grows(stored, stored') /\ (backup' # Nothing => IsCopy(backup') /\ Behind(stored', backup'))
  BY <1>0, <1>1, BackupIsCopy
<1> QED BY <1>1, <1>2, Unmoved

LEMMA StoreGrows ==
  ASSUME NEW st, IsStore(st), NEW d \in Drafts,
         NEW row, row \in [version : Nat, doc : {row.doc}, live : {row.live}],
         st[d].version <= row.version, st[d].version = row.version => row.doc = st[d].doc
  PROVE  LET new == [st EXCEPT ![d] = row]
         IN  Grows(st, new) /\ new[d] = row
<1> DEFINE new == [st EXCEPT ![d] = row]
<1>1. \A e \in Drafts : new[e] = IF e = d THEN row ELSE st[e]
  BY DEF IsStore
<1>2. new = [e \in Drafts |-> new[e]]
  BY DEF IsStore
<1>3. \A e \in Drafts : new[e] \in [version : Nat, doc : {new[e].doc}, live : {new[e].live}]
  BY <1>1 DEF IsStore
<1>4. \A e \in Drafts : st[e].version \in Nat
  BY DEF IsStore
<1>5. \A e \in Drafts : st[e].version <= new[e].version /\ (st[e].version = new[e].version => st[e].doc = new[e].doc)
  BY <1>1, <1>4
<1> QED BY <1>1, <1>2, <1>3, <1>5 DEF Grows, IsStore

LEMMA ElsewhereStep ==
  ASSUME EditorInv, NEW d \in Drafts, Elsewhere(d)
  PROVE  EditorInv'
<1>0. /\ UNCHANGED <<doc, touched, saved, savedId, dirty, call, conflict, ask, adrift, quote, recovery>>
      /\ IsStore(stored) /\ (backup # Nothing => IsCopy(backup) /\ Behind(stored, backup))
  BY DEF Elsewhere, session, dialogs, ghosts, EditorInv, DialogInv
<1>t. stored[d] \in [version : Nat, doc : {stored[d].doc}, live : {stored[d].live}]
  BY <1>0 DEF IsStore
<1>1. CASE stored' = [stored EXCEPT ![d].live = FALSE] /\ UNCHANGED backup
  <2> DEFINE row == [stored[d] EXCEPT !.live = FALSE]
  <2>1. /\ row \in [version : Nat, doc : {row.doc}, live : {row.live}]
        /\ row.version = stored[d].version /\ row.doc = stored[d].doc
    BY <1>t
  <2>2. stored' = [stored EXCEPT ![d] = row] /\ stored[d].version \in Nat
    BY <1>1, <1>t
  <2> HIDE DEF row
  <2>3. stored[d].version <= row.version
    BY <2>1, <2>2
  <2>4. LET new == [stored EXCEPT ![d] = row] IN Grows(stored, new) /\ new[d] = row
    BY <1>0, <2>1, <2>3, StoreGrows
  <2>5. backup' # Nothing => IsCopy(backup') /\ Behind(stored', backup')
    BY <1>0, <1>1, <2>2, <2>4, TrueStays
  <2> QED BY <1>0, <1>1, <2>2, <2>4, <2>5, Unmoved
<1>2. CASE /\ stored' = [stored EXCEPT ![d].version = @ + 1, ![d].doc.art = Foreign]
           /\ backup' \in {backup, BackupOf(stored'[d].doc, [id |-> d, version |-> stored'[d].version])}
  <2> DEFINE drawn == [stored[d].doc EXCEPT !.art = Foreign]
             next == stored[d].version + 1
             row == [stored[d] EXCEPT !.version = next, !.doc = drawn]
  <2>1. /\ row \in [version : Nat, doc : {row.doc}, live : {row.live}]
        /\ row.version = next
    <3>1. next \in Nat
      BY <1>t
    <3> HIDE DEF next, drawn
    <3> QED BY <1>t, <3>1
  <2>2. stored' = [stored EXCEPT ![d] = row] /\ stored[d].version \in Nat
    BY <1>0, <1>2, <1>t DEF IsStore
  <2> HIDE DEF row
  <2>3. stored[d].version <= row.version /\ stored[d].version # row.version
    BY <2>1, <2>2
  <2>4. LET new == [stored EXCEPT ![d] = row] IN Grows(stored, new) /\ new[d] = row
    BY <1>0, <2>1, <2>3, StoreGrows
  <2>5. Grows(stored, stored') /\ stored'[d].version = stored[d].version + 1
    BY <2>1, <2>2, <2>4
  <2> DEFINE theirs == BackupOf(stored'[d].doc, [id |-> d, version |-> stored'[d].version])
  <2>6. IsCopy(theirs) /\ Behind(stored', theirs)
    <3> DEFINE b == [id |-> d, version |-> stored'[d].version]
    <3>1. IsBase(b) /\ Behind(stored', b)
      BY <2>2, <2>5 DEF IsBase, Behind
    <3> HIDE DEF b
    <3>2. IsCopy(BackupOf(stored'[d].doc, b)) /\ Behind(stored', BackupOf(stored'[d].doc, b))
      BY <3>1, BackupIsCopy
    <3> QED BY <3>2 DEF b
  <2>7. backup # Nothing => IsCopy(backup) /\ Behind(stored', backup)
    BY <1>0, <2>5, TrueStays
  <2>8. backup' \in {backup, theirs}
    BY <1>2
  <2> HIDE DEF theirs
  <2>9. backup' # Nothing => IsCopy(backup') /\ Behind(stored', backup')
    BY <2>6, <2>7, <2>8
  <2> QED BY <1>0, <2>5, <2>9, Unmoved
<1> QED BY <1>1, <1>2 DEF Elsewhere

(* The page is mounted, and may load the draft of its address. *)
LEMMA Mounted ==
  ASSUME EditorInv, NEW d \in Drafts \cup {Nothing}, Mount(d), stored' = stored,
         backup' \in {backup, BackupOf(doc, saved)}
  PROVE  EditorInv'
<1> DEFINE s == Start("open", "get")
           base == [Unsaved EXCEPT !.id = d]
           c == [s EXCEPT !.base = base, !.shown = Nothing, !.home = Nothing]
<1>0. IsCall(s) /\ s.op = "open" /\ s.at = "get" /\ s.reply = "none" /\ s.prior = Unsaved /\ s.base = Unsaved
  BY StartIsCall
<1>b. IsBase(base) /\ base.id = d
  BY DEF IsBase, Unsaved
<1> HIDE DEF s
<1>1. /\ conflict' = Nothing /\ ask' = Nothing /\ quote' = Nothing /\ saved' = Unsaved /\ savedId' = Nothing
      /\ dirty' = TRUE /\ recovery' = backup'
      /\ IF d = Nothing THEN call' = Idle ELSE call' = c
  BY <1>0 DEF Mount, IsCall, s
<1> HIDE DEF base
<1>c. /\ IsCall(c) /\ c.op = "open" /\ c.at = "get" /\ c.reply = "none" /\ c.prior = Unsaved /\ c.base = base
      /\ c.shown = Nothing
  BY <1>0 DEF IsCall
<1> HIDE DEF c
<1>2. backup' # Nothing => IsCopy(backup') /\ Behind(stored', backup')
  BY BackupIsCopy DEF EditorInv, BaseInv, DialogInv
<1>3. IsBase(saved') /\ Behind(stored', saved') /\ saved'.id = Nothing /\ IsStore(stored)'
  BY <1>1, NoBase DEF Behind, EditorInv
<1>4. CASE d = Nothing
  <2>1. BaseInv' /\ CallInv' /\ HomeInv'
    BY <1>1, <1>3, <1>4 DEF BaseInv, CallInv, HomeInv, Busy
  <2>2. DialogInv'
    BY <1>1, <1>2, <1>4 DEF DialogInv, Busy
  <2> QED BY <1>3, <2>1, <2>2 DEF EditorInv
<1>5. CASE d # Nothing
  <2>0. call' = c
    BY <1>1, <1>5
  <2>1. BaseInv'
    BY <1>1, <1>3 DEF BaseInv
  <2>2. CallInv'
    BY <1>b, <1>c, <1>5, <2>0, NoBase DEF CallInv
  <2>3. HomeInv'
    BY <1>c, <2>0 DEF HomeInv, Copying
  <2>4. DialogInv'
    BY <1>1, <1>2, <1>c, <2>0 DEF DialogInv
  <2> QED BY <1>3, <2>1, <2>2, <2>3, <2>4 DEF EditorInv
<1> QED BY <1>4, <1>5

LEMMA LeaveStep ==
  ASSUME EditorInv, Leave
  PROVE  EditorInv'
BY Mounted DEF Leave, server

LEMMA CopyBegins ==
  ASSUME EditorInv, ~Busy, BeginCopy, ask' = Nothing, conflict' = Nothing,
         UNCHANGED <<recovery, backup, stored, adrift>>
  PROVE  EditorInv'
<1> DEFINE start == [Start("copy", "persist") EXCEPT !.prior = saved]
<1>1. /\ call' = Persist(start, doc, Unsaved) /\ saved' = Unsaved /\ touched' = FALSE
      /\ UNCHANGED <<doc, savedId, dirty>>
  BY DEF BeginCopy
<1>2. IsCall(start) /\ start.op = "copy" /\ start.prior = saved /\ start.shown = savedId /\ start.home = origin
  <2> DEFINE c == Start("copy", "persist")
  <2>1. IsCall(c) /\ c.op = "copy" /\ c.shown = savedId /\ c.home = origin
    BY StartIsCall
  <2> HIDE DEF c
  <2>2. LET d == [c EXCEPT !.prior = saved]
        IN  IsCall(d) /\ d.op = "copy" /\ d.prior = saved /\ d.shown = savedId /\ d.home = origin
    BY <2>1 DEF IsCall
  <2> QED BY <2>2 DEF c
<1> HIDE DEF start
<1>3. /\ IsCall(call') /\ call'.op = "copy" /\ call'.at = "persist" /\ call'.reply = "none" /\ call'.sent = doc
      /\ call'.base = Unsaved /\ call'.prior = saved /\ call'.shown = savedId /\ call'.home = origin
  BY <1>1, <1>2, PersistIsCall
<1> QED BY <1>1, <1>3, NoBase, Begins DEF EditorInv, BaseInv

LEMMA SaveBegins ==
  ASSUME EditorInv, Save \/ SaveCopy \/ ConfirmQuote
  PROVE  EditorInv'
<1>0. IsBase(saved) /\ IsBase(Unsaved)
  BY NoBase DEF EditorInv, BaseInv
<1>1. CASE SaveCopy
  BY <1>1, CopyBegins DEF SaveCopy, quiet, NoDialog, dialogs, local, server, ghosts
<1>2. CASE Save
  <2> DEFINE c == Start("save", "persist")
  <2>1. /\ ~Busy /\ ask' = Nothing /\ conflict' = Nothing /\ call' = Persist(c, doc, saved) /\ touched' = FALSE
        /\ UNCHANGED <<doc, saved, savedId, dirty, recovery, backup, stored, adrift>>
    BY <1>2 DEF Save, quiet, NoDialog, dialogs, local, server, ghosts
  <2>2. IsCall(c) /\ c.op = "save" /\ c.shown = savedId /\ c.home = origin /\ c.prior = Unsaved
    BY StartIsCall
  <2> HIDE DEF c
  <2>3. /\ IsCall(call') /\ call'.op = "save" /\ call'.at = "persist" /\ call'.reply = "none" /\ call'.sent = doc
        /\ call'.base = saved /\ call'.prior = Unsaved /\ call'.shown = savedId /\ call'.home = origin
    BY <2>1, <2>2, PersistIsCall
  <2> QED BY <1>0, <2>1, <2>3, Begins
<1>3. CASE ConfirmQuote
  <2> DEFINE s == Start("submit", "persist")
             c == [s EXCEPT !.payload = quote]
  <2>1. /\ ~Busy /\ ask' = Nothing /\ conflict' = Nothing /\ call' = Persist(c, doc, saved) /\ touched' = FALSE
        /\ UNCHANGED <<doc, saved, savedId, dirty, recovery, backup, stored, adrift>>
    BY <1>3 DEF ConfirmQuote, quiet, EditorInv, DialogInv, dialogs, local, server, ghosts
  <2>2. IsCall(c) /\ c.op = "submit" /\ c.shown = savedId /\ c.home = origin /\ c.prior = Unsaved
    <3>1. IsCall(s) /\ s.op = "submit" /\ s.shown = savedId /\ s.home = origin /\ s.prior = Unsaved
      BY StartIsCall
    <3> HIDE DEF s
    <3> QED BY <3>1 DEF IsCall
  <2> HIDE DEF c
  <2>3. /\ IsCall(call') /\ call'.op = "submit" /\ call'.at = "persist" /\ call'.reply = "none" /\ call'.sent = doc
        /\ call'.base = saved /\ call'.prior = Unsaved /\ call'.shown = savedId /\ call'.home = origin
    BY <2>1, <2>2, PersistIsCall
  <2> QED BY <1>0, <2>1, <2>3, Begins
<1> QED BY <1>1, <1>2, <1>3

LEMMA AskBegins ==
  ASSUME EditorInv, (\E op \in Ops : ReadFile(op)) \/ (\E panel \in BOOLEAN : Review(panel))
  PROVE  EditorInv'
<1>0. IsBase(saved) /\ IsBase(Unsaved)
  BY NoBase DEF EditorInv, BaseInv
<1>1. CASE \E op \in Ops : ReadFile(op)
  <2>1. PICK op \in Ops : ReadFile(op)
    BY <1>1
  <2> DEFINE c == Start(op, "local")
             held == IF op = "source" THEN doc ELSE Nothing
             asks == op = "import" /\ HasWork /\ dirty
  <2>2. /\ ~Busy /\ ask' = Nothing /\ conflict' = Nothing /\ quote' = Nothing
        /\ call' = [c EXCEPT !.held = held, !.asks = asks]
        /\ UNCHANGED <<doc, saved, savedId, dirty, recovery, backup, stored, adrift>>
    BY <2>1 DEF ReadFile, NoDialog, session, dialogs, local, server, ghosts
  <2>3. IsCall(c) /\ c.at = "local" /\ c.reply = "none" /\ c.shown = savedId /\ c.home = origin /\ c.prior = Unsaved
        /\ c.base = Unsaved
    BY StartIsCall
  <2> HIDE DEF c, held, asks
  <2>4. /\ IsCall(call') /\ call'.at = "local" /\ call'.reply = "none" /\ call'.shown = savedId
        /\ call'.home = origin /\ call'.prior = Unsaved /\ call'.base = Unsaved
    BY <2>2, <2>3 DEF IsCall
  <2> QED BY <1>0, <2>2, <2>4, Begins
<1>2. CASE \E panel \in BOOLEAN : Review(panel)
  <2>1. PICK panel \in BOOLEAN : Review(panel)
    BY <1>2
  <2> DEFINE c == Start("review", "estimate")
             payload == GenerationRequest(doc, panel)
  <2>2. /\ ~Busy /\ ask' = Nothing /\ conflict' = Nothing
        /\ call' = [c EXCEPT !.payload = payload]
        /\ UNCHANGED <<doc, saved, savedId, dirty, recovery, backup, stored, adrift>>
    BY <2>1 DEF Review, GenerationOffered, NoDialog, session, dialogs, local, server, ghosts
  <2>3. IsCall(c) /\ c.at = "estimate" /\ c.reply = "none" /\ c.shown = savedId /\ c.home = origin /\ c.prior = Unsaved
        /\ c.base = Unsaved
    BY StartIsCall
  <2> HIDE DEF c, payload
  <2>4. /\ IsCall(call') /\ call'.at = "estimate" /\ call'.reply = "none" /\ call'.shown = savedId
        /\ call'.home = origin /\ call'.prior = Unsaved /\ call'.base = Unsaved
    BY <2>2, <2>3 DEF IsCall
  <2> QED BY <1>0, <2>2, <2>4, Begins
<1> QED BY <1>1, <1>2

(* perform(), from the menu or from the dialog that asks first. *)
LEMMA Performs ==
  ASSUME EditorInv, ~Busy, ask' = Nothing, conflict' = Nothing, stored' = stored, backup' = backup,
         NEW action, Perform(action), IsCopy(action.value),
         action.kind \in {"new", "import"} => action.value.id = Nothing,
         action.kind = "switch" => action.value.id \in Drafts
  PROVE  EditorInv'
<1>1. CASE action.kind \in {"new", "import"} /\ Activate(action.value, FALSE) /\ adrift' = FALSE
           /\ UNCHANGED <<call, lost>>
  <2>1. ~Busy'
    BY <1>1 DEF Busy
  <2> QED BY <1>1, <2>1, Opens
<1>2. ASSUME NEW op, op # "keep", NEW at, at \in {"get", "remove"}, NEW id \in Drafts \cup {Nothing},
             at = "get" => id \in Drafts,
             call' = [Start(op, at) EXCEPT !.base.id = id], UNCHANGED <<session, ghosts>>
      PROVE  EditorInv'
  <2> DEFINE c == Start(op, at)
             base == [Unsaved EXCEPT !.id = id]
  <2>1. IsCall(c) /\ c.op = op /\ c.at = at /\ c.reply = "none" /\ c.shown = savedId /\ c.home = origin
        /\ c.prior = Unsaved /\ c.base = Unsaved
    BY StartIsCall
  <2>2. IsBase(base) /\ base.id = id
    BY DEF IsBase, Unsaved
  <2> HIDE DEF c
  <2>3. call' = [c EXCEPT !.base = base]
    BY <1>2, <2>1 DEF c, IsCall
  <2> HIDE DEF base
  <2>4. /\ IsCall(call') /\ call'.op = op /\ call'.at = at /\ call'.reply = "none" /\ call'.shown = savedId
        /\ call'.home = origin /\ call'.prior = Unsaved /\ call'.base = base
    BY <2>1, <2>3 DEF IsCall
  <2>5. UNCHANGED <<doc, saved, savedId, dirty, recovery, adrift>>
    BY <1>2 DEF session, ghosts
  <2>6. Nothing \notin Drafts
    BY NothingAssumption
  <2> QED BY <1>2, <2>2, <2>4, <2>5, <2>6, NoBase, Begins
<1>3. CASE action.kind = "switch" /\ call' = [Start("open", "get") EXCEPT !.base.id = action.value.id]
           /\ UNCHANGED <<session, ghosts>>
  BY <1>2, <1>3
<1>4. CASE action.kind = "delete" /\ call' = [Start("delete", "remove") EXCEPT !.base.id = savedId]
           /\ UNCHANGED <<session, ghosts>>
  <2>1. savedId \in Drafts \cup {Nothing}
    BY DEF EditorInv, BaseInv
  <2> QED BY <1>2, <1>4, <2>1
<1> QED BY <1>1, <1>3, <1>4 DEF Perform

LEMMA ChooseStep ==
  ASSUME EditorInv, Choose
  PROVE  EditorInv'
<1>1. PICK action \in Menu :
        /\ Guard(action)
        /\ \/ ask' = action /\ UNCHANGED <<session, call, ghosts>>
           \/ Perform(action) /\ UNCHANGED ask
        /\ UNCHANGED <<conflict, quote, attempt, upload, local, server, edits, trouble>>
  BY DEF Choose
<1>2. /\ IsCopy(action.value)
      /\ action.kind \in {"new", "import"} => action.value.id = Nothing
      /\ action.kind = "switch" => action.value.id \in Drafts
  BY DEF Menu, NewDocument, IsCopy
<1>3. ~Busy /\ conflict = Nothing /\ quote = Nothing /\ ask = Nothing
  BY <1>1 DEF Guard, NoDialog
<1>4. UNCHANGED <<conflict, quote, backup, stored>>
  BY <1>1 DEF local, server
<1>5. CASE Perform(action) /\ UNCHANGED ask
  BY <1>2, <1>3, <1>4, <1>5, Performs
<1>6. CASE ask' = action /\ UNCHANGED <<session, call, ghosts>>
  <2>1. UNCHANGED <<doc, saved, savedId, dirty, recovery, adrift, call>>
    BY <1>6 DEF session, ghosts
  <2>2. ~Busy' /\ ~Copying
    BY <1>3, <2>1 DEF Busy, Copying
  <2>3. DialogInv'
    BY <1>2, <1>3, <1>4, <1>6, <2>1, <2>2 DEF EditorInv, DialogInv
  <2> QED BY <1>4, <2>1, <2>2, <2>3, Settles
<1> QED BY <1>1, <1>5, <1>6

LEMMA AnswerStep ==
  ASSUME EditorInv, Answer
  PROVE  EditorInv'
<1>1. /\ ask # Nothing /\ ask' = Nothing /\ UNCHANGED <<conflict, quote, backup, stored>>
      /\ Perform(ask) \/ UNCHANGED <<session, call, ghosts>>
  BY DEF Answer, local, server
<1>2. /\ ~Busy /\ conflict = Nothing /\ IsCopy(ask.value)
      /\ ask.kind \in {"new", "import"} => ask.value.id = Nothing
      /\ ask.kind = "switch" => ask.value.id \in Drafts
  BY <1>1 DEF EditorInv, DialogInv
<1>3. CASE Perform(ask)
  BY <1>1, <1>2, <1>3, Performs
<1>4. CASE UNCHANGED <<session, call, ghosts>>
  <2>1. UNCHANGED <<doc, saved, savedId, dirty, recovery, adrift, call>>
    BY <1>4 DEF session, ghosts
  <2>2. ~Busy' /\ ~Copying
    BY <1>2, <2>1 DEF Busy, Copying
  <2>3. DialogInv'
    BY <1>1, <1>2, <2>1, <2>2 DEF EditorInv, DialogInv
  <2> QED BY <1>1, <2>1, <2>2, <2>3, Settles
<1> QED BY <1>1, <1>3, <1>4

LEMMA ResolveStep ==
  ASSUME EditorInv, ResolveConflict
  PROVE  EditorInv'
<1>1. /\ conflict # Nothing /\ ~Busy /\ conflict' = Nothing /\ UNCHANGED <<ask, quote, backup, stored>>
      /\ \/ Activate(conflict, TRUE) /\ adrift' = FALSE /\ UNCHANGED call
         \/ BeginCopy /\ UNCHANGED <<recovery, ghosts>>
         \/ /\ saved.id # Nothing
            /\ call' = [Start("keep", "get") EXCEPT !.base = saved]
            /\ UNCHANGED <<session, ghosts>>
         \/ UNCHANGED <<session, call, ghosts>>
  BY DEF ResolveConflict, local, server
<1>2. ask = Nothing /\ IsTrue(stored, conflict) /\ IsBase(saved)
  BY <1>1 DEF EditorInv, DialogInv, BaseInv
<1>3. CASE Activate(conflict, TRUE) /\ adrift' = FALSE /\ UNCHANGED call
  <2>1. ~Busy' /\ IsCopy(conflict)
    BY <1>1, <1>2, <1>3 DEF Busy, IsTrue
  <2> QED BY <1>1, <1>2, <1>3, <2>1, Opens
<1>4. CASE BeginCopy /\ UNCHANGED <<recovery, ghosts>>
  BY <1>1, <1>2, <1>4, CopyBegins DEF ghosts
<1>5. CASE saved.id # Nothing /\ call' = [Start("keep", "get") EXCEPT !.base = saved] /\ UNCHANGED <<session, ghosts>>
  <2> DEFINE c == Start("keep", "get")
  <2>1. IsCall(c) /\ c.at = "get" /\ c.reply = "none" /\ c.shown = savedId /\ c.home = origin /\ c.prior = Unsaved
    BY StartIsCall
  <2>2. call' = [c EXCEPT !.base = saved]
    BY <1>5
  <2> HIDE DEF c
  <2>3. /\ IsCall(call') /\ call'.at = "get" /\ call'.reply = "none" /\ call'.shown = savedId
        /\ call'.home = origin /\ call'.prior = Unsaved /\ call'.base = saved
    BY <2>1, <2>2 DEF IsCall
  <2>4. UNCHANGED <<doc, saved, savedId, dirty, recovery, adrift>>
    BY <1>5 DEF session, ghosts
  <2> QED BY <1>1, <1>2, <1>5, <2>3, <2>4, NoBase, Begins
<1>6. CASE UNCHANGED <<session, call, ghosts>>
  <2>1. UNCHANGED <<doc, saved, savedId, dirty, recovery, adrift, call>>
    BY <1>6 DEF session, ghosts
  <2>2. ~Busy' /\ ~Copying
    BY <1>1, <2>1 DEF Busy, Copying
  <2>3. DialogInv'
    BY <1>1, <1>2, <2>1, <2>2 DEF EditorInv, DialogInv
  <2> QED BY <1>1, <2>1, <2>2, <2>3, Settles
<1> QED BY <1>1, <1>3, <1>4, <1>5, <1>6

LEMMA SaveHandled ==
  ASSUME EditorInv, HandleSaveComic
  PROVE  EditorInv'
<1> DEFINE base == call.base
           value == call.sent
<1>0. /\ Busy /\ call.at = "persist" /\ IsStore(stored) /\ IsCall(call) /\ Grows(stored, stored)
      /\ UNCHANGED <<doc, touched, saved, savedId, dirty, recovery, conflict, ask, quote, backup, adrift>>
      /\ base.id \in Drafts \cup {Nothing} /\ base.version \in Nat
  BY StoreStays DEF HandleSaveComic, unasked, session, dialogs, local, ghosts, EditorInv, CallInv, IsBase
<1>1. ASSUME NEW r, r \in {"refused", "gone"}, Reply(r), UNCHANGED stored PROVE EditorInv'
  <2>1. Answers(call, call') /\ call'.reply = r
    BY <1>0, <1>1, ReplyFields DEF Reply
  <2> QED BY <1>0, <1>1, <2>1, Replied
<1>2. ASSUME NEW d \in Drafts, d # Nothing, base.id # Nothing => base.id = d,
             NEW row, row \in [version : Nat, doc : {value}, live : {row.live}],
             stored[d].version < row.version, stored' = [stored EXCEPT ![d] = row],
             ReplyWith([id |-> d, version |-> row.version, doc |-> value])
      PROVE  EditorInv'
  <2> DEFINE copy == [id |-> d, version |-> row.version, doc |-> value]
  <2>1. row \in [version : Nat, doc : {row.doc}, live : {row.live}] /\ row.doc = value
    BY <1>2
  <2>2. IsCopy(copy) /\ copy.id = d /\ copy.version = row.version /\ copy.doc = value
    BY <2>1 DEF IsCopy
  <2>3. call' = [call EXCEPT !.reply = "ok", !.got = copy]
    BY <1>2 DEF ReplyWith
  <2>4. stored' = [stored EXCEPT ![d] = row]
    BY <1>2
  <2> HIDE DEF copy
  <2>5. stored[d].version \in Nat
    BY <1>0 DEF IsStore
  <2>6. stored[d].version <= row.version /\ stored[d].version # row.version
    BY <1>2, <2>1, <2>5
  <2>7. LET new == [stored EXCEPT ![d] = row] IN Grows(stored, new) /\ new[d] = row
    BY <1>0, <2>1, <2>6, StoreGrows
  <2>8. IsTrue(stored', copy)
    BY <1>2, <2>1, <2>2, <2>4, <2>7 DEF IsTrue, Behind, Holds
  <2>9. Told(stored', call')
    <3>1. call'.got = copy /\ call'.at = "persist" /\ call'.sent = value /\ call'.base = base
      BY <1>0, <2>3 DEF IsCall, Answers
    <3> QED BY <1>2, <2>2, <2>8, <3>1 DEF Told
  <2>a. Answers(call, call') /\ call'.reply = "ok"
    BY <1>0, <2>3 DEF IsCall, Answers
  <2>b. Grows(stored, stored')
    BY <2>4, <2>7
  <2> QED BY <1>0, <2>9, <2>a, <2>b, Replied
<1>3. ASSUME base.id = Nothing, NEW d \in Drafts, stored[d].version = 0,
             stored' = [stored EXCEPT ![d] = [version |-> 1, doc |-> value, live |-> TRUE]],
             ReplyWith([id |-> d, version |-> 1, doc |-> value])
      PROVE  EditorInv'
  <2> DEFINE row == [version |-> 1, doc |-> value, live |-> TRUE]
  <2>1. row \in [version : Nat, doc : {value}, live : {row.live}] /\ row.version = 1
    OBVIOUS
  <2>2. stored' = [stored EXCEPT ![d] = row]
    BY <1>3
  <2> HIDE DEF row
  <2>3. d # Nothing /\ stored[d].version < row.version
    BY <1>3, <2>1, NothingAssumption
  <2> QED BY <1>2, <1>3, <2>1, <2>2, <2>3
<1>4. ASSUME base.id # Nothing, stored[base.id].live, stored[base.id].version # base.version, Reply("conflict"),
             UNCHANGED stored
      PROVE  EditorInv'
  <2>1. Steady => Newer(stored, base.id, base.version)
    <3> SUFFICES ASSUME Steady PROVE Newer(stored, base.id, base.version)
      OBVIOUS
    <3>1. call.op # "copy"
      BY <1>0, <1>4 DEF EditorInv, CallInv
    <3>2. base = saved /\ Behind(stored, saved)
      BY <1>0, <3>1 DEF EditorInv, BaseInv, HomeInv
    <3>3. base.version <= stored[base.id].version /\ stored[base.id].version \in Nat
      BY <1>0, <1>4, <3>2 DEF Behind, IsStore
    <3>4. stored[base.id].version > base.version
      BY <1>0, <1>4, <3>3
    <3> QED BY <1>4, <3>4 DEF Newer
  <2>2. Answers(call, call') /\ call'.reply = "conflict"
    BY <1>0, <1>4, ReplyFields DEF Reply
  <2> QED BY <1>0, <1>4, <2>1, <2>2, Replied
<1>5. ASSUME base.id # Nothing, stored[base.id].live, stored[base.id].version = base.version,
             stored' = [stored EXCEPT ![base.id].version = @ + 1, ![base.id].doc = value],
             ReplyWith([id |-> base.id, version |-> base.version + 1, doc |-> value])
      PROVE  EditorInv'
  <2> DEFINE version == base.version + 1
             d == base.id
             next == [stored[d] EXCEPT !.version = version]
             row == [next EXCEPT !.doc = value]
  <2>1. d \in Drafts /\ d # Nothing /\ stored[d] \in [version : Nat, doc : {stored[d].doc}, live : {stored[d].live}]
    BY <1>0, <1>5 DEF IsStore
  <2>2. version \in Nat /\ stored[d].version < version
    BY <1>0, <1>5
  <2>3. stored' = [stored EXCEPT ![d] = row]
    BY <1>0, <1>5, <2>1 DEF IsStore
  <2>4. ReplyWith([id |-> d, version |-> version, doc |-> value])
    BY <1>5
  <2> HIDE DEF version, row
  <2>5. next \in [version : {version}, doc : {stored[d].doc}, live : {stored[d].live}]
    BY <2>1
  <2> HIDE DEF next
  <2>6. row \in [version : {version}, doc : {value}, live : {row.live}] /\ row.version = version
    BY <2>5 DEF row
  <2> QED BY <1>2, <2>1, <2>2, <2>3, <2>4, <2>6
<1>6. \/ \E r \in {"refused", "gone"} : Reply(r) /\ UNCHANGED stored
      \/ /\ base.id = Nothing
         /\ \E d \in Drafts :
              /\ stored[d].version = 0
              /\ stored' = [stored EXCEPT ![d] = [version |-> 1, doc |-> value, live |-> TRUE]]
              /\ ReplyWith([id |-> d, version |-> 1, doc |-> value])
      \/ /\ base.id # Nothing /\ stored[base.id].live /\ stored[base.id].version # base.version
         /\ Reply("conflict") /\ UNCHANGED stored
      \/ /\ base.id # Nothing /\ stored[base.id].live /\ stored[base.id].version = base.version
         /\ stored' = [stored EXCEPT ![base.id].version = @ + 1, ![base.id].doc = value]
         /\ ReplyWith([id |-> base.id, version |-> base.version + 1, doc |-> value])
  BY DEF HandleSaveComic
<1> QED BY <1>1, <1>3, <1>4, <1>5, <1>6

LEMMA GetHandled ==
  ASSUME EditorInv, HandleGetComic
  PROVE  EditorInv'
<1> DEFINE d == IF call.at = "get" THEN call.base.id ELSE call.shown
           copy == Snapshot(d)
<1>0. /\ Busy /\ call.at \in {"get", "fetch"} /\ IsStore(stored) /\ IsCall(call) /\ Grows(stored, stored)
      /\ UNCHANGED <<doc, touched, saved, savedId, dirty, recovery, conflict, ask, quote, backup, adrift, stored>>
      /\ ReplyWith(copy) \/ Reply("gone")
      /\ d \in Drafts /\ d # Nothing
  BY StoreStays DEF HandleGetComic, unasked, session, dialogs, local, ghosts, server, EditorInv, CallInv, IsBase
<1>1. CASE Reply("gone")
  <2>1. Answers(call, call') /\ call'.reply = "gone"
    BY <1>0, <1>1, ReplyFields DEF Reply
  <2> QED BY <1>0, <2>1, Replied
<1>2. CASE ReplyWith(copy)
  <2>1. /\ stored[d].version \in Nat /\ copy.id = d /\ copy.version = stored[d].version /\ copy.doc = stored[d].doc
        /\ IsCopy(copy)
    <3>1. stored[d].version \in Nat
      BY <1>0 DEF IsStore
    <3>2. copy = [id |-> d, version |-> stored[d].version, doc |-> stored[d].doc]
      BY DEF Snapshot
    <3> HIDE DEF d, copy
    <3> QED BY <1>0, <3>1, <3>2 DEF IsCopy
  <2>2. IsTrue(stored, copy)
    <3> HIDE DEF d, copy
    <3> QED BY <1>0, <2>1 DEF IsTrue, Behind, Holds
  <2>3. call' = [call EXCEPT !.reply = "ok", !.got = copy]
    BY <1>2 DEF ReplyWith
  <2>4. d = IF call.at = "get" THEN call.base.id ELSE call.shown
    OBVIOUS
  <2> HIDE DEF d, copy
  <2>5. /\ call'.got = copy /\ call'.at = call.at /\ call'.sent = call.sent /\ call'.base = call.base
        /\ call'.shown = call.shown /\ Answers(call, call')
    BY <1>0, <2>3 DEF IsCall, Answers
  <2>6. Told(stored', call')
    BY <1>0, <2>1, <2>2, <2>4, <2>5 DEF Told
  <2>7. call.at = "fetch" /\ Steady => copy.version > saved.version
    BY <1>0, <2>1, <2>4 DEF EditorInv, BaseInv, HomeInv, Copying, Newer
  <2> QED BY <1>0, <2>5, <2>6, <2>7, Replied
<1> QED BY <1>0, <1>1, <1>2

LEMMA OthersHandled ==
  ASSUME EditorInv, HandleDeleteComic \/ HandleEstimate \/ HandleCreateJob \/ Disconnect
  PROVE  EditorInv'
<1>0. IsStore(stored) /\ Grows(stored, stored)
  BY StoreStays DEF EditorInv
<1>1. CASE HandleDeleteComic
  <2> DEFINE d == call.base.id
             r == IF stored[d].live THEN "ok" ELSE "gone"
  <2>1. /\ Busy /\ call.at = "remove" /\ stored' = [stored EXCEPT ![d].live = FALSE]
        /\ call' = [call EXCEPT !.reply = r] /\ r \in {"ok", "gone"} /\ IsCall(call)
        /\ UNCHANGED <<doc, touched, saved, savedId, dirty, recovery, conflict, ask, quote, backup, adrift>>
    BY <1>1 DEF HandleDeleteComic, Reply, unasked, session, dialogs, local, ghosts, EditorInv, CallInv
  <2> HIDE DEF r
  <2>2. Grows(stored, stored')
    <3>1. CASE d \notin Drafts
      <4>1. stored' = stored
        BY <1>0, <2>1, <3>1 DEF IsStore
      <4> QED BY <1>0, <4>1
    <3>2. CASE d \in Drafts
      <4> DEFINE row == [stored[d] EXCEPT !.live = FALSE]
      <4>t. stored[d] \in [version : Nat, doc : {stored[d].doc}, live : {stored[d].live}]
        BY <1>0, <3>2 DEF IsStore
      <4>1. /\ row \in [version : Nat, doc : {row.doc}, live : {row.live}]
            /\ row.version = stored[d].version /\ row.doc = stored[d].doc
        BY <4>t
      <4>2. stored' = [stored EXCEPT ![d] = row] /\ stored[d].version \in Nat
        BY <2>1, <4>t
      <4> HIDE DEF row
      <4>3. stored[d].version <= row.version
        BY <4>1, <4>2
      <4>4. LET new == [stored EXCEPT ![d] = row] IN Grows(stored, new) /\ new[d] = row
        BY <1>0, <3>2, <4>1, <4>3, StoreGrows
      <4> QED BY <4>2, <4>4
    <3> QED BY <3>1, <3>2
  <2>a. Answers(call, call')
    BY <2>1, ReplyFields
  <2>3. Told(stored', call')
    BY <2>1, <2>a DEF Told, Answers
  <2> QED BY <2>1, <2>2, <2>3, <2>a, Replied
<1>2. CASE HandleEstimate \/ HandleCreateJob
  <2>1. PICK r : Reply(r)
    BY <1>2 DEF HandleEstimate, HandleCreateJob
  <2>2. /\ Busy /\ call.at \in {"estimate", "create"} /\ IsCall(call)
        /\ UNCHANGED <<doc, touched, saved, savedId, dirty, recovery, conflict, ask, quote, backup, adrift, stored>>
    BY <1>2 DEF HandleEstimate, HandleCreateJob, unasked, session, dialogs, local, ghosts, server, EditorInv, CallInv
  <2>3. call' = [call EXCEPT !.reply = r]
    BY <2>1 DEF Reply
  <2>a. Answers(call, call')
    BY <2>2, <2>3, ReplyFields
  <2>4. Told(stored', call')
    BY <2>2, <2>a DEF Told, Answers
  <2> QED BY <1>0, <2>2, <2>4, <2>a, Replied
<1>3. CASE Disconnect
  <2>1. /\ Busy /\ call' = [call EXCEPT !.reply = "lost", !.got = Nothing]
        /\ UNCHANGED <<doc, touched, saved, savedId, dirty, recovery, conflict, ask, quote, backup, adrift, stored>>
    BY <1>3 DEF Disconnect, session, dialogs, local, ghosts, server
  <2>2. IsCall(call)
    BY <2>1 DEF EditorInv, CallInv
  <2>3. Answers(call, call') /\ call'.reply = "lost"
    BY <2>1, <2>2 DEF IsCall, Answers
  <2> QED BY <1>0, <2>1, <2>3, Replied
<1> QED BY <1>1, <1>2, <1>3

LEMMA SaveAnsweredStep ==
  ASSUME EditorInv, SaveAnswered
  PROVE  EditorInv'
<1>0. /\ Busy /\ call.at = "persist" /\ call.reply = "ok" /\ IsCall(call) /\ IsBase(call.base) /\ IsBase(call.prior)
      /\ IsTrue(stored, call.got) /\ call.got.doc = call.sent
      /\ (call.base.id # Nothing => call.got.id = call.base.id) /\ (~touched => doc = call.sent)
      /\ (call.op = "copy" => call.base.id = Nothing) /\ call.shown \in Drafts \cup {Nothing}
  BY DEF SaveAnswered, Answered, EditorInv, CallInv, Told
<1>1. /\ saved' = [id |-> call.got.id, version |-> call.got.version] /\ savedId' = call.got.id
      /\ dirty' = touched /\ backup' = BackupOf(doc, saved')
      /\ UNCHANGED <<doc, touched, recovery, conflict, ask, stored>>
      /\ quote' \in {quote, Nothing}
      /\ \/ call' = Idle
         \/ call.op = "submit" /\ call' = Ask(call, "create")
  BY <1>0 DEF SaveAnswered, MarkSaved, Edited, Finish, server
<1>2. /\ IsBase(saved') /\ saved'.id # Nothing /\ saved'.id = call.got.id /\ Behind(stored, saved')
      /\ ~touched => Holds(stored, saved', doc)
  BY <1>0, <1>1 DEF IsTrue, IsCopy, IsBase, Behind, Holds
<1>4. BaseInv'
  BY <1>0, <1>1, <1>2 DEF BaseInv, IsTrue, IsCopy
<1>5. ~Busy' \/ call' = Ask(call, "create")
  BY <1>1 DEF Busy
<1>7. call' = Ask(call, "create") =>
        /\ IsCall(call') /\ call'.op = call.op /\ call'.at = "create" /\ call'.prior = call.prior
        /\ call'.base = call.base /\ call'.shown = call.shown /\ call'.reply = "none"
  BY <1>0 DEF Ask, IsCall
<1>8. CallInv'
  <2>1. Busy' => call.op = "submit"
    BY <1>1 DEF Busy
  <2> QED BY <1>0, <1>5, <1>7, <2>1 DEF CallInv
<1>9. HomeInv'
  <2> SUFFICES ASSUME call' = Ask(call, "create") PROVE HomeInv'
    BY <1>1, <1>5 DEF HomeInv
  <2>1. call.op = "submit" /\ ~Copying
    BY <1>0, <1>1, <1>7, CallIsNotIdle DEF Copying
  <2>2. Steady /\ call.shown # Nothing => call.shown = savedId'
    <3>1. Steady /\ call.shown # Nothing => call.shown = savedId /\ savedId = saved.id /\ call.base = saved
      BY <1>0, <2>1 DEF EditorInv, BaseInv, HomeInv
    <3> QED BY <1>0, <1>1, <3>1
  <2> QED BY <1>1, <1>2, <1>7, <2>2 DEF HomeInv, Copying
<1>10. DialogInv'
  <2>1. ask = Nothing /\ conflict = Nothing
    BY <1>0 DEF EditorInv, DialogInv
  <2>2. IsCopy(backup') /\ Behind(stored', backup')
    BY <1>1, <1>2, BackupIsCopy
  <2>3. Busy' => call'.at = "create"
    BY <1>5, <1>7
  <2> QED BY <1>1, <2>1, <2>2, <2>3 DEF EditorInv, DialogInv
<1> QED BY <1>1, <1>4, <1>8, <1>9, <1>10 DEF EditorInv

LEMMA SaveFailedStep ==
  ASSUME EditorInv, SaveFailed
  PROVE  EditorInv'
<1>0. /\ Busy /\ call.at = "persist" /\ IsCall(call) /\ IsBase(call.base) /\ IsBase(call.prior) /\ IsBase(saved)
      /\ (call.op = "copy" => call.base.id = Nothing) /\ call.shown \in Drafts \cup {Nothing}
  BY DEF SaveFailed, Answered, EditorInv, BaseInv, CallInv
<1>1. /\ saved' = IF call.op = "copy" THEN call.prior ELSE saved
      /\ UNCHANGED <<doc, touched, savedId, dirty, recovery, conflict, quote, ask, backup, stored, adrift>>
      /\ \/ call.reply = "conflict" /\ call.shown # Nothing /\ call' = Ask(call, "fetch")
         \/ call' = Idle
  BY DEF SaveFailed, Conflicting, Finish, quiet, dialogs, local, server, ghosts
<1>2. call' = Ask(call, "fetch") =>
        /\ IsCall(call') /\ call'.op = call.op /\ call'.at = "fetch" /\ call'.prior = call.prior
        /\ call'.base = call.base /\ call'.shown = call.shown /\ call'.reply = "none"
  BY <1>0 DEF Ask, IsCall
<1>3. ~Copying' /\ (Busy' => call' = Ask(call, "fetch") /\ call.reply = "conflict" /\ call.shown # Nothing)
  BY <1>1, <1>2 DEF Copying, Busy
<1>4. BaseInv'
  <2>1. CASE call.op = "copy"
    <3>1. Copying
      BY <1>0, <2>1 DEF Copying
    <3> QED BY <1>0, <1>1, <1>3, <2>1, <3>1 DEF EditorInv, BaseInv, HomeInv
  <2>2. CASE call.op # "copy"
    BY <1>0, <1>1, <1>3, <2>2 DEF EditorInv, BaseInv, Copying
  <2> QED BY <2>1, <2>2
<1>5. CallInv'
  BY <1>0, <1>2, <1>3 DEF CallInv
<1>6. HomeInv'
  <2> SUFFICES ASSUME Busy', Steady PROVE HomeInv'
    BY <1>1, <1>3 DEF HomeInv
  <2>1. Newer(stored, call.base.id, call.base.version)
    BY <1>0, <1>3 DEF EditorInv, HomeInv
  <2>2. call.op # "copy" /\ call.base = saved
    BY <1>0, <2>1 DEF EditorInv, HomeInv, Newer
  <2>3. saved' = saved /\ Newer(stored', saved'.id, saved'.version)
    BY <1>1, <2>1, <2>2
  <2>4. call.shown # Nothing => call.shown = savedId'
    BY <1>0, <1>1 DEF EditorInv, HomeInv
  <2> QED BY <1>1, <1>2, <1>3, <2>3, <2>4 DEF HomeInv
<1>7. DialogInv'
  BY <1>0, <1>1, <1>2, <1>3 DEF EditorInv, DialogInv
<1> QED BY <1>1, <1>4, <1>5, <1>6, <1>7 DEF EditorInv

LEMMA FetchedStep ==
  ASSUME EditorInv, ConflictFetched
  PROVE  EditorInv'
<1>1. /\ Busy /\ call.at = "fetch" /\ call' = Idle
      /\ conflict' = IF call.reply = "ok" THEN call.got ELSE conflict
      /\ UNCHANGED <<doc, saved, savedId, dirty, recovery, quote, ask, backup, stored, adrift>>
  BY DEF ConflictFetched, Answered, Finish, session, local, server, ghosts
<1>2. ask = Nothing /\ conflict = Nothing
  BY <1>1 DEF EditorInv, DialogInv
<1>3. call.reply = "ok" => /\ IsTrue(stored, call.got) /\ call.got.id = call.shown
                           /\ Steady => call.shown = saved.id /\ call.got.version > saved.version
  <2>1. ~Copying /\ call.shown # Nothing
    BY <1>1 DEF Copying, EditorInv, CallInv
  <2> QED BY <1>1, <2>1 DEF EditorInv, CallInv, Told, HomeInv, BaseInv
<1>4. DialogInv'
  BY <1>1, <1>2, <1>3 DEF EditorInv, DialogInv, Busy
<1> QED BY <1>1, <1>4, Settles DEF Busy, Copying

LEMMA FinishedStep ==
  ASSUME EditorInv, Removed \/ Estimated
  PROVE  EditorInv'
<1>1. /\ Busy /\ call.at # "persist" /\ UNCHANGED <<backup, stored>>
      /\ \/ call' = Idle /\ Activate(NewDocument(Blank), FALSE) /\ adrift' = FALSE
            /\ UNCHANGED <<ask, conflict, quote>>
         \/ Mount(Nothing)
         \/ call' = Idle /\ UNCHANGED <<session, adrift, ask, conflict>>
  BY DEF Removed, Estimated, Answered, Finish, dialogs, local, server, ghosts
<1>2. ask = Nothing /\ conflict = Nothing /\ ~Copying
  BY <1>1 DEF EditorInv, DialogInv, Copying
<1>3. CASE call' = Idle /\ Activate(NewDocument(Blank), FALSE) /\ adrift' = FALSE
           /\ UNCHANGED <<ask, conflict, quote>>
  <2>1. IsCopy(NewDocument(Blank)) /\ NewDocument(Blank).id = Nothing
    BY DEF IsCopy, NewDocument
  <2> QED BY <1>1, <1>2, <1>3, <2>1, Opens DEF Busy
<1>4. CASE call' = Idle /\ UNCHANGED <<session, adrift, ask, conflict>>
  <2>1. UNCHANGED <<doc, saved, savedId, dirty, recovery, adrift>> /\ ~Busy'
    BY <1>4 DEF session, Busy
  <2>2. DialogInv'
    BY <1>1, <1>2, <1>4, <2>1 DEF EditorInv, DialogInv
  <2> QED BY <1>1, <1>2, <2>1, <2>2, Settles
<1>5. CASE Mount(Nothing)
  BY <1>1, <1>5, Mounted
<1> QED BY <1>1, <1>3, <1>4, <1>5

LEMMA OpenedStep ==
  ASSUME EditorInv, Opened
  PROVE  EditorInv'
<1>1. /\ Busy /\ call.at = "get" /\ UNCHANGED <<ask, conflict, quote, backup, stored>>
      /\ \/ call.reply = "ok" /\ call' = Idle /\ Activate(call.got, FALSE) /\ adrift' = FALSE
         \/ /\ call.op = "keep" /\ call.reply = "ok"
            /\ saved' = [id |-> call.got.id, version |-> call.got.version]
            /\ call' = Persist(call, doc, saved') \/ call' = Idle
            /\ touched' = FALSE /\ adrift' = TRUE
            /\ UNCHANGED <<doc, savedId, dirty, recovery>>
         \/ call' = Idle /\ UNCHANGED <<session, ghosts>>
  BY DEF Opened, Answered, Finish, dialogs, local, server
<1>2. /\ ask = Nothing /\ conflict = Nothing /\ ~Copying /\ IsCall(call) /\ IsBase(call.base) /\ IsBase(call.prior)
      /\ call.reply = "ok" => IsTrue(stored, call.got)
      /\ call.shown \in Drafts \cup {Nothing}
  BY <1>1 DEF EditorInv, DialogInv, CallInv, Told, Copying
<1>3. CASE call.reply = "ok" /\ call' = Idle /\ Activate(call.got, FALSE) /\ adrift' = FALSE
  BY <1>1, <1>2, <1>3, Opens DEF IsTrue, Busy
<1>4. CASE /\ call.op = "keep" /\ call.reply = "ok"
           /\ saved' = [id |-> call.got.id, version |-> call.got.version]
           /\ call' = Persist(call, doc, saved') \/ call' = Idle
           /\ touched' = FALSE /\ adrift' = TRUE
           /\ UNCHANGED <<doc, savedId, dirty, recovery>>
  <2>1. IsBase(saved') /\ Behind(stored, saved') /\ saved'.id = call.got.id /\ call.got.id = call.base.id
    BY <1>1, <1>2, <1>4 DEF IsTrue, IsCopy, IsBase, Behind, EditorInv, CallInv, Told
  <2>3. Busy' => /\ IsCall(call') /\ call'.op = "keep" /\ call'.at = "persist" /\ call'.reply = "none"
                 /\ call'.sent = doc /\ call'.base = saved' /\ call'.prior = call.prior /\ call'.shown = call.shown
    BY <1>2, <1>4, PersistIsCall DEF Busy
  <2>4. CallInv'
    BY <1>2, <1>4, <2>1, <2>3 DEF CallInv
  <2>5. DialogInv'
    BY <1>1, <1>2, <1>4, <2>3 DEF EditorInv, DialogInv
  <2>6. ~Copying' /\ IsStore(stored)'
    BY <1>1, <2>3 DEF Copying, EditorInv
  <2>7. Steady => savedId = saved'.id
    BY <1>1, <1>2, <1>4, <2>1 DEF EditorInv, BaseInv, HomeInv
  <2>8. BaseInv'
    BY <1>1, <1>4, <2>1, <2>6, <2>7 DEF EditorInv, BaseInv
  <2>9. HomeInv'
    <3>1. Steady /\ call.shown # Nothing => call.shown = savedId
      BY <1>1 DEF EditorInv, HomeInv
    <3> QED BY <1>4, <2>3, <2>6, <3>1 DEF HomeInv
  <2> QED BY <2>4, <2>5, <2>6, <2>8, <2>9 DEF EditorInv
<1>5. CASE call' = Idle /\ UNCHANGED <<session, ghosts>>
  <2>1. UNCHANGED <<doc, saved, savedId, dirty, recovery, adrift>> /\ ~Busy'
    BY <1>5 DEF session, ghosts, Busy
  <2>2. DialogInv'
    BY <1>1, <1>2, <2>1 DEF EditorInv, DialogInv
  <2> QED BY <1>1, <1>2, <2>1, <2>2, Settles
<1> QED BY <1>1, <1>3, <1>4, <1>5

LEMMA CreatedStep ==
  ASSUME EditorInv, JobCreated
  PROVE  EditorInv'
<1> DEFINE next == [doc EXCEPT !.pending = attempt.id]
<1>1. /\ Busy /\ call.at = "create" /\ UNCHANGED <<ask, conflict, backup, stored, adrift>>
      /\ quote' \in {quote, Nothing}
      /\ \/ /\ doc' = next /\ dirty' = TRUE /\ touched' = FALSE
            /\ call' = [Persist(call, next, saved) EXCEPT !.payload = Nothing] \/ call' = Idle
            /\ UNCHANGED <<saved, savedId, recovery>>
         \/ call' = Idle /\ UNCHANGED session
  BY DEF JobCreated, Answered, Finish, server
<1> HIDE DEF next
<1>2. /\ ask = Nothing /\ conflict = Nothing /\ ~Copying /\ IsCall(call) /\ IsBase(call.prior) /\ IsBase(saved)
      /\ call.shown \in Drafts \cup {Nothing}
      /\ Steady => saved.id # Nothing /\ (call.shown # Nothing => call.shown = savedId)
  BY <1>1 DEF EditorInv, BaseInv, DialogInv, CallInv, HomeInv, Copying
<1>3. CASE call' = Idle /\ UNCHANGED session
  <2>1. UNCHANGED <<doc, saved, savedId, dirty, recovery>> /\ ~Busy'
    BY <1>3 DEF session, Busy
  <2>2. DialogInv'
    BY <1>1, <1>2, <2>1 DEF EditorInv, DialogInv
  <2> QED BY <1>1, <1>2, <2>1, <2>2, Settles
<1>4. CASE /\ doc' = next /\ dirty' = TRUE /\ touched' = FALSE
           /\ call' = [Persist(call, next, saved) EXCEPT !.payload = Nothing] \/ call' = Idle
           /\ UNCHANGED <<saved, savedId, recovery>>
  <2>1. Busy' => /\ IsCall(call') /\ call'.op = call.op /\ call'.at = "persist" /\ call'.reply = "none"
                 /\ call'.sent = next /\ call'.base = saved /\ call'.prior = call.prior /\ call'.shown = call.shown
    <3> DEFINE p == Persist(call, next, saved)
    <3>1. /\ IsCall(p) /\ p.op = call.op /\ p.at = "persist" /\ p.reply = "none" /\ p.sent = next
          /\ p.base = saved /\ p.prior = call.prior /\ p.shown = call.shown
      BY <1>2, PersistIsCall
    <3>2. Busy' => call' = [p EXCEPT !.payload = Nothing]
      BY <1>4 DEF Busy
    <3> HIDE DEF p
    <3> QED BY <3>1, <3>2 DEF IsCall
  <2>2. call.op = "submit" /\ ~Copying'
    BY <1>1, <2>1 DEF EditorInv, CallInv, Copying
  <2>3. BaseInv'
    BY <1>1, <1>2, <1>4, <2>2 DEF EditorInv, BaseInv
  <2>4. CallInv'
    BY <1>2, <1>4, <2>1, <2>2 DEF CallInv
  <2>5. HomeInv'
    BY <1>1, <1>2, <1>4, <2>1, <2>2 DEF HomeInv
  <2>6. DialogInv'
    BY <1>1, <1>2, <1>4, <2>1 DEF EditorInv, DialogInv
  <2> QED BY <1>1, <2>3, <2>4, <2>5, <2>6 DEF EditorInv
<1> QED BY <1>1, <1>3, <1>4

LEMMA FileReadStep ==
  ASSUME EditorInv, FileRead
  PROVE  EditorInv'
<1> DEFINE value == NewDocument([Blank EXCEPT !.story = edits])
<1>1. /\ Busy /\ call.at = "local" /\ call' = Idle /\ UNCHANGED <<conflict, backup, stored>>
      /\ \/ /\ \E next : Change(next)
            /\ quote' = Nothing /\ UNCHANGED <<saved, savedId, recovery, ask, adrift>>
         \/ ask' = [kind |-> "import", value |-> value] /\ UNCHANGED <<session, ghosts, quote>>
         \/ Activate(value, FALSE) /\ adrift' = FALSE /\ UNCHANGED <<ask, quote>>
  BY DEF FileRead, local, server, ghosts
<1>2. ask = Nothing /\ conflict = Nothing /\ quote = Nothing /\ ~Copying /\ ~Busy'
  BY <1>1 DEF EditorInv, DialogInv, Copying, Busy
<1>3. IsCopy(value) /\ value.id = Nothing
  BY DEF NewDocument, IsCopy
<1> HIDE DEF value
<1>4. CASE /\ \E next : Change(next)
           /\ quote' = Nothing /\ UNCHANGED <<saved, savedId, recovery, ask, adrift>>
  <2>1. dirty' = TRUE /\ touched' = TRUE
    BY <1>4 DEF Change
  <2> QED BY <1>1, <1>2, <1>4, <2>1, Rewritten
<1>5. CASE ask' = [kind |-> "import", value |-> value] /\ UNCHANGED <<session, ghosts, quote>>
  <2>1. UNCHANGED <<doc, saved, savedId, dirty, recovery, adrift>>
    BY <1>5 DEF session, ghosts
  <2>2. DialogInv'
    BY <1>1, <1>2, <1>3, <1>5, <2>1 DEF EditorInv, DialogInv
  <2> QED BY <1>1, <1>2, <2>1, <2>2, Settles
<1>6. CASE Activate(value, FALSE) /\ adrift' = FALSE /\ UNCHANGED <<ask, quote>>
  BY <1>1, <1>2, <1>3, <1>6, Opens
<1> QED BY <1>1, <1>4, <1>5, <1>6

LEMMA EditorStep ==
  ASSUME EditorInv, [Next]_vars
  PROVE  EditorInv'
<1>1. CASE User
  BY <1>1, UserRewrites, QuietSteps, Restored, LeaveStep, SaveBegins, AskBegins, ChooseStep, AnswerStep,
     ResolveStep DEF User
<1>2. CASE Autosave \/ FinishUpload \/ PollEnded
  BY <1>2, UserRewrites, QuietSteps
<1>3. CASE Handle
  BY <1>3, SaveHandled, GetHandled, OthersHandled DEF Handle
<1>4. CASE Receive
  BY <1>4, SaveAnsweredStep, SaveFailedStep, FetchedStep, OpenedStep, FinishedStep, CreatedStep, FileReadStep
     DEF Receive
<1>5. CASE Environment
  BY <1>5, OthersHandled, ElsewhereStep, QuietSteps DEF Environment
<1>6. CASE UNCHANGED vars
  <2>1. /\ UNCHANGED <<doc, touched, saved, savedId, dirty, call, conflict, ask, adrift, stored>>
        /\ quote' = quote /\ recovery' = recovery /\ backup' = backup
    BY <1>6 DEF vars, session, dialogs, local, server, ghosts
  <2>2. Grows(stored, stored') /\ (backup' # Nothing => IsCopy(backup') /\ Behind(stored', backup'))
    BY <2>1, StoreStays DEF EditorInv, DialogInv
  <2> QED BY <2>1, <2>2, Unmoved
<1> QED BY <1>1, <1>2, <1>3, <1>4, <1>5, <1>6 DEF Next

LEMMA EditorStart == Init => EditorInv /\ StackInv
<1> SUFFICES ASSUME Init PROVE EditorInv /\ StackInv
  OBVIOUS
<1>1. IsStore(stored)
  BY DEF Init, IsStore
<1>2. BaseInv /\ ~Busy
  BY NoBase DEF Init, BaseInv, Behind, Busy
<1>3. DialogInv /\ CallInv /\ HomeInv
  BY <1>2 DEF Init, DialogInv, CallInv, HomeInv
<1>4. StackInv
  <2>1. IsStack(<<>>) /\ Len(<<>>) = 0
    BY DEF IsStack
  <2> QED BY <2>1, LimitAssumption DEF Init, StackInv, UndoBounded
<1> QED BY <1>1, <1>2, <1>3, <1>4 DEF EditorInv

-----------------------------------------------------------------------------
(* The types, with the versions the editor can have heard of so far.        *)
Reached == IF saves < MaxSaves THEN saves ELSE MaxSaves

Identities(n) == [id : Drafts \cup {Nothing}, version : 0..n]
Copies(n) == [id : Drafts \cup {Nothing}, version : 0..n, doc : Documents]
Rows(n) == [version : 0..n, doc : Documents, live : BOOLEAN]
Ats == {"persist", "fetch", "get", "remove", "estimate", "create", "local"}
Replies == {"none", "ok", "lost", "gone", "refused", "conflict", "price_changed"}
Actions(n) == [op : Ops, at : Ats,
               held : {Nothing} \cup Documents, payload : {Nothing} \cup Request, asks : BOOLEAN,
               prior : Identities(n), sent : {Nothing} \cup Documents, base : Identities(n),
               reply : Replies,
               got : {Nothing} \cup Copies(n), shown : Drafts \cup {Nothing}, home : Drafts \cup {Nothing}]

(* The document and its stacks. *)
DocTypes ==
    /\ doc \in Documents /\ history \in Seq(Documents) /\ future \in Seq(Documents)
    /\ upload \in {Nothing} \cup Uploads /\ edits \in 0..MaxEdits

(* What is true or false, and the names of drafts. *)
FlagTypes ==
    /\ touched \in BOOLEAN /\ dirty \in BOOLEAN /\ adrift \in BOOLEAN
    /\ savedId \in Drafts \cup {Nothing} /\ origin \in Drafts \cup {Nothing}
    /\ address \in Drafts \cup {Nothing}

(* Requests, their keys and their jobs. *)
JobTables == [Jobs -> [status : {"none", "running", "succeeded", "failed", "deleted"}, payload : Request]]

JobTypes ==
    /\ quote \in {Nothing} \cup Request /\ lost \in {Nothing} \cup Request
    /\ attempt \in {Nothing} \cup Attempt /\ submission \in {Nothing} \cup Attempt
    /\ job \in JobTables
    /\ trouble \in 0..MaxTrouble

(* What the editor holds of drafts, and the drafts. *)
HeldTypes(n) ==
    /\ saved \in Identities(n)
    /\ recovery \in {Nothing} \cup Copies(n) /\ backup \in {Nothing} \cup Copies(n)
    /\ conflict \in {Nothing} \cup Copies(n)
    /\ ask # Nothing => ask.value \in Copies(n)
    /\ stored \in [Drafts -> Rows(n)]

(* The action under way. *)
CallTypes(n) ==
    Busy => /\ call \in Actions(n)
            /\ call.at = "local" /\ call.op = "source" => call.held \in Documents
            /\ call.at = "persist" => call.sent \in Documents /\ call.base.version < MaxSaves
            /\ call.at = "persist" /\ call.reply = "none" => saves <= MaxSaves
            /\ call.at \in {"persist", "get", "fetch"} /\ call.reply = "ok" => call.got \in Copies(n)
            /\ call.at = "create" => attempt \in Attempt

TypesInv == /\ DocTypes /\ FlagTypes /\ JobTypes /\ HeldTypes(Reached) /\ CallTypes(Reached)
            /\ saves \in 0..(MaxSaves + 1)

(* The key of the request whose answer was lost is the one that is kept, in *)
(* memory and in local storage alike, and it has its job.                   *)
KeyInv ==
    /\ attempt # Nothing => submission = attempt
    /\ lost # Nothing => /\ submission # Nothing /\ submission.payload = lost
                         /\ job[submission.id].status # "none"

LEMMA Larger ==
  ASSUME NEW n \in Nat, NEW m \in Nat, n <= m
  PROVE  /\ Identities(n) \subseteq Identities(m) /\ Copies(n) \subseteq Copies(m) /\ Rows(n) \subseteq Rows(m)
         /\ Actions(n) \subseteq Actions(m)
<1>1. 0..n \subseteq 0..m
  OBVIOUS
<1>2. Identities(n) \subseteq Identities(m) /\ Copies(n) \subseteq Copies(m) /\ Rows(n) \subseteq Rows(m)
  BY <1>1 DEF Identities, Copies, Rows
<1>3. Actions(n) \subseteq Actions(m)
  BY <1>2 DEF Actions
<1> QED BY <1>2, <1>3

LEMMA ReachedGrows ==
  ASSUME saves \in 0..(MaxSaves + 1), saves' \in {saves, saves + 1}
  PROVE  /\ Reached \in Nat /\ Reached <= MaxSaves /\ Reached' \in Nat /\ Reached' <= MaxSaves
         /\ Reached <= Reached' /\ (saves < MaxSaves => Reached = saves)
BY BoundsAssumption DEF Reached

LEMMA BlankIsDocument ==
  /\ Blank \in Documents
  /\ \A s \in 0..MaxEdits : [Blank EXCEPT !.story = s] \in Documents
BY BoundsAssumption DEF Blank, Documents, Pages, Foreign

(* What the edits make of a document. *)
LEMMA DocumentsStay ==
  ASSUME NEW d \in Documents
  PROVE  /\ \A s \in 0..MaxEdits : [d EXCEPT !.story = s] \in Documents /\ [d EXCEPT !.art = s] \in Documents
         /\ [d EXCEPT !.art = Foreign] \in Documents
         /\ \A j \in Jobs \cup {Nothing} : [d EXCEPT !.pending = j] \in Documents
         /\ \A p \in Pages, j \in Jobs \cup {Nothing} : [d EXCEPT !.page = p, !.pending = j] \in Documents
         /\ \A p \in Pages : [d EXCEPT !.page = p] \in Documents
<1>1. MaxEdits \in Nat /\ Foreign \in 0..Foreign /\ 0..MaxEdits \subseteq 0..Foreign
  BY BoundsAssumption DEF Foreign
<1> QED BY <1>1 DEF Documents

LEMMA NewIsCopy ==
  ASSUME NEW n \in Nat, NEW d \in Documents
  PROVE  /\ NewDocument(d) \in Copies(n) /\ Unsaved \in Identities(n)
         /\ \A id \in Drafts : [id |-> id, version |-> 0, doc |-> d] \in Copies(n)
BY DEF NewDocument, Copies, Unsaved, Identities

LEMMA CopyFields ==
  ASSUME NEW n \in Nat
  PROVE  /\ \A v \in Copies(n) : /\ v.id \in Drafts \cup {Nothing} /\ v.doc \in Documents
                                 /\ Identity(v) \in Identities(n)
                                 /\ [id |-> v.id, version |-> v.version] \in Identities(n)
         /\ \A d \in Documents, b \in Identities(n) : BackupOf(d, b) \in Copies(n)
BY DEF Copies, Identities, Identity, BackupOf

LEMMA ChangeTypes ==
  ASSUME doc \in Documents, history \in Seq(Documents), NEW next \in Documents, Change(next)
  PROVE  doc' \in Documents /\ history' \in Seq(Documents) /\ future' \in Seq(Documents)
<1>1. Trimmed(history) \in Seq(Documents)
  BY TrimmedIsShort
<1>2. history' = Append(Trimmed(history), doc) /\ future' = <<>> /\ doc' = next
  BY DEF Change
<1> QED BY <1>1, <1>2

LEMMA ActivateTypes ==
  ASSUME doc \in Documents, history \in Seq(Documents),
         NEW n \in Nat, NEW value \in Copies(n), NEW keep, Activate(value, keep)
  PROVE  doc' \in Documents /\ history' \in Seq(Documents) /\ future' \in Seq(Documents)
<1>1. Trimmed(history) \in Seq(Documents)
  BY TrimmedIsShort
<1>2. /\ doc' = value.doc
      /\ \/ history' = Append(Trimmed(history), doc) /\ future' = <<>>
         \/ history' = <<>> /\ future' = <<>>
  BY DEF Activate
<1>3. value.doc \in Documents
  BY CopyFields
<1>4. <<>> \in Seq(Documents) /\ Append(Trimmed(history), doc) \in Seq(Documents)
  BY <1>1
<1>5. history' \in Seq(Documents) /\ future' \in Seq(Documents)
  BY <1>2, <1>4, Zenon
<1> QED BY <1>2, <1>3, <1>5

LEMMA StackEnds ==
  ASSUME NEW S, NEW s \in Seq(S), s # <<>>
  PROVE  Front(s) \in Seq(S) /\ s[Len(s)] \in S
<1>1. Len(s) \in Nat \ {0}
  BY EmptySeq
<1> DEFINE n == Len(s) - 1
<1>2. n \in Nat /\ n = Len(s) - 1 /\ Front(s) = SubSeq(s, 1, n)
  BY <1>1 DEF Front
<1> HIDE DEF n
<1>3. \A i \in 1..n : i \in 1..Len(s)
  BY <1>1, <1>2
<1>4. SubSeq(s, 1, n) \in Seq(S)
  BY <1>2, <1>3, SubSeqProperties
<1>5. Len(s) \in 1..Len(s)
  BY <1>1
<1>6. s[Len(s)] \in S
  BY <1>5
<1> QED BY <1>2, <1>4, <1>6

(* What opening another document is given, and by whom. *)
Opening == \E value \in Copies(Reached), keep \in BOOLEAN : Activate(value, keep)

LEMMA PerformOpens ==
  ASSUME NEW action, Perform(action), action.value \in Copies(Reached)
  PROVE  Opening \/ UNCHANGED <<session, ghosts>>
BY DEF Perform, Opening

LEMMA Chosen ==
  ASSUME TypesInv, Choose
  PROVE  /\ ask' # Nothing => ask' = ask \/ ask'.value \in Copies(Reached)
         /\ Opening \/ UNCHANGED <<session, ghosts>>
<1>1. PICK action \in Menu :
        \/ ask' = action /\ UNCHANGED <<session, call, ghosts>>
        \/ Perform(action) /\ UNCHANGED ask
  BY DEF Choose
<1>2. Reached \in Nat
  BY BoundsAssumption DEF TypesInv, Reached
<1>3. action.value \in Copies(Reached)
  BY <1>2, BlankIsDocument, NewIsCopy DEF Menu
<1> QED BY <1>1, <1>3, PerformOpens

LEMMA Answering ==
  ASSUME TypesInv, Answer
  PROVE  Opening \/ UNCHANGED <<session, ghosts>>
<1>1. ask.value \in Copies(Reached)
  BY DEF Answer, TypesInv, HeldTypes
<1> QED BY <1>1, PerformOpens DEF Answer

LEMMA OpeningSteps ==
  ASSUME TypesInv, EditorInv, Restore \/ Choose \/ Answer \/ Opened \/ Removed
  PROVE  \/ Opening
         \/ UNCHANGED <<session, ghosts>>
         \/ /\ Opened /\ call.reply = "ok" /\ call.got \in Copies(Reached)
            /\ saved' = [id |-> call.got.id, version |-> call.got.version]
            /\ touched' = FALSE /\ adrift' = TRUE
            /\ UNCHANGED <<doc, history, future, savedId, dirty, recovery, origin>>
         \/ Removed /\ Mount(Nothing)
<1>1. Reached \in Nat
  BY BoundsAssumption DEF TypesInv, Reached
<1>2. CASE Restore
  <2>1. recovery \in Copies(Reached) /\ Activate(recovery, FALSE)
    BY <1>2 DEF Restore, TypesInv, HeldTypes
  <2> QED BY <2>1 DEF Opening
<1>3. CASE Choose \/ Answer
  BY <1>3, Chosen, Answering
<1>4. CASE Removed
  <2>1. NewDocument(Blank) \in Copies(Reached)
    BY <1>1, BlankIsDocument, NewIsCopy
  <2> QED BY <1>4, <2>1 DEF Removed, Opening, ghosts
<1>5. CASE Opened
  <2>1. call.reply = "ok" => call.got \in Copies(Reached)
    BY <1>5 DEF Opened, Answered, TypesInv, CallTypes
  <2> QED BY <1>5, <2>1 DEF Opened, Opening
<1> QED BY <1>2, <1>3, <1>4, <1>5

LEMMA DocStep ==
  ASSUME TypesInv, EditorInv, [Next]_vars
  PROVE  DocTypes'
<1>0. /\ doc \in Documents /\ history \in Seq(Documents) /\ future \in Seq(Documents)
      /\ upload \in {Nothing} \cup Uploads /\ edits \in 0..MaxEdits
      /\ Reached \in Nat /\ MaxEdits \in Nat /\ origin \in Drafts \cup {Nothing}
  BY BoundsAssumption DEF TypesInv, DocTypes, FlagTypes, Reached
<1>1. ASSUME UNCHANGED <<doc, history, future>>, upload' = upload \/ upload' \in {Nothing} \cup Uploads,
             edits' = edits \/ (edits < MaxEdits /\ edits' = edits + 1)
      PROVE  DocTypes'
  <2>1. edits' \in 0..MaxEdits
    BY <1>0, <1>1
  <2> QED BY <1>0, <1>1, <2>1 DEF DocTypes
<1>2. ASSUME NEW next \in Documents, Change(next), upload' \in {Nothing, upload}, edits' \in 0..MaxEdits
      PROVE  DocTypes'
  BY <1>0, <1>2, ChangeTypes DEF DocTypes
<1>3. ASSUME Opening, UNCHANGED <<upload, edits>>
      PROVE  DocTypes'
  BY <1>0, <1>3, ActivateTypes DEF Opening, DocTypes
<1>m. ASSUME NEW d, Mount(d), edits' = edits
      PROVE  DocTypes'
  BY <1>0, <1>m, BlankIsDocument DEF Mount, DocTypes
<1>4. CASE EditStory \/ EditArt
  <2>1. edits' \in 0..MaxEdits /\ upload' = upload
    BY <1>0, <1>4 DEF EditStory, EditArt
  <2>2. [doc EXCEPT !.story = edits'] \in Documents /\ [doc EXCEPT !.art = edits'] \in Documents
    BY <1>0, <2>1, DocumentsStay
  <2> QED BY <1>2, <1>4, <2>1, <2>2 DEF EditStory, EditArt
<1>5. CASE Undo \/ Redo
  <2>1. \A d \in Documents : [d EXCEPT !.pending = doc.pending] \in Documents
    <3>1. doc.pending \in Jobs \cup {Nothing}
      BY <1>0 DEF Documents
    <3> QED BY <3>1, DocumentsStay
  <2>2. UNCHANGED <<upload, edits>>
    BY <1>5 DEF Undo, Redo
  <2>3. CASE Undo
    <3>1. /\ history # <<>> /\ history' = Front(history) /\ future' = Append(future, doc)
          /\ doc' = [history[Len(history)] EXCEPT !.pending = doc.pending]
      BY <2>3 DEF Undo
    <3>2. Front(history) \in Seq(Documents) /\ history[Len(history)] \in Documents
      BY <1>0, <3>1, StackEnds
    <3> QED BY <1>0, <2>1, <2>2, <3>1, <3>2 DEF DocTypes
  <2>4. CASE Redo
    <3>1. /\ future # <<>> /\ future' = Front(future) /\ history' = Append(history, doc)
          /\ doc' = [future[Len(future)] EXCEPT !.pending = doc.pending]
      BY <2>4 DEF Redo
    <3>2. Front(future) \in Seq(Documents) /\ future[Len(future)] \in Documents
      BY <1>0, <3>1, StackEnds
    <3> QED BY <1>0, <2>1, <2>2, <3>1, <3>2 DEF DocTypes
  <2> QED BY <1>5, <2>3, <2>4
<1>6. CASE FinishUpload
  <2>1. [upload.doc EXCEPT !.story = edits] \in Documents
    <3>1. upload.doc \in Documents
      BY <1>0, <1>6 DEF FinishUpload, Uploads
    <3> QED BY <1>0, <3>1, DocumentsStay
  <2> QED BY <1>0, <1>2, <1>6, <2>1 DEF FinishUpload
<1>u. CASE StartUpload
  <2>1. [doc |-> doc, home |-> origin] \in Uploads
    BY <1>0 DEF Uploads
  <2> QED BY <1>1, <1>u, <2>1 DEF StartUpload, session
<1>7. CASE DismissRecovery \/ CancelQuote \/ Save \/ SaveCopy \/ ConfirmQuote \/ Autosave
           \/ (\E op \in Ops : ReadFile(op)) \/ (\E panel \in BOOLEAN : Review(panel))
  BY <1>1, <1>7 DEF DismissRecovery, CancelQuote, Save, SaveCopy, BeginCopy, ConfirmQuote, Autosave,
       ReadFile, Review, session, quiet
<1>8. CASE Leave
  BY <1>8, <1>m DEF Leave
<1>9. CASE Restore \/ Choose \/ Answer \/ Opened \/ Removed
  <2>1. UNCHANGED edits /\ (UNCHANGED upload \/ Mount(Nothing))
    BY <1>9 DEF Restore, Choose, Answer, Opened, Removed
  <2>2. Opening \/ UNCHANGED <<doc, history, future>> \/ Mount(Nothing)
    BY <1>9, OpeningSteps DEF session
  <2> QED BY <1>1, <1>3, <1>m, <2>1, <2>2
<1>10. CASE ResolveConflict
  <2>1. Opening \/ UNCHANGED <<doc, history, future>>
    BY <1>10 DEF ResolveConflict, BeginCopy, session, Opening, TypesInv, HeldTypes
  <2> QED BY <1>1, <1>3, <1>10, <2>1 DEF ResolveConflict
<1>11. CASE Handle \/ Environment
  BY <1>1, <1>11 DEF Handle, HandleSaveComic, HandleGetComic, HandleDeleteComic, HandleEstimate, HandleCreateJob,
       Environment, Disconnect, Elsewhere, JobEnds, JobDeleted, unasked, session
<1>12. CASE SaveFailed \/ ConflictFetched \/ Estimated
  BY <1>1, <1>12 DEF SaveFailed, ConflictFetched, Estimated, session, quiet
<1>17. CASE SaveAnswered
  <2>1. UNCHANGED <<doc, history, future, edits>>
    BY <1>17 DEF SaveAnswered
  <2>2. call.got.id \in Drafts \cup {Nothing}
    BY <1>0, <1>17, CopyFields DEF SaveAnswered, Answered, TypesInv, CallTypes
  <2>3. \/ upload = Nothing /\ upload' = Nothing
        \/ upload # Nothing /\ upload' = [upload EXCEPT !.home = Home(upload.home)]
    BY <1>17 DEF SaveAnswered, MarkSaved
  <2>4. CASE upload # Nothing /\ upload' = [upload EXCEPT !.home = Home(upload.home)]
    <3> DEFINE home == Home(upload.home)
    <3>1. upload \in Uploads /\ upload' = [upload EXCEPT !.home = home]
      BY <1>0, <2>4
    <3>2. home \in Drafts \cup {Nothing}
      BY <2>2, <3>1 DEF Home, Uploads
    <3> HIDE DEF home
    <3>3. upload' \in Uploads
      BY <3>1, <3>2 DEF Uploads
    <3> QED BY <1>1, <2>1, <3>3
  <2> QED BY <1>1, <2>1, <2>3, <2>4
<1>13. CASE JobCreated
  <2>1. UNCHANGED <<upload, edits, history, future>>
    BY <1>13 DEF JobCreated, session
  <2>2. attempt.id \in Jobs
    BY <1>13 DEF JobCreated, Answered, TypesInv, CallTypes, Attempt
  <2>3. [doc EXCEPT !.pending = attempt.id] \in Documents
    BY <1>0, <2>2, DocumentsStay
  <2>4. doc' \in Documents
    BY <1>0, <1>13, <2>3 DEF JobCreated, session
  <2> QED BY <1>0, <2>1, <2>4 DEF DocTypes
<1>14. CASE FileRead
  <2>1. UNCHANGED <<upload, edits>>
    BY <1>14 DEF FileRead
  <2>2. ImportPage(doc) \in Documents
    BY <1>0, DocumentsStay DEF ImportPage, Pages
  <2>3. call.op = "source" => [call.held EXCEPT !.story = edits] \in Documents
    BY <1>0, <1>14, DocumentsStay DEF FileRead, TypesInv, CallTypes
  <2>4. NewDocument([Blank EXCEPT !.story = edits]) \in Copies(Reached)
    BY <1>0, BlankIsDocument, NewIsCopy
  <2>5. \/ \E next \in Documents : Change(next)
        \/ Opening
        \/ UNCHANGED <<doc, history, future>>
    BY <1>14, <2>2, <2>3, <2>4 DEF FileRead, Opening, session
  <2> QED BY <1>0, <1>1, <1>2, <1>3, <2>1, <2>5
<1>15. CASE PollEnded
  <2>1. UNCHANGED <<upload, edits>> /\ doc.pending \in Jobs
    BY <1>0, <1>15 DEF PollEnded, Pending, Documents
  <2>2. ApplyGeneratedImage(doc, doc.pending) \in Documents
    <3> DEFINE page == IF job[doc.pending].payload.panel THEN doc.page ELSE doc.pending
    <3>1. page \in Pages
      BY <1>0, <2>1 DEF Pages, Documents
    <3>2. ApplyGeneratedImage(doc, doc.pending) = [doc EXCEPT !.page = page, !.pending = Nothing]
      BY <1>0 DEF ApplyGeneratedImage, Documents
    <3> HIDE DEF page
    <3>3. \A p \in Pages, j \in Jobs \cup {Nothing} : [doc EXCEPT !.page = p, !.pending = j] \in Documents
      BY <1>0, DocumentsStay
    <3>4. [doc EXCEPT !.page = page, !.pending = Nothing] \in Documents
      BY <3>1, <3>3
    <3> QED BY <3>2, <3>4
  <2>3. [doc EXCEPT !.pending = Nothing] \in Documents
    BY <1>0, DocumentsStay
  <2>4. CASE Change(ApplyGeneratedImage(doc, doc.pending))
    BY <1>0, <1>2, <2>1, <2>2, <2>4
  <2>5. CASE Adjust([doc EXCEPT !.pending = Nothing])
    BY <1>0, <2>1, <2>3, <2>5 DEF Adjust, DocTypes
  <2> QED BY <1>15, <2>4, <2>5 DEF PollEnded
<1>16. CASE UNCHANGED vars
  BY <1>1, <1>16 DEF vars, session
<1> QED BY <1>4, <1>5, <1>6, <1>u, <1>7, <1>8, <1>9, <1>10, <1>11, <1>12, <1>13, <1>14, <1>15, <1>16, <1>17
        DEF Next, User, Receive

LEMMA OpeningFlags ==
  ASSUME TypesInv, Opening
  PROVE  /\ touched' \in BOOLEAN /\ dirty' \in BOOLEAN
         /\ savedId' \in Drafts \cup {Nothing} /\ origin' \in Drafts \cup {Nothing}
         /\ saved' \in Identities(Reached) /\ recovery' = Nothing
<1>1. PICK value \in Copies(Reached), keep \in BOOLEAN : Activate(value, keep)
  BY DEF Opening
<1>2. Reached \in Nat
  BY BoundsAssumption DEF TypesInv, Reached
<1>3. value.id \in Drafts \cup {Nothing} /\ Identity(value) \in Identities(Reached)
  BY <1>2, CopyFields
<1>4. /\ touched' = TRUE /\ dirty' = (value.id = Nothing) /\ savedId' = value.id /\ origin' = value.id
      /\ saved' = Identity(value) /\ recovery' = Nothing
  BY <1>1 DEF Activate
<1> QED BY <1>3, <1>4

LEMMA AdriftStep ==
  ASSUME adrift \in BOOLEAN, address \in Drafts \cup {Nothing}, [Next]_vars
  PROVE  adrift' \in BOOLEAN /\ address' \in Drafts \cup {Nothing}
<1>1. CASE EditStory \/ EditArt \/ Undo \/ Redo \/ StartUpload \/ FinishUpload \/ Autosave \/ DismissRecovery
           \/ CancelQuote \/ Save \/ SaveCopy \/ ConfirmQuote \/ Leave \/ Restore
  BY <1>1 DEF EditStory, EditArt, Undo, Redo, StartUpload, FinishUpload, Autosave, DismissRecovery, CancelQuote,
       Save, SaveCopy, ConfirmQuote, Leave, Mount, Restore, ghosts, quiet
<1>2. CASE Choose \/ Answer \/ ResolveConflict
  BY <1>2 DEF Choose, Answer, ResolveConflict, Perform, ghosts
<1>3. CASE (\E op \in Ops : ReadFile(op)) \/ (\E panel \in BOOLEAN : Review(panel)) \/ FileRead \/ PollEnded
  BY <1>3 DEF ReadFile, Review, FileRead, PollEnded, ghosts
<1>4. CASE Handle \/ Environment
  BY <1>4 DEF Handle, HandleSaveComic, HandleGetComic, HandleDeleteComic, HandleEstimate, HandleCreateJob,
       Environment, Disconnect, Elsewhere, JobEnds, JobDeleted, unasked, ghosts
<1>5. CASE SaveAnswered \/ SaveFailed \/ ConflictFetched \/ Opened \/ Removed \/ Estimated \/ JobCreated
  BY <1>5 DEF SaveAnswered, MarkSaved, SaveFailed, ConflictFetched, Opened, Removed, Mount, Estimated, JobCreated,
       ghosts, quiet
<1>6. CASE UNCHANGED vars
  BY <1>6 DEF vars, ghosts
<1> QED BY <1>1, <1>2, <1>3, <1>4, <1>5, <1>6 DEF Next, User, Receive

LEMMA FlagStep ==
  ASSUME TypesInv, EditorInv, [Next]_vars
  PROVE  FlagTypes'
<1>0. /\ touched \in BOOLEAN /\ dirty \in BOOLEAN
      /\ savedId \in Drafts \cup {Nothing} /\ origin \in Drafts \cup {Nothing}
      /\ adrift' \in BOOLEAN /\ address' \in Drafts \cup {Nothing}
  BY AdriftStep DEF TypesInv, FlagTypes
<1>1. ASSUME touched' = touched \/ touched' \in BOOLEAN, dirty' = dirty \/ dirty' \in BOOLEAN,
             UNCHANGED <<savedId, origin>>
      PROVE  FlagTypes'
  BY <1>0, <1>1 DEF FlagTypes
<1>2. ASSUME Opening
      PROVE  FlagTypes'
  BY <1>0, <1>2, OpeningFlags DEF FlagTypes
<1>3. ASSUME NEW next, Change(next) \/ Adjust(next), savedId' = savedId,
             origin' = origin \/ origin' \in Drafts \cup {Nothing}
      PROVE  FlagTypes'
  BY <1>0, <1>3 DEF Change, Adjust, FlagTypes
<1>4. CASE EditStory \/ EditArt \/ Undo \/ Redo \/ PollEnded
  BY <1>1, <1>3, <1>4 DEF EditStory, EditArt, Undo, Redo, PollEnded, ghosts
<1>14. CASE FinishUpload
  <2>1. upload.home \in Drafts \cup {Nothing}
    BY <1>14 DEF FinishUpload, TypesInv, DocTypes, Uploads
  <2> QED BY <1>3, <1>14, <2>1 DEF FinishUpload
<1>m. ASSUME NEW d, Mount(d)
      PROVE  FlagTypes'
  BY <1>0, <1>m DEF Mount, FlagTypes
<1>5. CASE StartUpload \/ DismissRecovery \/ CancelQuote \/ Save \/ SaveCopy \/ ConfirmQuote \/ Autosave
           \/ (\E op \in Ops : ReadFile(op)) \/ (\E panel \in BOOLEAN : Review(panel))
  BY <1>1, <1>5 DEF StartUpload, DismissRecovery, CancelQuote, Save, SaveCopy, BeginCopy, ConfirmQuote, Autosave,
       ReadFile, Review, session, quiet, ghosts
<1>6. CASE Leave
  BY <1>6, <1>m DEF Leave
<1>7. CASE Restore \/ Choose \/ Answer \/ Opened \/ Removed
  <2>1. CASE Opening
    BY <1>2, <2>1
  <2>2. CASE UNCHANGED <<session, ghosts>>
    BY <1>1, <2>2 DEF session, ghosts
  <2>3. CASE touched' = FALSE /\ UNCHANGED <<savedId, dirty, origin>>
    BY <1>1, <2>3
  <2> QED BY <1>7, <1>m, <2>1, <2>2, <2>3, OpeningSteps
<1>8. CASE ResolveConflict
  <2>1. \/ Opening
        \/ touched' \in {touched, FALSE} /\ UNCHANGED <<dirty, savedId, origin>>
    BY <1>8 DEF ResolveConflict, BeginCopy, session, ghosts, Opening, TypesInv, HeldTypes
  <2> QED BY <1>1, <1>2, <2>1
<1>9. CASE Handle \/ Environment
  BY <1>1, <1>9 DEF Handle, HandleSaveComic, HandleGetComic, HandleDeleteComic, HandleEstimate, HandleCreateJob,
       Environment, Disconnect, Elsewhere, JobEnds, JobDeleted, unasked, session, ghosts
<1>10. CASE SaveFailed \/ ConflictFetched \/ Estimated \/ JobCreated
  BY <1>1, <1>10 DEF SaveFailed, ConflictFetched, Estimated, JobCreated, session, quiet, ghosts
<1>11. CASE SaveAnswered
  <2>1. call.got \in Copies(Reached) /\ Reached \in Nat
    BY <1>11, BoundsAssumption DEF SaveAnswered, Answered, TypesInv, CallTypes, Reached
  <2>2. call.got.id \in Drafts \cup {Nothing}
    BY <2>1, CopyFields
  <2>3. /\ savedId' = call.got.id /\ dirty' = touched /\ touched' = touched
        /\ origin' \in {call.got.id, origin}
    BY <1>11 DEF SaveAnswered, MarkSaved, Edited, Home
  <2> QED BY <1>0, <2>2, <2>3 DEF FlagTypes
<1>12. CASE FileRead
  <2>1. NewDocument([Blank EXCEPT !.story = edits]) \in Copies(Reached)
    <3>1. edits \in 0..MaxEdits /\ Reached \in Nat
      BY BoundsAssumption DEF TypesInv, DocTypes, Reached
    <3> QED BY <3>1, BlankIsDocument, NewIsCopy
  <2>4. call.home \in Drafts \cup {Nothing}
    BY <1>12 DEF FileRead, TypesInv, CallTypes, Actions
  <2>2. \/ (\E next : Change(next)) /\ savedId' = savedId /\ origin' \in {origin, call.home}
        \/ Opening
        \/ UNCHANGED <<session, ghosts>>
    BY <1>12, <2>1 DEF FileRead, Opening, ghosts
  <2>3. CASE UNCHANGED <<session, ghosts>>
    BY <1>1, <2>3 DEF session, ghosts
  <2> QED BY <1>2, <1>3, <2>2, <2>3, <2>4
<1>13. CASE UNCHANGED vars
  BY <1>1, <1>13 DEF vars, session, ghosts
<1> QED BY <1>14, <1>4, <1>5, <1>6, <1>7, <1>8, <1>9, <1>10, <1>11, <1>12, <1>13 DEF Next, User, Receive

-----------------------------------------------------------------------------
(* Requests, keys and jobs.  A step that is not about them leaves them.     *)
KeysRest == UNCHANGED <<lost, attempt, submission, job>>

LEMMA KeysMove ==
  ASSUME [Next]_vars
  PROVE  \/ KeysRest /\ (quote' \in {quote, Nothing} \/ (Estimated /\ call.reply = "ok" /\ quote' = call.payload))
         \/ Leave \/ Removed \/ HandleCreateJob \/ SaveAnswered \/ JobCreated
         \/ \E j \in Jobs : JobEnds(j) \/ JobDeleted(j)
<1>1. CASE EditStory \/ EditArt \/ Undo \/ Redo \/ StartUpload \/ FinishUpload \/ Autosave \/ DismissRecovery
           \/ CancelQuote \/ Save \/ SaveCopy \/ ConfirmQuote \/ Restore
  BY <1>1 DEF EditStory, EditArt, Undo, Redo, StartUpload, FinishUpload, Autosave, DismissRecovery, CancelQuote,
       Save, SaveCopy, ConfirmQuote, Restore, ghosts, quiet, local, server, dialogs, KeysRest
<1>2. CASE Choose \/ Answer \/ ResolveConflict
  BY <1>2 DEF Choose, Answer, ResolveConflict, Perform, ghosts, local, server, KeysRest
<1>3. CASE (\E op \in Ops : ReadFile(op)) \/ (\E panel \in BOOLEAN : Review(panel)) \/ PollEnded
  BY <1>3 DEF ReadFile, Review, PollEnded, ghosts, local, server, dialogs, KeysRest
<1>4. CASE FileRead
  BY <1>4 DEF FileRead, ghosts, local, server, KeysRest
<1>5. CASE HandleSaveComic \/ HandleGetComic \/ HandleDeleteComic \/ HandleEstimate \/ Disconnect
           \/ (\E d \in Drafts : Elsewhere(d))
  BY <1>5 DEF HandleSaveComic, HandleGetComic, HandleDeleteComic, HandleEstimate, Disconnect, Elsewhere, unasked,
       ghosts, local, server, dialogs, KeysRest
<1>6. CASE SaveFailed \/ ConflictFetched \/ Opened \/ Estimated
  BY <1>6 DEF SaveFailed, ConflictFetched, Opened, Estimated, ghosts, quiet, local, server, dialogs, KeysRest
<1>7. CASE UNCHANGED vars
  BY <1>7 DEF vars, ghosts, local, server, dialogs, KeysRest
<1> QED BY <1>1, <1>2, <1>3, <1>4, <1>5, <1>6, <1>7 DEF Next, User, Receive, Handle, Environment

LEMMA TroubleStep ==
  ASSUME trouble \in 0..MaxTrouble, [Next]_vars
  PROVE  trouble' \in 0..MaxTrouble
<1>0. ASSUME trouble' = trouble \/ (trouble < MaxTrouble /\ trouble' = trouble + 1)
      PROVE  trouble' \in 0..MaxTrouble
  BY <1>0, BoundsAssumption
<1>1. CASE User \/ Autosave \/ FinishUpload \/ PollEnded
  BY <1>0, <1>1 DEF User, EditStory, EditArt, Undo, Redo, StartUpload, FinishUpload, Autosave, DismissRecovery,
       CancelQuote, Save, SaveCopy, ConfirmQuote, Restore, Leave, Choose, Answer, ResolveConflict, ReadFile, Review,
       PollEnded, quiet
<1>2. CASE Handle \/ Environment
  BY <1>0, <1>2 DEF Handle, HandleSaveComic, HandleGetComic, HandleDeleteComic, HandleEstimate, HandleCreateJob,
       Environment, Disconnect, Elsewhere, JobEnds, JobDeleted, unasked
<1>3. CASE Receive
  BY <1>0, <1>3 DEF Receive, SaveAnswered, SaveFailed, ConflictFetched, Opened, Removed, Estimated, JobCreated,
       FileRead, quiet
<1>4. CASE UNCHANGED vars
  BY <1>0, <1>4 DEF vars
<1> QED BY <1>1, <1>2, <1>3, <1>4 DEF Next

LEMMA JobFields ==
  ASSUME NEW jobs \in JobTables,
         NEW j \in Jobs
  PROVE  /\ \A s \in {"succeeded", "failed", "deleted"} :
              [jobs EXCEPT ![j].status = s] \in JobTables
         /\ \A s \in {"succeeded", "failed", "deleted"}, k \in Jobs :
              [jobs EXCEPT ![j].status = s][k].status = IF k = j THEN s ELSE jobs[k].status
BY DEF JobTables

LEMMA JobStep ==
  ASSUME TypesInv, [Next]_vars
  PROVE  JobTypes'
<1>0. /\ quote \in {Nothing} \cup Request /\ lost \in {Nothing} \cup Request
      /\ attempt \in {Nothing} \cup Attempt /\ submission \in {Nothing} \cup Attempt
      /\ job \in JobTables /\ trouble' \in 0..MaxTrouble
      /\ Busy => call.payload \in {Nothing} \cup Request
  BY TroubleStep DEF TypesInv, JobTypes, CallTypes, Actions
<1>1. CASE KeysRest /\ (quote' \in {quote, Nothing} \/ (Estimated /\ call.reply = "ok" /\ quote' = call.payload))
  <2>1. quote' \in {Nothing} \cup Request
    BY <1>0, <1>1 DEF Estimated, Answered
  <2> QED BY <1>0, <1>1, <2>1 DEF KeysRest, JobTypes
<1>2. CASE Leave \/ Removed
  <2>1. /\ UNCHANGED <<job, submission, lost>>
        /\ quote' \in {quote, Nothing} /\ attempt' \in {attempt, Nothing}
    BY <1>2 DEF Leave, Removed, Mount, server, local, dialogs
  <2> QED BY <1>0, <2>1 DEF JobTypes
<1>3. CASE HandleCreateJob
  <2>1. /\ attempt.id \in Jobs /\ attempt.payload \in Request
        /\ UNCHANGED <<quote, attempt, submission>>
        /\ \/ UNCHANGED <<job, lost>>
           \/ /\ lost' = attempt.payload
              /\ job' = [job EXCEPT ![attempt.id] = [status |-> "running", payload |-> attempt.payload]]
    BY <1>3 DEF HandleCreateJob, TypesInv, CallTypes, Attempt, dialogs, local
  <2>2. job' \in JobTables
    BY <1>0, <2>1 DEF JobTables
  <2> QED BY <1>0, <2>1, <2>2 DEF JobTypes
<1>4. CASE SaveAnswered
  <2>1. call.payload # Nothing => Key(call.payload) \subseteq Jobs
    BY <1>0 DEF Key, Remembered, Attempt
  <2>2. /\ UNCHANGED job /\ quote' \in {quote, Nothing} /\ lost' \in {lost, Nothing}
        /\ \/ UNCHANGED <<attempt, submission>>
           \/ /\ call.payload # Nothing
              /\ \E j \in Key(call.payload) : attempt' = [payload |-> call.payload, id |-> j] /\ submission' = attempt'
    BY <1>4 DEF SaveAnswered, server
  <2>3. attempt' \in {Nothing} \cup Attempt /\ submission' \in {Nothing} \cup Attempt
    BY <1>0, <1>4, <2>1, <2>2 DEF Attempt, SaveAnswered, Answered
  <2> QED BY <1>0, <2>2, <2>3 DEF JobTypes
<1>5. CASE JobCreated
  BY <1>0, <1>5 DEF JobCreated, JobTypes, server
<1>6. CASE \E j \in Jobs : JobEnds(j) \/ JobDeleted(j)
  <2>1. PICK j \in Jobs, s \in {"succeeded", "failed", "deleted"} : job' = [job EXCEPT ![j].status = s]
    BY <1>6 DEF JobEnds, JobDeleted
  <2>2. job' \in JobTables
    BY <1>0, <2>1, JobFields
  <2>3. UNCHANGED <<quote, attempt, submission, lost>>
    BY <1>6 DEF JobEnds, JobDeleted, unasked, dialogs, local, ghosts
  <2> QED BY <1>0, <2>2, <2>3 DEF JobTypes
<1> QED BY <1>1, <1>2, <1>3, <1>4, <1>5, <1>6, KeysMove

LEMMA KeyStep ==
  ASSUME TypesInv, KeyInv, [Next]_vars
  PROVE  KeyInv'
<1>0. /\ attempt \in {Nothing} \cup Attempt /\ submission \in {Nothing} \cup Attempt /\ job \in JobTables
      /\ attempt # Nothing => submission = attempt
      /\ lost # Nothing => submission # Nothing /\ submission.payload = lost /\ job[submission.id].status # "none"
  BY DEF TypesInv, JobTypes, KeyInv
<1>1. CASE KeysRest
  BY <1>0, <1>1 DEF KeysRest, KeyInv
<1>2. CASE Leave \/ Removed
  <2>1. UNCHANGED <<job, submission, lost>> /\ attempt' \in {attempt, Nothing}
    BY <1>2 DEF Leave, Removed, Mount, server, local
  <2> QED BY <1>0, <2>1 DEF KeyInv
<1>3. CASE HandleCreateJob
  <2>1. /\ attempt \in Attempt /\ UNCHANGED <<attempt, submission>>
        /\ \/ UNCHANGED <<job, lost>>
           \/ /\ lost' = attempt.payload
              /\ job' = [job EXCEPT ![attempt.id] = [status |-> "running", payload |-> attempt.payload]]
    BY <1>3 DEF HandleCreateJob, TypesInv, CallTypes, local
  <2>2. attempt # Nothing /\ submission = attempt /\ attempt.id \in Jobs
    BY <1>0, <2>1, RequestAssumption DEF Attempt
  <2>3. CASE UNCHANGED <<job, lost>>
    BY <1>0, <2>1, <2>3 DEF KeyInv
  <2>4. CASE /\ lost' = attempt.payload
             /\ job' = [job EXCEPT ![attempt.id] = [status |-> "running", payload |-> attempt.payload]]
    <3>1. job'[attempt.id].status = "running"
      BY <1>0, <2>2, <2>4 DEF JobTables
    <3> QED BY <2>1, <2>2, <2>4, <3>1 DEF KeyInv
  <2> QED BY <2>1, <2>3, <2>4
<1>4. CASE SaveAnswered
  <2>1. /\ UNCHANGED job
        /\ \/ UNCHANGED <<attempt, submission, lost>>
           \/ /\ lost' = IF lost = call.payload THEN lost ELSE Nothing
              /\ \E j \in Key(call.payload) : attempt' = [payload |-> call.payload, id |-> j] /\ submission' = attempt'
              /\ call.payload # Nothing
    BY <1>4 DEF SaveAnswered, server
  <2>2. CASE UNCHANGED <<attempt, submission, lost>>
    BY <1>0, <2>1, <2>2 DEF KeyInv
  <2>3. CASE /\ lost' = IF lost = call.payload THEN lost ELSE Nothing
             /\ \E j \in Key(call.payload) : attempt' = [payload |-> call.payload, id |-> j] /\ submission' = attempt'
             /\ call.payload # Nothing
    <3>1. PICK j \in Key(call.payload) : attempt' = [payload |-> call.payload, id |-> j] /\ submission' = attempt'
      BY <2>3
    <3>2. j \in Jobs /\ call.payload \in Request
      <4>1. call.payload \in {Nothing} \cup Request
        BY <1>4 DEF SaveAnswered, Answered, TypesInv, CallTypes, Actions
      <4> QED BY <1>0, <2>3, <4>1 DEF Key, Remembered, Attempt
    <3>3. submission' \in Attempt /\ submission'.id = j /\ submission'.payload = call.payload
      BY <3>1, <3>2 DEF Attempt
    <3>4. lost' # Nothing => lost' = lost /\ lost = call.payload
      BY <2>3
    <3>5. lost # Nothing /\ lost = call.payload => j = submission.id /\ job[j].status # "none"
      BY <1>0 DEF Key, Remembered
    <3> QED BY <2>1, <3>1, <3>3, <3>4, <3>5, RequestAssumption DEF KeyInv
  <2> QED BY <2>1, <2>2, <2>3
<1>5. CASE JobCreated
  BY <1>0, <1>5 DEF JobCreated, KeyInv, server
<1>6. CASE \E j \in Jobs : JobEnds(j) \/ JobDeleted(j)
  <2>1. PICK j \in Jobs, s \in {"succeeded", "failed", "deleted"} : job' = [job EXCEPT ![j].status = s]
    BY <1>6 DEF JobEnds, JobDeleted
  <2>2. \A k \in Jobs : job'[k].status = IF k = j THEN s ELSE job[k].status
    BY <1>0, <2>1, JobFields
  <2>3. UNCHANGED <<attempt, submission, lost>>
    BY <1>6 DEF JobEnds, JobDeleted, unasked, local, ghosts
  <2>4. submission # Nothing => submission.id \in Jobs
    BY <1>0 DEF Attempt
  <2> QED BY <1>0, <2>1, <2>2, <2>3, <2>4 DEF KeyInv
<1> QED BY <1>1, <1>2, <1>3, <1>4, <1>5, <1>6, KeysMove

(* A step that makes a job makes the one of the attempt under way. *)
LEMMA JobsMade ==
  ASSUME TypesInv, [Next]_vars, NEW j \in Jobs, job[j].status = "none", job'[j].status # "none"
  PROVE  HandleCreateJob /\ j = attempt.id /\ job'[j].payload = attempt.payload /\ attempt \in Attempt
<1>0. job \in JobTables
  BY DEF TypesInv, JobTypes
<1>1. CASE KeysRest \/ Leave \/ Removed \/ SaveAnswered \/ JobCreated
  BY <1>1 DEF KeysRest, Leave, Removed, SaveAnswered, JobCreated, server
<1>2. CASE HandleCreateJob
  <2>1. /\ attempt \in Attempt
        /\ \/ UNCHANGED job
           \/ job' = [job EXCEPT ![attempt.id] = [status |-> "running", payload |-> attempt.payload]]
    BY <1>2 DEF HandleCreateJob, TypesInv, CallTypes
  <2> QED BY <1>0, <1>2, <2>1 DEF JobTables
<1>3. CASE \E k \in Jobs : JobEnds(k) \/ JobDeleted(k)
  <2>1. PICK k \in Jobs, s \in {"succeeded", "failed", "deleted"} :
          job[k].status # "none" /\ job' = [job EXCEPT ![k].status = s]
    BY <1>3 DEF JobEnds, JobDeleted
  <2>2. job'[j].status = IF j = k THEN s ELSE job[j].status
    BY <1>0, <2>1, JobFields
  <2> QED BY <2>1, <2>2
<1> QED BY <1>1, <1>2, <1>3, KeysMove

LEMMA NotPaidTwice ==
  ASSUME TypesInv, KeyInv, [Next]_vars
  PROVE  \A j \in Jobs : job[j].status = "none" /\ job'[j].status # "none" => job'[j].payload # lost
<1> SUFFICES ASSUME NEW j \in Jobs, job[j].status = "none", job'[j].status # "none", job'[j].payload = lost
             PROVE  FALSE
  OBVIOUS
<1>1. j = attempt.id /\ lost = attempt.payload /\ attempt \in Attempt
  BY JobsMade
<1>2. attempt # Nothing /\ submission = attempt
  BY <1>1, RequestAssumption DEF KeyInv
<1>3. lost # Nothing
  BY <1>1, RequestAssumption DEF Attempt
<1> QED BY <1>1, <1>2, <1>3 DEF KeyInv

-----------------------------------------------------------------------------
(* Drafts and versions. *)
LEMMA SavesMove ==
  ASSUME [Next]_vars
  PROVE  UNCHANGED <<stored, saves>> \/ HandleSaveComic \/ HandleDeleteComic \/ (\E d \in Drafts : Elsewhere(d))
<1>1. CASE User \/ Autosave \/ FinishUpload \/ PollEnded
  BY <1>1 DEF User, EditStory, EditArt, Undo, Redo, StartUpload, FinishUpload, Autosave, DismissRecovery,
       CancelQuote, Save, SaveCopy, ConfirmQuote, Restore, Leave, Choose, Answer, ResolveConflict, ReadFile, Review,
       PollEnded, quiet, server
<1>2. CASE HandleGetComic \/ HandleEstimate \/ HandleCreateJob \/ Disconnect \/ (\E j \in Jobs : JobEnds(j) \/ JobDeleted(j))
  BY <1>2 DEF HandleGetComic, HandleEstimate, HandleCreateJob, Disconnect, JobEnds, JobDeleted, server
<1>3. CASE Receive
  BY <1>3 DEF Receive, SaveAnswered, SaveFailed, ConflictFetched, Opened, Removed, Estimated, JobCreated,
       FileRead, quiet, server
<1>4. CASE UNCHANGED vars
  BY <1>4 DEF vars, server
<1> QED BY <1>1, <1>2, <1>3, <1>4 DEF Next, Handle, Environment

(* A save that is answered was begun when there was room for it. *)
LEMMA SavesStep ==
  ASSUME TypesInv, [Next]_vars
  PROVE  /\ saves' \in 0..(MaxSaves + 1)
         /\ \/ saves' = saves
            \/ HandleSaveComic /\ saves' = saves + 1 /\ saves <= MaxSaves
            \/ (\E d \in Drafts : Elsewhere(d)) /\ saves' = saves + 1 /\ saves < MaxSaves
<1>0. saves \in 0..(MaxSaves + 1) /\ MaxSaves \in Nat
  BY BoundsAssumption DEF TypesInv
<1>1. CASE UNCHANGED <<stored, saves>> \/ HandleDeleteComic
  BY <1>0, <1>1 DEF HandleDeleteComic
<1>2. CASE HandleSaveComic
  <2>1. saves <= MaxSaves
    BY <1>2 DEF HandleSaveComic, TypesInv, CallTypes
  <2>2. saves' \in {saves, saves + 1}
    BY <1>2 DEF HandleSaveComic
  <2> QED BY <1>0, <1>2, <2>1, <2>2
<1>3. CASE \E d \in Drafts : Elsewhere(d)
  <2>1. saves' = saves \/ (SavesLeft > 0 /\ saves' = saves + 1)
    BY <1>3 DEF Elsewhere
  <2>2. SavesLeft > 0 => saves < MaxSaves
    BY <1>0 DEF SavesLeft
  <2> QED BY <1>0, <1>3, <2>1, <2>2
<1> QED BY <1>1, <1>2, <1>3, SavesMove

LEMMA HeldKept ==
  ASSUME saves' = saves, saved' \in Identities(Reached),
         recovery' \in {Nothing} \cup Copies(Reached), backup' \in {Nothing} \cup Copies(Reached),
         conflict' \in {Nothing} \cup Copies(Reached), ask' # Nothing => ask'.value \in Copies(Reached),
         stored' \in [Drafts -> Rows(Reached)]
  PROVE  HeldTypes(Reached)'
<1>1. Reached' = Reached
  BY DEF Reached
<1> QED BY <1>1 DEF HeldTypes

LEMMA HeldSaved ==
  ASSUME TypesInv, HandleSaveComic
  PROVE  HeldTypes(Reached)'
<1> DEFINE n == Reached
           m == Reached'
           base == call.base
           value == call.sent
<1>0. /\ HeldTypes(n) /\ saves \in 0..(MaxSaves + 1) /\ MaxSaves \in Nat /\ value \in Documents
      /\ base \in Identities(n) /\ base.version < MaxSaves
      /\ UNCHANGED <<saved, recovery, backup, conflict, ask>>
  BY BoundsAssumption DEF HandleSaveComic, TypesInv, CallTypes, Actions, unasked, session, local, dialogs
<1>1. saves' \in {saves, saves + 1}
  BY DEF HandleSaveComic
<1>2. n \in Nat /\ m \in Nat /\ n <= m /\ m <= MaxSaves
  BY <1>0, <1>1, ReachedGrows
<1>3. Identities(n) \subseteq Identities(m) /\ Copies(n) \subseteq Copies(m) /\ Rows(n) \subseteq Rows(m)
  BY <1>2, Larger
<1>4. \/ UNCHANGED stored
      \/ /\ saves' = saves + 1
         /\ \E d \in Drafts : stored' = [stored EXCEPT ![d] = [version |-> 1, doc |-> value, live |-> TRUE]]
      \/ /\ saves' = saves + 1 /\ base.id # Nothing
         /\ stored' = [stored EXCEPT ![base.id].version = @ + 1, ![base.id].doc = value]
         /\ stored[base.id].version = base.version
  BY DEF HandleSaveComic
<1>5. saves' = saves + 1 => 1 \in 0..m /\ base.version + 1 \in 0..m
  <2>1. base.version \in Nat /\ base.version <= n
    BY <1>0, <1>2 DEF Identities
  <2> QED BY <1>0, <2>1 DEF Reached
<1>6. stored \in [Drafts -> Rows(m)]
  BY <1>0, <1>3 DEF HeldTypes
<1>7. stored' \in [Drafts -> Rows(m)]
  <2>1. CASE UNCHANGED stored
    BY <1>6, <2>1
  <2>2. ASSUME saves' = saves + 1, NEW d \in Drafts,
               stored' = [stored EXCEPT ![d] = [version |-> 1, doc |-> value, live |-> TRUE]]
        PROVE  stored' \in [Drafts -> Rows(m)]
    <3>1. [version |-> 1, doc |-> value, live |-> TRUE] \in Rows(m)
      BY <1>0, <1>5, <2>2 DEF Rows
    <3> HIDE DEF m, value
    <3> QED BY <1>6, <2>2, <3>1
  <2>3. ASSUME saves' = saves + 1, base.id # Nothing, stored[base.id].version = base.version,
               stored' = [stored EXCEPT ![base.id].version = @ + 1, ![base.id].doc = value]
        PROVE  stored' \in [Drafts -> Rows(m)]
    <3>1. base.id \in Drafts
      BY <1>0, <2>3 DEF Identities
    <3>2. stored[base.id] \in Rows(m)
      BY <1>6, <3>1
    <3> DEFINE version == base.version + 1
               next == [stored[base.id] EXCEPT !.version = version, !.doc = value]
    <3>3. version \in 0..m
      BY <1>5, <2>3
    <3>4. stored' = [stored EXCEPT ![base.id] = next]
      BY <1>6, <2>3, <3>1, <3>2 DEF Rows
    <3> HIDE DEF version, m
    <3>5. next \in Rows(m)
      BY <1>0, <3>2, <3>3 DEF Rows
    <3> HIDE DEF next
    <3> QED BY <1>6, <3>4, <3>5
  <2> QED BY <1>4, <2>1, <2>2, <2>3
<1> QED BY <1>0, <1>3, <1>7 DEF HeldTypes

LEMMA HeldElsewhere ==
  ASSUME TypesInv, NEW d \in Drafts, Elsewhere(d)
  PROVE  HeldTypes(Reached)'
<1> DEFINE n == Reached
           m == Reached'
           row == stored[d]
<1>0. /\ HeldTypes(n) /\ saves \in 0..(MaxSaves + 1) /\ MaxSaves \in Nat /\ row \in Rows(n)
      /\ UNCHANGED <<saved, recovery, conflict, ask>>
  BY BoundsAssumption DEF Elsewhere, TypesInv, HeldTypes, session, dialogs
<1>1. saves' \in {saves, saves + 1}
  BY DEF Elsewhere
<1>2. n \in Nat /\ m \in Nat /\ n <= m /\ m <= MaxSaves
  BY <1>0, <1>1, ReachedGrows
<1>3. Identities(n) \subseteq Identities(m) /\ Copies(n) \subseteq Copies(m) /\ Rows(n) \subseteq Rows(m)
  BY <1>2, Larger
<1>4. stored \in [Drafts -> Rows(m)] /\ row \in Rows(m) /\ backup \in {Nothing} \cup Copies(m)
  BY <1>0, <1>3 DEF HeldTypes
<1>5. stored' \in [Drafts -> Rows(m)] /\ backup' \in {Nothing} \cup Copies(m)
  <2>1. CASE /\ SavesLeft > 0 /\ saves' = saves + 1
             /\ stored' = [stored EXCEPT ![d].version = @ + 1, ![d].doc.art = Foreign]
             /\ backup' \in {backup, BackupOf(stored'[d].doc, [id |-> d, version |-> stored'[d].version])}
    <3> DEFINE version == row.version + 1
               drawn == [row.doc EXCEPT !.art = Foreign]
               next == [row EXCEPT !.version = version, !.doc = drawn]
    <3>1. version \in 0..m
      <4>1. saves < MaxSaves /\ row.version \in Nat /\ row.version <= n
        BY <1>0, <1>2, <2>1 DEF SavesLeft, Rows
      <4> QED BY <1>0, <2>1, <4>1 DEF Reached
    <3>2. drawn \in Documents
      <4>1. row.doc \in Documents
        BY <1>0 DEF Rows
      <4> QED BY <4>1, DocumentsStay
    <3>3. stored' = [stored EXCEPT ![d] = next]
      BY <1>4, <2>1 DEF Rows
    <3> HIDE DEF version, drawn, m
    <3>4. next \in Rows(m) /\ next.version = version /\ next.doc = drawn
      BY <1>4, <3>1, <3>2 DEF Rows
    <3> HIDE DEF next
    <3>5. stored' \in [Drafts -> Rows(m)] /\ stored'[d] = next
      BY <1>4, <3>3, <3>4
    <3>6. BackupOf(drawn, [id |-> d, version |-> version]) \in Copies(m)
      BY <3>1, <3>2 DEF BackupOf, Copies
    <3> QED BY <1>4, <2>1, <3>4, <3>5, <3>6
  <2>2. CASE stored' = [stored EXCEPT ![d].live = FALSE] /\ UNCHANGED backup
    <3> HIDE DEF m
    <3>1. [row EXCEPT !.live = FALSE] \in Rows(m)
      BY <1>4 DEF Rows
    <3> QED BY <1>4, <2>2, <3>1
  <2> QED BY <2>1, <2>2 DEF Elsewhere
<1> QED BY <1>0, <1>3, <1>5 DEF HeldTypes

LEMMA HeldStep ==
  ASSUME TypesInv, EditorInv, [Next]_vars
  PROVE  HeldTypes(Reached)'
<1> DEFINE n == Reached
<1>0. /\ saved \in Identities(n) /\ recovery \in {Nothing} \cup Copies(n) /\ backup \in {Nothing} \cup Copies(n)
      /\ conflict \in {Nothing} \cup Copies(n) /\ (ask # Nothing => ask.value \in Copies(n))
      /\ stored \in [Drafts -> Rows(n)] /\ n \in Nat /\ doc \in Documents /\ edits \in 0..MaxEdits
  BY BoundsAssumption DEF TypesInv, DocTypes, HeldTypes, Reached
<1>a. /\ Unsaved \in Identities(n) /\ BackupOf(doc, saved) \in Copies(n)
      /\ NewDocument([Blank EXCEPT !.story = edits]) \in Copies(n)
  <2> HIDE DEF n
  <2> QED BY <1>0, BlankIsDocument, NewIsCopy, CopyFields
<1> HIDE DEF n
<1>k. ASSUME saves' = saves, saved' \in Identities(n),
             recovery' \in {Nothing} \cup Copies(n), backup' \in {Nothing} \cup Copies(n),
             conflict' \in {Nothing} \cup Copies(n), ask' # Nothing => ask'.value \in Copies(n),
             stored' \in [Drafts -> Rows(n)]
      PROVE  HeldTypes(Reached)'
  BY <1>k, HeldKept DEF n
<1>1. CASE EditStory \/ EditArt \/ Undo \/ Redo \/ StartUpload \/ FinishUpload \/ CancelQuote \/ Save \/ ConfirmQuote
           \/ (\E op \in Ops : ReadFile(op)) \/ (\E panel \in BOOLEAN : Review(panel)) \/ PollEnded
           \/ DismissRecovery \/ Autosave \/ SaveCopy
  <2>1. /\ UNCHANGED <<saves, stored, conflict, ask>> /\ saved' \in {saved, Unsaved}
        /\ recovery' \in {recovery, Nothing} /\ backup' \in {backup, BackupOf(doc, saved)}
    BY <1>1 DEF EditStory, EditArt, Undo, Redo, StartUpload, FinishUpload, CancelQuote, Save, ConfirmQuote, ReadFile,
         Review, PollEnded, DismissRecovery, Autosave, SaveCopy, BeginCopy, session, dialogs, local, server, quiet
  <2> QED BY <1>0, <1>a, <1>k, <2>1
<1>m. ASSUME NEW d, Mount(d), UNCHANGED <<saves, stored>>, backup' \in {Nothing} \cup Copies(n)
      PROVE  HeldTypes(Reached)'
  BY <1>0, <1>a, <1>k, <1>m DEF Mount
<1>2. CASE Leave
  <2>1. backup' \in {Nothing} \cup Copies(n) /\ UNCHANGED <<saves, stored>>
    BY <1>0, <1>a, <1>2 DEF Leave, server
  <2> QED BY <1>2, <1>m, <2>1 DEF Leave
<1>3. CASE Restore \/ Choose \/ Answer \/ Opened \/ Removed
  <2>1. /\ UNCHANGED <<saves, stored, backup>> /\ (Choose \/ ask' \in {ask, Nothing})
        /\ conflict' \in {conflict, Nothing}
    BY <1>3 DEF Restore, Choose, Answer, Opened, Removed, Mount, dialogs, local, server
  <2>2. Choose => (ask' # Nothing => ask' = ask \/ ask'.value \in Copies(n))
    BY Chosen DEF n
  <2>3. CASE Opening
    BY <1>0, <1>k, <2>1, <2>2, <2>3, OpeningFlags DEF n
  <2>4. CASE UNCHANGED <<session, ghosts>>
    BY <1>0, <1>k, <2>1, <2>2, <2>4 DEF session
  <2>5. CASE /\ call.got \in Copies(n) /\ saved' = [id |-> call.got.id, version |-> call.got.version]
             /\ UNCHANGED recovery
    <3>1. saved' \in Identities(n)
      BY <1>0, <2>5, CopyFields
    <3> QED BY <1>0, <1>k, <2>1, <2>2, <2>5, <3>1
  <2>6. CASE Mount(Nothing)
    BY <1>0, <1>m, <2>1, <2>6
  <2> QED BY <1>3, <2>3, <2>4, <2>5, <2>6, OpeningSteps DEF n
<1>4. CASE ResolveConflict
  <2>1. UNCHANGED <<saves, stored, ask, backup>> /\ conflict' = Nothing
    BY <1>4 DEF ResolveConflict, local, server
  <2>2. \/ Opening
        \/ saved' \in {saved, Unsaved} /\ UNCHANGED recovery
    BY <1>0, <1>4 DEF ResolveConflict, BeginCopy, session, Opening, n
  <2> QED BY <1>0, <1>a, <1>k, <2>1, <2>2, OpeningFlags DEF n
<1>5. CASE HandleSaveComic \/ (\E d \in Drafts : Elsewhere(d))
  BY <1>5, HeldSaved, HeldElsewhere
<1>6. CASE HandleDeleteComic
  <2>1. /\ UNCHANGED <<saves, saved, recovery, backup, conflict, ask>>
        /\ stored' = [stored EXCEPT ![call.base.id].live = FALSE]
    BY <1>6 DEF HandleDeleteComic, unasked, session, dialogs, local
  <2>2. stored' \in [Drafts -> Rows(n)]
    BY <1>0, <2>1 DEF Rows
  <2> QED BY <1>0, <1>k, <2>1, <2>2
<1>7. CASE HandleGetComic \/ HandleEstimate \/ HandleCreateJob \/ Disconnect \/ (\E j \in Jobs : JobEnds(j) \/ JobDeleted(j))
           \/ Estimated \/ JobCreated \/ UNCHANGED vars
  <2>1. UNCHANGED <<saves, saved, recovery, backup, conflict, ask, stored>>
    BY <1>7 DEF HandleGetComic, HandleEstimate, HandleCreateJob, Disconnect, JobEnds, JobDeleted, Estimated, JobCreated,
         vars, unasked, session, dialogs, local, server
  <2> QED BY <1>0, <1>k, <2>1
<1>8. CASE SaveAnswered
  <2>1. call.got \in Copies(n)
    BY <1>8 DEF SaveAnswered, Answered, TypesInv, CallTypes, n
  <2>2. saved' = [id |-> call.got.id, version |-> call.got.version] /\ backup' = BackupOf(doc, saved')
        /\ UNCHANGED <<saves, recovery, conflict, ask, stored>>
    BY <1>8 DEF SaveAnswered, MarkSaved, server
  <2>3. saved' \in Identities(n)
    BY <1>0, <2>1, <2>2, CopyFields
  <2>4. backup' \in Copies(n)
    BY <1>0, <2>2, <2>3, CopyFields
  <2> QED BY <1>0, <1>k, <2>2, <2>3, <2>4
<1>9. CASE SaveFailed
  <2>1. call.prior \in Identities(n)
    BY <1>9 DEF SaveFailed, Answered, TypesInv, CallTypes, Actions, n
  <2>2. saved' \in {saved, call.prior} /\ UNCHANGED <<saves, recovery, backup, conflict, ask, stored>>
    BY <1>9 DEF SaveFailed, quiet, dialogs, local, server
  <2> QED BY <1>0, <1>k, <2>1, <2>2
<1>10. CASE ConflictFetched
  <2>1. call.reply = "ok" => call.got \in Copies(n)
    BY <1>10 DEF ConflictFetched, Answered, TypesInv, CallTypes, n
  <2>2. /\ conflict' = IF call.reply = "ok" THEN call.got ELSE conflict
        /\ UNCHANGED <<saves, saved, recovery, backup, ask, stored>>
    BY <1>10 DEF ConflictFetched, session, local, server
  <2> QED BY <1>0, <1>k, <2>1, <2>2
<1>11. CASE FileRead
  <2> DEFINE value == NewDocument([Blank EXCEPT !.story = edits])
  <2>1. /\ UNCHANGED <<saves, backup, conflict, stored>>
        /\ \/ UNCHANGED <<saved, recovery, ask>>
           \/ ask' = [kind |-> "import", value |-> value] /\ UNCHANGED <<saved, recovery>>
           \/ Activate(value, FALSE) /\ UNCHANGED ask
    BY <1>11 DEF FileRead, local, server, session
  <2>2. Activate(value, FALSE) => Opening
    BY <1>a DEF Opening, n
  <2> HIDE DEF value
  <2>3. CASE UNCHANGED <<saved, recovery, ask>>
    BY <1>0, <1>k, <2>1, <2>3
  <2>4. CASE ask' = [kind |-> "import", value |-> value] /\ UNCHANGED <<saved, recovery>>
    BY <1>0, <1>a, <1>k, <2>1, <2>4 DEF value
  <2>5. CASE Activate(value, FALSE) /\ UNCHANGED ask
    BY <1>0, <1>k, <2>1, <2>2, <2>5, OpeningFlags DEF n
  <2> QED BY <2>1, <2>3, <2>4, <2>5
<1> QED BY <1>1, <1>2, <1>3, <1>4, <1>5, <1>6, <1>7, <1>8, <1>9, <1>10, <1>11
        DEF Next, User, Receive, Handle, Environment

-----------------------------------------------------------------------------
(* The action under way. *)
LEMMA StartTypes ==
  ASSUME FlagTypes, NEW n \in Nat, NEW op \in Ops, NEW at \in Ats
  PROVE  /\ Start(op, at) \in Actions(n) /\ Start(op, at).op = op /\ Start(op, at).at = at
         /\ Start(op, at).reply = "none"
<1>1. Unsaved \in Identities(n)
  BY BlankIsDocument, NewIsCopy
<1>2. "none" \in Replies
  BY DEF Replies
<1> QED BY <1>1, <1>2 DEF Start, Actions, FlagTypes

LEMMA AskTypes ==
  ASSUME NEW n \in Nat, NEW c \in Actions(n), NEW at \in Ats
  PROVE  /\ Ask(c, at) \in Actions(n) /\ Ask(c, at).at = at /\ Ask(c, at).op = c.op /\ Ask(c, at).reply = "none"
<1>1. "none" \in Replies
  BY DEF Replies
<1> QED BY <1>1 DEF Ask, Actions

LEMMA PersistTypes ==
  ASSUME NEW n \in Nat, NEW c \in Actions(n), NEW value \in Documents, NEW base \in Identities(n)
  PROVE  LET p == Persist(c, value, base)
         IN  /\ p \in Actions(n) /\ p.op = c.op /\ p.at = "persist" /\ p.reply = "none" /\ p.sent = value
             /\ p.base = base
<1> DEFINE a == Ask(c, "persist")
<1>1. a \in Actions(n) /\ a.at = "persist" /\ a.op = c.op /\ a.reply = "none"
  BY AskTypes DEF Ats
<1>2. Persist(c, value, base) = [a EXCEPT !.sent = value, !.base = base]
  BY DEF Persist
<1> HIDE DEF a
<1> QED BY <1>1, <1>2 DEF Actions

(* There is room for a save of what the editor holds. *)
LEMMA RoomBelow ==
  ASSUME TypesInv, NEW base \in Identities(Reached), Room(base)
  PROVE  base.version < MaxSaves /\ saves <= MaxSaves
<1>1. saves \in Nat /\ MaxSaves \in Nat /\ saves < MaxSaves
  BY BoundsAssumption DEF TypesInv, Room, SavesLeft
<1>2. base.version \in 0..saves
  BY <1>1 DEF Identities, Reached
<1> QED BY <1>1, <1>2

LEMMA CallRests ==
  ASSUME TypesInv, UNCHANGED <<call, attempt>>, saves' = saves \/ (saves < MaxSaves /\ saves' = saves + 1)
  PROVE  CallTypes(Reached)'
<1> SUFFICES ASSUME Busy PROVE CallTypes(Reached)'
  BY DEF CallTypes, Busy
<1>1. saves \in 0..(MaxSaves + 1) /\ MaxSaves \in Nat
  BY BoundsAssumption DEF TypesInv
<1>2. Reached \in Nat /\ Reached' \in Nat /\ Reached <= Reached'
  BY <1>1, ReachedGrows
<1>3. Actions(Reached) \subseteq Actions(Reached') /\ Copies(Reached) \subseteq Copies(Reached')
  BY <1>2, Larger
<1>4. saves <= MaxSaves => saves' <= MaxSaves
  BY <1>1
<1> QED BY <1>3, <1>4 DEF TypesInv, CallTypes

LEMMA CallEnds ==
  ASSUME call' = Idle
  PROVE  CallTypes(Reached)'
BY DEF CallTypes, Busy

(* An action begins, or goes on with its next request. *)
LEMMA CallAsks ==
  ASSUME TypesInv, saves' = saves, call' \in Actions(Reached), call'.reply = "none",
         call'.at = "local" /\ call'.op = "source" => call'.held \in Documents,
         call'.at = "persist" => /\ call'.sent \in Documents
                                 /\ \E base \in Identities(Reached) : Room(base) /\ call'.base = base,
         call'.at = "create" => attempt' \in Attempt
  PROVE  CallTypes(Reached)'
<1>1. Reached' = Reached
  BY DEF Reached
<1>2. call'.at = "persist" => call'.base.version < MaxSaves /\ saves' <= MaxSaves
  BY RoomBelow
<1> QED BY <1>1, <1>2 DEF CallTypes

(* An answer arrives, or is lost. *)
LEMMA CallTold ==
  ASSUME TypesInv, Busy, saves' \in {saves, saves + 1}, UNCHANGED attempt,
         NEW r \in {"ok", "lost", "gone", "refused", "conflict", "price_changed"},
         NEW v \in {Nothing} \cup Copies(Reached'),
         call' = [call EXCEPT !.reply = r, !.got = v],
         call.at \in {"persist", "get", "fetch"} /\ r = "ok" => v \in Copies(Reached')
  PROVE  CallTypes(Reached)'
<1>1. call \in Actions(Reached)
  BY DEF TypesInv, CallTypes
<1>2. Reached \in Nat /\ Reached' \in Nat /\ Reached <= Reached'
  BY ReachedGrows DEF TypesInv
<1> DEFINE m == Reached'
<1>3. call \in Actions(m) /\ v \in {Nothing} \cup Copies(m) /\ r \in Replies
  BY <1>1, <1>2, Larger DEF Replies
<1> HIDE DEF m
<1>4. /\ call' \in Actions(m) /\ call'.reply = r /\ call'.got = v /\ call'.at = call.at /\ call'.op = call.op
      /\ call'.held = call.held /\ call'.sent = call.sent /\ call'.base = call.base
  BY <1>3 DEF Actions
<1> QED BY <1>4 DEF TypesInv, CallTypes, m

LEMMA ReachedIsNat == TypesInv => Reached \in Nat
BY BoundsAssumption DEF TypesInv, Reached

LEMMA CopyAsks ==
  ASSUME TypesInv, BeginCopy, saves' = saves
  PROVE  CallTypes(Reached)'
<1> DEFINE c == Start("copy", "persist")
           start == [c EXCEPT !.prior = saved]
           n == Reached
<1>1. call' = Persist(start, doc, Unsaved) /\ Room(Unsaved)
  BY DEF BeginCopy
<1>2. n \in Nat /\ Unsaved \in Identities(n) /\ saved \in Identities(n) /\ doc \in Documents
  BY ReachedIsNat, BlankIsDocument, NewIsCopy DEF TypesInv, HeldTypes, DocTypes
<1>3. c \in Actions(n)
  BY <1>2, StartTypes DEF TypesInv, Ops, Ats
<1> HIDE DEF c, n
<1>4. start \in Actions(n)
  BY <1>2, <1>3 DEF Actions
<1> HIDE DEF start
<1>5. /\ call' \in Actions(n) /\ call'.at = "persist" /\ call'.reply = "none" /\ call'.sent = doc
      /\ call'.base = Unsaved
  BY <1>1, <1>2, <1>4, PersistTypes
<1> QED BY <1>1, <1>2, <1>5, CallAsks DEF n

LEMMA SaveAsks ==
  ASSUME TypesInv, Save \/ SaveCopy \/ ConfirmQuote
  PROVE  CallTypes(Reached)'
<1>1. saves' = saves
  BY DEF Save, SaveCopy, ConfirmQuote, quiet, server
<1>2. CASE SaveCopy
  BY <1>1, <1>2, CopyAsks DEF SaveCopy
<1>3. CASE Save \/ ConfirmQuote
  <2> DEFINE n == Reached
  <2>1. n \in Nat /\ saved \in Identities(n) /\ doc \in Documents /\ quote \in {Nothing} \cup Request
    BY ReachedIsNat DEF TypesInv, HeldTypes, DocTypes, JobTypes
  <2>2. PICK c \in {Start("save", "persist"), [Start("submit", "persist") EXCEPT !.payload = quote]} :
          call' = Persist(c, doc, saved) /\ Room(saved)
    BY <1>3 DEF Save, ConfirmQuote
  <2>3. Start("save", "persist") \in Actions(n) /\ Start("submit", "persist") \in Actions(n)
    BY <2>1, StartTypes DEF TypesInv, Ops, Ats
  <2> HIDE DEF n
  <2>4. [Start("submit", "persist") EXCEPT !.payload = quote] \in Actions(n)
    BY <2>1, <2>3 DEF Actions
  <2>5. c \in Actions(n)
    BY <2>2, <2>3, <2>4
  <2>6. /\ call' \in Actions(n) /\ call'.at = "persist" /\ call'.reply = "none" /\ call'.sent = doc
        /\ call'.base = saved
    BY <2>1, <2>2, <2>5, PersistTypes
  <2> QED BY <1>1, <2>1, <2>2, <2>6, CallAsks DEF n
<1> QED BY <1>2, <1>3

LEMMA ReadAsks ==
  ASSUME TypesInv, (\E op \in Ops : ReadFile(op)) \/ (\E panel \in BOOLEAN : Review(panel))
  PROVE  CallTypes(Reached)'
<1> DEFINE n == Reached
<1>0. n \in Nat /\ doc \in Documents /\ dirty \in BOOLEAN
  BY ReachedIsNat DEF TypesInv, DocTypes, FlagTypes
<1>1. saves' = saves
  BY DEF ReadFile, Review, server
<1>2. ASSUME NEW op \in Ops, ReadFile(op) PROVE CallTypes(Reached)'
  <2> DEFINE c == Start(op, "local")
             held == IF op = "source" THEN doc ELSE Nothing
             asks == op = "import" /\ HasWork /\ dirty
  <2>1. call' = [c EXCEPT !.held = held, !.asks = asks]
    BY <1>2 DEF ReadFile
  <2>2. c \in Actions(n) /\ c.op = op /\ c.at = "local" /\ c.reply = "none"
    BY <1>0, StartTypes DEF TypesInv, Ats
  <2>3. held \in {Nothing} \cup Documents /\ (op = "source" => held \in Documents)
    BY <1>0
  <2>4. asks \in BOOLEAN
    BY <1>0 DEF HasWork
  <2> HIDE DEF c, held, asks, n
  <2>5. call' \in Actions(n) /\ call'.at = "local" /\ call'.reply = "none" /\ call'.held = held /\ call'.op = op
    BY <2>1, <2>2, <2>3, <2>4 DEF Actions
  <2> QED BY <1>1, <2>3, <2>5, CallAsks DEF n
<1>3. ASSUME NEW panel \in BOOLEAN, Review(panel) PROVE CallTypes(Reached)'
  <2> DEFINE c == Start("review", "estimate")
             payload == GenerationRequest(doc, panel)
  <2>1. call' = [c EXCEPT !.payload = payload]
    BY <1>3 DEF Review
  <2>2. c \in Actions(n) /\ c.at = "estimate" /\ c.reply = "none"
    BY <1>0, StartTypes DEF TypesInv, Ats, Ops
  <2>3. payload \in Request
    BY <1>0 DEF GenerationRequest, Request, Documents
  <2> HIDE DEF c, payload, n
  <2>4. call' \in Actions(n) /\ call'.at = "estimate" /\ call'.reply = "none"
    BY <2>1, <2>2, <2>3 DEF Actions
  <2> QED BY <1>1, <2>4, CallAsks DEF n
<1> QED BY <1>2, <1>3

(* A request about the draft that is named, or the one being edited. *)
LEMMA GetAsks ==
  ASSUME TypesInv, saves' = saves, NEW op \in Ops, NEW at \in {"get", "remove"},
         NEW base \in Identities(Reached), call' = [Start(op, at) EXCEPT !.base = base]
  PROVE  CallTypes(Reached)'
<1> DEFINE c == Start(op, at)
           n == Reached
<1>1. n \in Nat
  BY ReachedIsNat
<1>2. c \in Actions(n) /\ c.at = at /\ c.reply = "none"
  BY <1>1, StartTypes DEF TypesInv, Ats
<1>3. base \in Identities(n) /\ call' = [c EXCEPT !.base = base]
  OBVIOUS
<1> HIDE DEF c, n
<1>4. call' \in Actions(n) /\ call'.at = at /\ call'.reply = "none"
  BY <1>2, <1>3 DEF Actions
<1> QED BY <1>4, CallAsks DEF n

(* The page is mounted, and may load the draft that its address names. *)
LEMMA MountAsks ==
  ASSUME TypesInv, saves' = saves, NEW d \in Drafts \cup {Nothing}, Mount(d)
  PROVE  CallTypes(Reached)'
<1> DEFINE c == Start("open", "get")
           n == Reached
<1>1. CASE call' = Idle
  BY <1>1, CallEnds
<1>2. CASE call' = [c EXCEPT !.base.id = d, !.shown = Nothing, !.home = Nothing]
  <2> DEFINE base == [Unsaved EXCEPT !.id = d]
  <2>1. n \in Nat /\ base \in Identities(n)
    BY ReachedIsNat DEF Identities, Unsaved
  <2>2. c \in Actions(n) /\ c.at = "get" /\ c.reply = "none"
    BY <2>1, StartTypes DEF TypesInv, Ats, Ops
  <2>3. IsCall(c) /\ c.base = Unsaved
    BY StartIsCall
  <2> HIDE DEF c, n
  <2>4. call' = [c EXCEPT !.base = base, !.shown = Nothing, !.home = Nothing]
    BY <1>2, <2>3 DEF IsCall
  <2> HIDE DEF base
  <2>5. call' \in Actions(n) /\ call'.at = "get" /\ call'.reply = "none"
    BY <2>1, <2>2, <2>4 DEF Actions
  <2> QED BY <2>5, CallAsks DEF n
<1> QED BY <1>1, <1>2 DEF Mount

LEMMA PerformAsks ==
  ASSUME TypesInv, saves' = saves, UNCHANGED attempt, NEW action, Perform(action),
         action.value.id \in Drafts \cup {Nothing}
  PROVE  CallTypes(Reached)'
<1>1. ASSUME NEW op \in Ops, NEW at \in {"get", "remove"}, NEW id \in Drafts \cup {Nothing},
             call' = [Start(op, at) EXCEPT !.base.id = id]
      PROVE  CallTypes(Reached)'
  <2> DEFINE base == [Unsaved EXCEPT !.id = id]
  <2>1. base \in Identities(Reached)
    BY ReachedIsNat DEF Identities, Unsaved
  <2>2. IsCall(Start(op, at)) /\ Start(op, at).base = Unsaved
    BY StartIsCall
  <2>3. call' = [Start(op, at) EXCEPT !.base = base]
    BY <1>1, <2>2 DEF IsCall
  <2> HIDE DEF base
  <2> QED BY <2>1, <2>3, GetAsks
<1>2. CASE UNCHANGED call
  BY <1>2, CallRests
<1>3. CASE call' = [Start("open", "get") EXCEPT !.base.id = action.value.id]
  BY <1>1, <1>3 DEF Ops
<1>4. CASE call' = [Start("delete", "remove") EXCEPT !.base.id = savedId]
  BY <1>1, <1>4 DEF Ops, TypesInv, FlagTypes
<1> QED BY <1>2, <1>3, <1>4 DEF Perform

LEMMA MenuAsks ==
  ASSUME TypesInv, Choose \/ Answer \/ ResolveConflict
  PROVE  CallTypes(Reached)'
<1>0. saves' = saves /\ UNCHANGED attempt
  BY DEF Choose, Answer, ResolveConflict, server
<1>1. CASE Choose
  <2>1. PICK action \in Menu : Perform(action) \/ UNCHANGED call
    BY <1>1 DEF Choose
  <2>2. action.value.id \in Drafts \cup {Nothing}
    BY DEF Menu, NewDocument
  <2> QED BY <1>0, <2>1, <2>2, PerformAsks, CallRests
<1>2. CASE Answer
  <2>1. (Perform(ask) \/ UNCHANGED call) /\ ask.value \in Copies(Reached)
    BY <1>2 DEF Answer, TypesInv, HeldTypes
  <2>2. ask.value.id \in Drafts \cup {Nothing}
    BY <2>1, ReachedIsNat, CopyFields
  <2> QED BY <1>0, <2>1, <2>2, PerformAsks, CallRests
<1>3. CASE ResolveConflict
  <2>1. CASE UNCHANGED call
    BY <1>0, <2>1, CallRests
  <2>2. CASE BeginCopy
    BY <1>0, <2>2, CopyAsks
  <2>3. CASE call' = [Start("keep", "get") EXCEPT !.base = saved]
    BY <1>0, <2>3, GetAsks DEF Ops, TypesInv, HeldTypes
  <2> QED BY <1>3, <2>1, <2>2, <2>3 DEF ResolveConflict
<1> QED BY <1>1, <1>2, <1>3

(* An answer without a copy of a draft. *)
LEMMA PlainTold ==
  ASSUME TypesInv, Busy, saves' = saves, UNCHANGED attempt,
         NEW r \in {"ok", "gone", "refused", "conflict", "price_changed"}, Reply(r),
         r = "ok" => call.at \notin {"persist", "get", "fetch"}
  PROVE  CallTypes(Reached)'
<1> DEFINE n == Reached
<1>0. n \in Nat /\ Reached' = n /\ call \in Actions(n)
  BY ReachedIsNat DEF TypesInv, CallTypes, Reached
<1>1. call' = [call EXCEPT !.reply = r]
  BY DEF Reply
<1> HIDE DEF n
<1>2. call.got \in {Nothing} \cup Copies(n) /\ call' = [call EXCEPT !.reply = r, !.got = call.got]
  BY <1>0, <1>1 DEF Actions
<1> QED BY <1>0, <1>2, CallTold

LEMMA SaveTold ==
  ASSUME TypesInv, HandleSaveComic
  PROVE  CallTypes(Reached)'
<1> DEFINE base == call.base
           value == call.sent
           m == Reached'
<1>0. /\ Busy /\ UNCHANGED attempt /\ saves' \in {saves, saves + 1} /\ call.at = "persist" /\ value \in Documents
      /\ base \in Identities(Reached) /\ base.version < MaxSaves /\ saves \in 0..(MaxSaves + 1) /\ MaxSaves \in Nat
  BY BoundsAssumption DEF HandleSaveComic, unasked, TypesInv, CallTypes, Actions
<1>1. ASSUME NEW r \in {"refused", "gone", "conflict"}, Reply(r), UNCHANGED <<stored, saves>>
      PROVE  CallTypes(Reached)'
  BY <1>0, <1>1, PlainTold
<1>2. ASSUME NEW id \in Drafts, NEW version \in {1, base.version + 1}, saves' = saves + 1,
             ReplyWith([id |-> id, version |-> version, doc |-> value])
      PROVE  CallTypes(Reached)'
  <2>1. base.version \in Nat /\ base.version <= saves
    BY <1>0 DEF Identities, Reached
  <2>2. version \in 0..m
    BY <1>0, <1>2, <2>1 DEF Reached
  <2> DEFINE copy == [id |-> id, version |-> version, doc |-> value]
  <2> HIDE DEF m
  <2>3. copy \in Copies(m)
    BY <1>0, <2>2 DEF Copies
  <2>4. call' = [call EXCEPT !.reply = "ok", !.got = copy]
    BY <1>2 DEF ReplyWith
  <2> HIDE DEF copy
  <2> QED BY <1>0, <2>3, <2>4, CallTold DEF m
<1>3. base.id # Nothing => base.id \in Drafts
  BY <1>0 DEF Identities
<1>4. \/ \E r \in {"refused", "gone", "conflict"} : Reply(r) /\ UNCHANGED <<stored, saves>>
      \/ /\ saves' = saves + 1
         /\ \E d \in Drafts : ReplyWith([id |-> d, version |-> 1, doc |-> value])
      \/ /\ base.id # Nothing /\ saves' = saves + 1
         /\ ReplyWith([id |-> base.id, version |-> base.version + 1, doc |-> value])
  BY DEF HandleSaveComic
<1> QED BY <1>1, <1>2, <1>3, <1>4

LEMMA OthersTold ==
  ASSUME TypesInv, EditorInv, HandleGetComic \/ HandleDeleteComic \/ HandleEstimate \/ HandleCreateJob \/ Disconnect
  PROVE  CallTypes(Reached)'
<1> DEFINE n == Reached
<1>0. /\ Busy /\ UNCHANGED <<attempt, saves>> /\ n \in Nat /\ Reached' = n /\ call \in Actions(n)
      /\ stored \in [Drafts -> Rows(n)]
  <2>1. Busy /\ UNCHANGED <<attempt, saves>>
    BY DEF HandleGetComic, HandleDeleteComic, HandleEstimate, HandleCreateJob, Disconnect, unasked, server
  <2> QED BY <2>1, ReachedIsNat DEF TypesInv, HeldTypes, CallTypes, Reached
<1>1. CASE HandleGetComic
  <2> DEFINE d == IF call.at = "get" THEN call.base.id ELSE call.shown
             copy == Snapshot(d)
  <2>1. d \in Drafts /\ (ReplyWith(copy) \/ Reply("gone"))
    BY <1>0, <1>1 DEF HandleGetComic, EditorInv, CallInv, Actions, Identities
  <2>2. CASE Reply("gone")
    BY <1>0, <2>2, PlainTold
  <2>3. CASE ReplyWith(copy)
    <3> HIDE DEF d
    <3>1. copy \in Copies(n)
      BY <1>0, <2>1 DEF Snapshot, Copies, Rows
    <3>2. call' = [call EXCEPT !.reply = "ok", !.got = copy]
      BY <2>3 DEF ReplyWith
    <3> HIDE DEF copy, n
    <3> QED BY <1>0, <3>1, <3>2, CallTold
  <2> QED BY <2>1, <2>2, <2>3
<1>2. CASE HandleDeleteComic \/ HandleEstimate \/ HandleCreateJob
  <2>1. /\ call.at \in {"remove", "estimate", "create"}
        /\ \E r \in {"ok", "gone", "refused", "price_changed"} : Reply(r)
    BY <1>2 DEF HandleDeleteComic, HandleEstimate, HandleCreateJob
  <2> QED BY <1>0, <2>1, PlainTold
<1>3. CASE Disconnect
  <2>1. call' = [call EXCEPT !.reply = "lost", !.got = Nothing]
    BY <1>3 DEF Disconnect
  <2> QED BY <1>0, <2>1, CallTold
<1> QED BY <1>1, <1>2, <1>3

LEMMA GoesOn ==
  ASSUME TypesInv, SaveAnswered \/ SaveFailed \/ Opened \/ JobCreated, JobTypes', DocTypes', HeldTypes(Reached)'
  PROVE  CallTypes(Reached)'
<1> DEFINE n == Reached
<1>0. saves' = saves /\ n \in Nat /\ Reached' = n /\ call \in Actions(n)
  <2>1. Busy /\ UNCHANGED saves
    BY DEF SaveAnswered, SaveFailed, Opened, JobCreated, Answered, quiet, server
  <2> QED BY <2>1, ReachedIsNat DEF TypesInv, CallTypes, Reached
<1>1. CASE call' = Idle
  BY <1>1, CallEnds
<1>2. CASE SaveAnswered /\ call' = Ask(call, "create")
  <2>1. call' \in Actions(n) /\ call'.at = "create" /\ call'.reply = "none"
    BY <1>0, <1>2, AskTypes DEF Ats
  <2>2. call.op = "submit" /\ call.payload # Nothing
    <3>1. Ask(call, "create") # Idle
      <4>1. IsCall(Ask(call, "create"))
        BY <1>0, <1>2, <2>1 DEF Actions, IsCall
      <4> QED BY <4>1, CallIsNotIdle
    <3>2. call.op = "submit" => call.payload # Nothing
      BY <1>2, <3>1 DEF SaveAnswered, Finish
    <3>3. call.op \notin {"save", "copy", "keep"}
      BY <1>2, <3>1 DEF SaveAnswered, Finish
    <3> QED BY <1>2, <3>2, <3>3 DEF SaveAnswered
  <2>3. attempt' # Nothing
    <3>1. PICK j \in Key(call.payload) : attempt' = [payload |-> call.payload, id |-> j]
      BY <1>2, <2>2 DEF SaveAnswered
    <3>2. j \in Jobs /\ call.payload \in Request
      BY <1>0, <2>2 DEF Key, Remembered, TypesInv, JobTypes, Attempt, Actions
    <3> QED BY <3>1, <3>2, RequestAssumption DEF Attempt
  <2>4. attempt' \in Attempt
    BY <2>3 DEF JobTypes
  <2> QED BY <1>0, <2>1, <2>4, CallAsks
<1>3. CASE SaveFailed /\ call' = Ask(call, "fetch")
  <2>1. call' \in Actions(n) /\ call'.at = "fetch" /\ call'.reply = "none"
    BY <1>0, <1>3, AskTypes DEF Ats
  <2> QED BY <1>0, <2>1, CallAsks
<1>4. CASE Opened /\ Room(saved') /\ call' = Persist(call, doc, saved')
  <2>1. saved' \in Identities(n) /\ doc \in Documents
    BY <1>0 DEF HeldTypes, TypesInv, DocTypes
  <2>2. /\ call' \in Actions(n) /\ call'.at = "persist" /\ call'.reply = "none" /\ call'.sent = doc
        /\ call'.base = saved'
    BY <1>0, <1>4, <2>1, PersistTypes
  <2> QED BY <1>0, <1>4, <2>1, <2>2, CallAsks
<1>5. CASE JobCreated /\ Room(saved) /\ call' = [Persist(call, doc', saved) EXCEPT !.payload = Nothing]
  <2> DEFINE p == Persist(call, doc', saved)
  <2>1. saved \in Identities(n) /\ doc' \in Documents
    BY DEF HeldTypes, TypesInv, DocTypes
  <2>2. p \in Actions(n) /\ p.at = "persist" /\ p.reply = "none" /\ p.sent = doc' /\ p.base = saved
    BY <1>0, <2>1, PersistTypes
  <2> HIDE DEF p, n
  <2>3. /\ call' \in Actions(n) /\ call'.at = "persist" /\ call'.reply = "none" /\ call'.sent = doc'
        /\ call'.base = saved
    BY <1>5, <2>2 DEF p, Actions
  <2> QED BY <1>0, <1>5, <2>1, <2>3, CallAsks DEF n
<1>6. CASE SaveAnswered
  BY <1>1, <1>2, <1>6 DEF SaveAnswered, Finish
<1>7. CASE SaveFailed
  BY <1>1, <1>3, <1>7 DEF SaveFailed, Finish
<1>8. CASE Opened
  BY <1>1, <1>4, <1>8 DEF Opened, Finish
<1>9. CASE JobCreated
  BY <1>1, <1>5, <1>9 DEF JobCreated, Finish
<1> QED BY <1>6, <1>7, <1>8, <1>9

LEMMA CallStep ==
  ASSUME TypesInv, EditorInv, [Next]_vars
  PROVE  CallTypes(Reached)'
<1>1. CASE EditStory \/ EditArt \/ Undo \/ Redo \/ StartUpload \/ FinishUpload \/ Autosave \/ DismissRecovery
           \/ Restore \/ CancelQuote \/ PollEnded \/ (\E j \in Jobs : JobEnds(j) \/ JobDeleted(j)) \/ UNCHANGED vars
  <2>1. UNCHANGED <<call, attempt, saves>>
    BY <1>1 DEF EditStory, EditArt, Undo, Redo, StartUpload, FinishUpload, Autosave, DismissRecovery, Restore,
         CancelQuote, PollEnded, JobEnds, JobDeleted, vars, unasked, server
  <2> QED BY <2>1, CallRests
<1>2. CASE \E d \in Drafts : Elsewhere(d)
  <2>1. UNCHANGED <<call, attempt>>
    BY <1>2 DEF Elsewhere
  <2>2. saves' = saves \/ (saves < MaxSaves /\ saves' = saves + 1)
    BY <1>2, BoundsAssumption DEF Elsewhere, SavesLeft, TypesInv
  <2> QED BY <2>1, <2>2, CallRests
<1>3. CASE Leave \/ ConflictFetched \/ Removed \/ Estimated \/ FileRead
  <2>1. \/ call' = Idle
        \/ saves' = saves /\ \E d \in Drafts \cup {Nothing} : Mount(d)
    BY <1>3 DEF Leave, ConflictFetched, Removed, Estimated, FileRead, Finish, server
  <2> QED BY <2>1, CallEnds, MountAsks
<1>4. CASE Save \/ SaveCopy \/ ConfirmQuote
  BY <1>4, SaveAsks
<1>5. CASE (\E op \in Ops : ReadFile(op)) \/ (\E panel \in BOOLEAN : Review(panel))
  BY <1>5, ReadAsks
<1>6. CASE Choose \/ Answer \/ ResolveConflict
  BY <1>6, MenuAsks
<1>7. CASE Handle \/ Disconnect
  BY <1>7, SaveTold, OthersTold DEF Handle
<1>8. CASE SaveAnswered \/ SaveFailed \/ Opened \/ JobCreated
  BY <1>8, GoesOn, JobStep, DocStep, HeldStep
<1> QED BY <1>1, <1>2, <1>3, <1>4, <1>5, <1>6, <1>7, <1>8 DEF Next, User, Receive, Environment

LEMMA TypesStep ==
  ASSUME TypesInv, EditorInv, [Next]_vars
  PROVE  TypesInv'
<1>1. saves' \in 0..(MaxSaves + 1)
  BY SavesStep
<1> QED BY <1>1, DocStep, FlagStep, JobStep, HeldStep, CallStep DEF TypesInv

LEMMA TypesStart == Init => TypesInv /\ KeyInv
<1> SUFFICES ASSUME Init PROVE TypesInv /\ KeyInv
  OBVIOUS
<1>1. saves = 0 /\ Reached \in Nat /\ 0 \in 0..(MaxSaves + 1) /\ 0 \in 0..MaxEdits /\ 0 \in 0..MaxTrouble
  BY BoundsAssumption DEF Init, Reached
<1>2. DocTypes /\ FlagTypes
  <2>1. <<>> \in Seq(Documents)
    OBVIOUS
  <2> QED BY <1>1, <2>1, BlankIsDocument DEF Init, DocTypes, FlagTypes
<1>3. JobTypes /\ KeyInv
  <2>1. [j \in Jobs |-> [status |-> "none", payload |-> [story |-> 0, panel |-> FALSE]]] \in JobTables
    <3>1. [story |-> 0, panel |-> FALSE] \in Request
      BY <1>1 DEF Request
    <3> QED BY <3>1 DEF JobTables
  <2> QED BY <1>1, <2>1 DEF Init, JobTypes, KeyInv
<1>4. HeldTypes(Reached)
  <2>1. [d \in Drafts |-> [version |-> 0, doc |-> Blank, live |-> FALSE]] \in [Drafts -> Rows(Reached)]
    BY <1>1, BlankIsDocument DEF Rows
  <2>2. Unsaved \in Identities(Reached)
    BY <1>1, BlankIsDocument, NewIsCopy
  <2> QED BY <2>1, <2>2 DEF Init, HeldTypes
<1>5. CallTypes(Reached)
  BY DEF Init, CallTypes, Busy
<1> QED BY <1>1, <1>2, <1>3, <1>4, <1>5 DEF TypesInv

LEMMA TypesSuffice == TypesInv => TypeOK
<1> SUFFICES ASSUME TypesInv PROVE TypeOK
  OBVIOUS
<1>1. Reached \in Nat /\ MaxSaves \in Nat /\ Reached <= MaxSaves
  BY BoundsAssumption DEF TypesInv, Reached
<1>2. /\ Identities(Reached) \subseteq Identities(MaxSaves) /\ Copies(Reached) \subseteq Copies(MaxSaves)
      /\ Rows(Reached) \subseteq Rows(MaxSaves) /\ Actions(Reached) \subseteq Actions(MaxSaves)
  BY <1>1, Larger
<1>3. /\ Identities(MaxSaves) = Base /\ Copies(MaxSaves) = Saved
      /\ Rows(MaxSaves) = [version : 0..MaxSaves, doc : Documents, live : BOOLEAN]
  BY DEF Identities, Base, Copies, Saved, Rows
<1>4. Actions(MaxSaves) = Calls
  BY <1>3 DEF Actions, Calls, Ats, Replies
<1>5. call \in Calls \cup {Idle}
  BY <1>2, <1>4 DEF TypesInv, CallTypes, Busy
<1>6. saved \in Base /\ recovery \in {Nothing} \cup Saved /\ backup \in {Nothing} \cup Saved
      /\ conflict \in {Nothing} \cup Saved
      /\ stored \in [Drafts -> [version : 0..MaxSaves, doc : Documents, live : BOOLEAN]]
  BY <1>2, <1>3 DEF TypesInv, HeldTypes
<1> QED BY <1>5, <1>6 DEF TypesInv, DocTypes, FlagTypes, JobTypes, JobTables, TypeOK
-----------------------------------------------------------------------------
(* The draft the document came from, as long as both promises are kept: an  *)
(* upload, a file and a first save end on the document they started from.   *)
Promised == Promises \subseteq Kept

(* An action that puts the document it remembers on the screen, or gives    *)
(* it the name of a new draft.                                              *)
Brings(c) == c.at = "local" \/ (c.at = "persist" /\ c.base.id = Nothing)

OriginInv ==
    Promised =>
      /\ SavesItsOwn
      /\ upload # Nothing => upload.home = origin
      /\ Busy /\ Brings(call) => call.home = origin
      /\ Copying /\ call.prior.id # Nothing => call.prior.id = origin

(* What it rests on is left alone, and no action begins. *)
LEMMA OriginRests ==
  ASSUME OriginInv, UNCHANGED <<saved, origin, upload>> \/ (UNCHANGED <<saved, origin>> /\ upload' = Nothing),
         \/ call' = call \/ call' = Idle
         \/ Busy' /\ call'.at \notin {"local", "persist"}
         \/ Busy /\ Answers(call, call')
  PROVE  OriginInv'
<1>1. CASE call' = call
  BY <1>1 DEF OriginInv, SavesItsOwn, Brings, Copying, Busy
<1>2. CASE call' = Idle \/ (Busy' /\ call'.at \notin {"local", "persist"})
  BY <1>2 DEF OriginInv, SavesItsOwn, Brings, Copying, Busy
<1>3. CASE Busy /\ Answers(call, call')
  BY <1>3 DEF OriginInv, SavesItsOwn, Brings, Copying, Busy, Answers
<1> QED BY <1>1, <1>2, <1>3

(* An action begins, while none goes on. *)
LEMMA OriginBegins ==
  ASSUME EditorInv, OriginInv, ~Busy, UNCHANGED <<origin, upload>>, call'.home = origin,
         \/ saved' = saved /\ call'.op # "copy"
         \/ saved' = Unsaved /\ call'.prior = saved
  PROVE  OriginInv'
<1>1. CASE saved' = saved /\ call'.op # "copy"
  BY <1>1 DEF OriginInv, SavesItsOwn, Copying
<1>2. CASE saved' = Unsaved /\ call'.prior = saved
  BY <1>2, NoBase DEF OriginInv, SavesItsOwn
<1> QED BY <1>1, <1>2

LEMMA OriginCopies ==
  ASSUME EditorInv, OriginInv, BeginCopy, ~Busy, UNCHANGED <<origin, upload>>
  PROVE  OriginInv'
<1> DEFINE c == Start("copy", "persist")
           start == [c EXCEPT !.prior = saved]
<1>1. call' = Persist(start, doc, Unsaved) /\ saved' = Unsaved
  BY DEF BeginCopy
<1>2. IsCall(c) /\ c.home = origin
  BY StartIsCall
<1> HIDE DEF c
<1>3. IsCall(start) /\ start.home = origin /\ start.prior = saved
  BY <1>2 DEF IsCall
<1> HIDE DEF start
<1>4. call'.home = origin /\ call'.prior = saved
  BY <1>1, <1>3, PersistIsCall
<1> QED BY <1>1, <1>4, OriginBegins

(* Another document is opened, which no upload outlives. *)
LEMMA OriginOpens ==
  ASSUME NEW value, NEW keep, Activate(value, keep), upload' = upload, ~Busy'
  PROVE  OriginInv'
<1> SUFFICES ASSUME Promised PROVE OriginInv'
  BY DEF OriginInv, Promised
<1>1. upload' = Nothing
  BY DEF Activate, Promised, Promises
<1>2. saved'.id = value.id /\ origin' = value.id
  BY DEF Activate, Identity
<1> QED BY <1>1, <1>2 DEF OriginInv, SavesItsOwn, Copying

LEMMA OriginMounts ==
  ASSUME NEW d, Mount(d)
  PROVE  OriginInv'
<1>1. saved'.id = Nothing /\ upload' = Nothing
  BY NoBase DEF Mount
<1>2. Busy' => call'.at = "get"
  <2> DEFINE c == Start("open", "get")
  <2>1. IsCall(c) /\ c.at = "get"
    BY StartIsCall
  <2>2. call' # Idle => call' = [c EXCEPT !.base.id = d, !.shown = Nothing, !.home = Nothing]
    BY DEF Mount
  <2> HIDE DEF c
  <2> QED BY <2>1, <2>2 DEF IsCall, Busy
<1> QED BY <1>1, <1>2 DEF OriginInv, SavesItsOwn, Copying, Brings

LEMMA OriginPerforms ==
  ASSUME EditorInv, OriginInv, NEW action, Perform(action), ~Busy, upload' = upload
  PROVE  OriginInv'
<1>1. CASE Activate(action.value, FALSE) /\ UNCHANGED call
  BY <1>1, OriginOpens DEF Busy
<1>2. ASSUME NEW op, NEW at, at \in {"get", "remove"}, NEW base, call' = [Start(op, at) EXCEPT !.base = base],
             UNCHANGED <<session, ghosts>>
      PROVE  OriginInv'
  <2> DEFINE c == Start(op, at)
  <2>1. IsCall(c) /\ c.at = at
    BY StartIsCall
  <2> HIDE DEF c
  <2>2. call'.at = at /\ IsCall(call')
    BY <1>2, <2>1 DEF IsCall, c
  <2> QED BY <1>2, <2>2, OriginRests, CallIsNotIdle DEF session, ghosts, Busy
<1>3. ASSUME NEW op, NEW at, at \in {"get", "remove"}, NEW id, call' = [Start(op, at) EXCEPT !.base.id = id],
             UNCHANGED <<session, ghosts>>
      PROVE  OriginInv'
  <2> DEFINE base == [Unsaved EXCEPT !.id = id]
  <2>1. IsCall(Start(op, at)) /\ Start(op, at).base = Unsaved
    BY StartIsCall
  <2>2. call' = [Start(op, at) EXCEPT !.base = base]
    BY <1>3, <2>1 DEF IsCall
  <2> HIDE DEF base
  <2> QED BY <1>2, <1>3, <2>2
<1> QED BY <1>1, <1>3 DEF Perform

(* The menus and the dialogs. *)
LEMMA OriginChosen ==
  ASSUME EditorInv, OriginInv, Choose \/ Answer \/ ResolveConflict \/ Restore
  PROVE  OriginInv'
<1>1. upload' = upload
  BY DEF Choose, Answer, ResolveConflict, Restore
<1>2. CASE UNCHANGED <<session, call, ghosts>>
  BY <1>1, <1>2, OriginRests DEF session, ghosts
<1>3. CASE Choose
  BY <1>1, <1>2, <1>3, OriginPerforms DEF Choose, Guard
<1>4. CASE Answer
  <2>1. ~Busy
    BY <1>4 DEF Answer, EditorInv, DialogInv
  <2> QED BY <1>1, <1>2, <1>4, <2>1, OriginPerforms DEF Answer
<1>5. CASE Restore
  <2> SUFFICES ASSUME Promised PROVE OriginInv'
    BY DEF OriginInv, Promised
  <2>1. Activate(recovery, FALSE) /\ ~Busy'
    BY <1>5 DEF Restore, Promised, Promises, Busy
  <2> QED BY <1>1, <2>1, OriginOpens
<1>6. CASE ResolveConflict
  <2>1. ~Busy
    BY <1>6 DEF ResolveConflict
  <2>2. CASE Activate(conflict, TRUE) /\ UNCHANGED call
    BY <1>1, <2>1, <2>2, OriginOpens DEF Busy
  <2>3. CASE BeginCopy /\ UNCHANGED ghosts
    BY <1>1, <2>1, <2>3, OriginCopies DEF ghosts
  <2>4. CASE call' = [Start("keep", "get") EXCEPT !.base = saved] /\ UNCHANGED <<session, ghosts>>
    <3> DEFINE c == Start("keep", "get")
    <3>1. IsCall(c) /\ c.at = "get"
      BY StartIsCall
    <3> HIDE DEF c
    <3>2. call'.at = "get" /\ IsCall(call')
      BY <2>4, <3>1 DEF IsCall, c
    <3> QED BY <1>1, <2>4, <3>2, OriginRests, CallIsNotIdle DEF session, ghosts, Busy
  <2> QED BY <1>2, <1>6, <2>2, <2>3, <2>4 DEF ResolveConflict
<1> QED BY <1>3, <1>4, <1>5, <1>6

(* Saves and files begin. *)
LEMMA OriginSaves ==
  ASSUME EditorInv, OriginInv, Save \/ SaveCopy \/ ConfirmQuote \/ (\E op \in Ops : ReadFile(op))
                               \/ (\E panel \in BOOLEAN : Review(panel))
  PROVE  OriginInv'
<1>1. CASE SaveCopy
  BY <1>1, OriginCopies DEF SaveCopy, quiet, ghosts
<1>2. CASE Save \/ ConfirmQuote
  <2>1. PICK c \in {Start("save", "persist"), [Start("submit", "persist") EXCEPT !.payload = quote]} :
          call' = Persist(c, doc, saved)
    BY <1>2 DEF Save, ConfirmQuote
  <2>2. IsCall(c) /\ c.op # "copy" /\ c.home = origin
    <3> DEFINE start == Start("submit", "persist")
    <3>1. /\ IsCall(start) /\ start.op = "submit" /\ start.home = origin
          /\ IsCall(Start("save", "persist")) /\ Start("save", "persist").op = "save"
          /\ Start("save", "persist").home = origin
      BY StartIsCall
    <3> HIDE DEF start
    <3>2. LET d == [start EXCEPT !.payload = quote] IN IsCall(d) /\ d.op = "submit" /\ d.home = origin
      BY <3>1 DEF IsCall
    <3> QED BY <2>1, <3>1, <3>2 DEF start
  <2>3. call'.home = origin /\ call'.op # "copy"
    BY <2>1, <2>2, PersistIsCall
  <2>4. ~Busy /\ UNCHANGED <<saved, origin, upload>>
    BY <1>2 DEF Save, ConfirmQuote, quiet, ghosts
  <2> QED BY <2>3, <2>4, OriginBegins
<1>3. ASSUME NEW op \in Ops, ReadFile(op) PROVE OriginInv'
  <2> DEFINE c == Start(op, "local")
  <2>1. IsCall(c) /\ c.op = op /\ c.home = origin
    BY StartIsCall
  <2> HIDE DEF c
  <2>2. call'.home = origin /\ call'.op = op /\ op # "copy"
    BY <1>3, <2>1 DEF ReadFile, IsCall, c
  <2>3. ~Busy /\ UNCHANGED <<saved, origin, upload>>
    BY <1>3 DEF ReadFile, session, ghosts
  <2> QED BY <2>2, <2>3, OriginBegins
<1>4. ASSUME NEW panel \in BOOLEAN, Review(panel) PROVE OriginInv'
  <2> DEFINE c == Start("review", "estimate")
  <2>1. IsCall(c) /\ c.op = "review" /\ c.home = origin
    BY StartIsCall
  <2> HIDE DEF c
  <2>2. call'.home = origin /\ call'.op = "review"
    BY <1>4, <2>1 DEF Review, IsCall, c
  <2>3. ~Busy /\ UNCHANGED <<saved, origin, upload>>
    BY <1>4 DEF Review, GenerationOffered, session, ghosts
  <2> QED BY <2>2, <2>3, OriginBegins
<1> QED BY <1>1, <1>2, <1>3, <1>4

(* A save is answered: the document belongs to the draft it was stored in. *)
LEMMA OriginSaved ==
  ASSUME EditorInv, TypesInv, OriginInv, SaveAnswered
  PROVE  OriginInv'
<1> SUFFICES ASSUME Promised PROVE OriginInv'
  BY DEF OriginInv, Promised
<1>0. /\ Busy /\ call.at = "persist" /\ call.reply = "ok" /\ IsCall(call) /\ IsTrue(stored, call.got)
      /\ (call.base.id # Nothing => call.got.id = call.base.id)
      /\ (call.op = "copy" => call.base.id = Nothing)
  BY DEF SaveAnswered, Answered, EditorInv, CallInv, Told
<1>1. /\ saved' = [id |-> call.got.id, version |-> call.got.version] /\ origin' = Home(origin)
      /\ \/ upload' = Nothing
         \/ upload # Nothing /\ upload' = [upload EXCEPT !.home = Home(upload.home)]
      /\ \/ call' = Idle
         \/ call' = Ask(call, "create")
  BY DEF SaveAnswered, MarkSaved, Finish
<1>2. origin' = call.got.id
  <2>1. CASE call.base.id = Nothing
    <3>1. call.home = origin
      BY <1>0, <2>1 DEF OriginInv, Brings
    <3> QED BY <1>1, <2>1, <3>1 DEF Home
  <2>2. CASE call.base.id # Nothing
    <3>1. call.base = saved
      BY <1>0, <2>2 DEF EditorInv, HomeInv, Steady, Promised, Promises
    <3>2. saved.id = origin
      BY <2>2, <3>1 DEF OriginInv, SavesItsOwn
    <3> QED BY <1>0, <1>1, <2>2, <3>1, <3>2 DEF Home
  <2> QED BY <2>1, <2>2
<1>3. upload' # Nothing => upload'.home = origin'
  <2> SUFFICES ASSUME upload' # Nothing PROVE upload'.home = origin'
    OBVIOUS
  <2> DEFINE home == Home(origin)
  <2>1. upload # Nothing /\ upload.home = origin /\ upload' = [upload EXCEPT !.home = home]
    BY <1>1 DEF OriginInv
  <2> HIDE DEF home
  <2>2. upload \in Uploads
    BY <2>1 DEF TypesInv, DocTypes
  <2>3. upload'.home = home
    BY <2>1, <2>2 DEF Uploads
  <2> QED BY <1>1, <2>3 DEF home
<1>4. Busy' => call'.at = "create"
  BY <1>0, <1>1 DEF Ask, IsCall, Busy
<1> QED BY <1>1, <1>2, <1>3, <1>4 DEF OriginInv, SavesItsOwn, Brings, Copying

(* A save fails, and a copy that failed brings the identity back. *)
LEMMA OriginFailed ==
  ASSUME EditorInv, OriginInv, SaveFailed
  PROVE  OriginInv'
<1>1. /\ Busy /\ call.at = "persist" /\ IsCall(call) /\ UNCHANGED <<origin, upload>>
      /\ saved' = IF call.op = "copy" THEN call.prior ELSE saved
      /\ call' = Ask(call, "fetch") \/ call' = Idle
  BY DEF SaveFailed, Answered, Finish, quiet, ghosts, EditorInv, CallInv
<1>2. Busy' => call'.at = "fetch"
  BY <1>1 DEF Ask, IsCall, Busy
<1> QED BY <1>1, <1>2 DEF OriginInv, SavesItsOwn, Brings, Copying

(* A draft is opened, or its version is taken over. *)
LEMMA OriginOpened ==
  ASSUME EditorInv, OriginInv, Opened
  PROVE  OriginInv'
<1>1. /\ Busy /\ call.at = "get" /\ IsCall(call) /\ upload' = upload
      /\ \/ call' = Idle /\ Activate(call.got, FALSE)
         \/ /\ call.op = "keep" /\ call.reply = "ok"
            /\ saved' = [id |-> call.got.id, version |-> call.got.version]
            /\ call' = Persist(call, doc, saved') \/ call' = Idle
            /\ UNCHANGED origin
         \/ call' = Idle /\ UNCHANGED <<session, ghosts>>
  BY DEF Opened, Answered, Finish, EditorInv, CallInv
<1>2. CASE call' = Idle /\ Activate(call.got, FALSE)
  BY <1>1, <1>2, OriginOpens DEF Busy
<1>3. CASE /\ call.op = "keep" /\ call.reply = "ok"
           /\ saved' = [id |-> call.got.id, version |-> call.got.version]
           /\ call' = Persist(call, doc, saved') \/ call' = Idle
           /\ UNCHANGED origin
  <2> SUFFICES ASSUME Promised PROVE OriginInv'
    BY DEF OriginInv, Promised
  <2>1. call.got.id = call.base.id /\ call.base.id = saved.id /\ call.base.id # Nothing
    BY <1>1, <1>3 DEF EditorInv, CallInv, HomeInv, Told, Steady, Promised, Promises
  <2>2. Busy' => call'.op = "keep" /\ call'.at = "persist" /\ call'.base = saved'
    BY <1>1, <1>3, PersistIsCall DEF Busy
  <2> QED BY <1>1, <1>3, <2>1, <2>2 DEF OriginInv, SavesItsOwn, Brings, Copying
<1>4. CASE call' = Idle /\ UNCHANGED <<session, ghosts>>
  BY <1>1, <1>4, OriginRests DEF session, ghosts
<1> QED BY <1>1, <1>2, <1>3, <1>4

(* A job is made, and the draft that was saved before it is saved again. *)
LEMMA OriginCreated ==
  ASSUME EditorInv, OriginInv, JobCreated
  PROVE  OriginInv'
<1> DEFINE next == [doc EXCEPT !.pending = attempt.id]
<1>1. /\ Busy /\ call.at = "create" /\ IsCall(call) /\ call.op = "submit" /\ UNCHANGED <<saved, origin, upload>>
      /\ call' = [Persist(call, next, saved) EXCEPT !.payload = Nothing] \/ call' = Idle
  BY DEF JobCreated, Answered, Finish, session, EditorInv, CallInv
<1> HIDE DEF next
<1>2. CASE call' = Idle
  BY <1>1, <1>2, OriginRests
<1>3. CASE call' = [Persist(call, next, saved) EXCEPT !.payload = Nothing]
  <2> SUFFICES ASSUME Promised PROVE OriginInv'
    BY DEF OriginInv, Promised
  <2> DEFINE p == Persist(call, next, saved)
  <2>1. IsCall(p) /\ p.op = "submit" /\ p.at = "persist" /\ p.base = saved
    BY <1>1, PersistIsCall
  <2> HIDE DEF p
  <2>2. call'.op = "submit" /\ call'.at = "persist" /\ call'.base = saved
    BY <1>3, <2>1 DEF IsCall, p
  <2>3. saved.id # Nothing
    BY <1>1 DEF EditorInv, HomeInv, Steady, Promised, Promises
  <2> QED BY <1>1, <2>2, <2>3 DEF OriginInv, SavesItsOwn, Brings, Copying
<1> QED BY <1>1, <1>2, <1>3

(* A file is read into the document it was chosen for. *)
LEMMA OriginRead ==
  ASSUME EditorInv, OriginInv, FileRead
  PROVE  OriginInv'
<1>1. /\ Busy /\ call.at = "local" /\ call' = Idle /\ upload' = upload
      /\ \/ saved' = saved /\ origin' \in {origin, call.home}
         \/ \E value : Activate(value, FALSE)
  BY DEF FileRead, session, ghosts
<1>2. CASE saved' = saved /\ origin' \in {origin, call.home}
  <2> SUFFICES ASSUME Promised PROVE OriginInv'
    BY DEF OriginInv, Promised
  <2>1. call.home = origin
    BY <1>1 DEF OriginInv, Brings
  <2> QED BY <1>1, <1>2, <2>1, OriginRests
<1>3. CASE \E value : Activate(value, FALSE)
  BY <1>1, <1>3, OriginOpens DEF Busy
<1> QED BY <1>1, <1>2, <1>3

LEMMA OriginStep ==
  ASSUME EditorInv, TypesInv, OriginInv, [Next]_vars
  PROVE  OriginInv'
<1>1. CASE EditStory \/ EditArt \/ Undo \/ Redo \/ Autosave \/ DismissRecovery \/ CancelQuote \/ PollEnded
  BY <1>1, OriginRests DEF EditStory, EditArt, Undo, Redo, Autosave, DismissRecovery, CancelQuote, PollEnded,
       session, ghosts
<1>2. CASE StartUpload
  <2>1. UNCHANGED <<saved, origin, call>> /\ upload' = [doc |-> doc, home |-> origin]
    BY <1>2 DEF StartUpload, session, ghosts
  <2> QED BY <2>1 DEF OriginInv, SavesItsOwn, Brings, Copying, Busy
<1>3. CASE FinishUpload
  <2> SUFFICES ASSUME Promised PROVE OriginInv'
    BY DEF OriginInv, Promised
  <2>1. UNCHANGED <<saved, call>> /\ upload' = Nothing /\ origin' = origin
    BY <1>3 DEF FinishUpload, OriginInv
  <2> QED BY <2>1, OriginRests
<1>4. CASE Choose \/ Answer \/ ResolveConflict \/ Restore
  BY <1>4, OriginChosen
<1>5. CASE Save \/ SaveCopy \/ ConfirmQuote \/ (\E op \in Ops : ReadFile(op)) \/ (\E panel \in BOOLEAN : Review(panel))
  BY <1>5, OriginSaves
<1>6. CASE Leave
  BY <1>6, OriginMounts DEF Leave
<1>7. CASE Handle \/ Disconnect
  <2>1. UNCHANGED <<saved, origin, upload>> /\ Busy
    BY <1>7 DEF Handle, HandleSaveComic, HandleGetComic, HandleDeleteComic, HandleEstimate, HandleCreateJob,
         Disconnect, unasked, session, ghosts
  <2>2. Answers(call, call')
    <3>1. IsCall(call)
      BY <2>1 DEF EditorInv, CallInv
    <3>2. (\E r : Reply(r)) \/ (\E v : ReplyWith(v)) \/ call' = [call EXCEPT !.reply = "lost", !.got = Nothing]
      BY <1>7 DEF Handle, HandleSaveComic, HandleGetComic, HandleDeleteComic, HandleEstimate, HandleCreateJob,
           Disconnect
    <3>3. ASSUME NEW r, Reply(r) PROVE Answers(call, call')
      BY <3>1, <3>3, ReplyFields DEF Reply
    <3>4. ASSUME NEW r, NEW v, call' = [call EXCEPT !.reply = r, !.got = v] PROVE Answers(call, call')
      BY <3>1, <3>4, ReplyFields
    <3> QED BY <3>2, <3>3, <3>4 DEF ReplyWith
  <2> QED BY <2>1, <2>2, OriginRests
<1>8. CASE SaveAnswered \/ SaveFailed \/ Opened \/ JobCreated \/ FileRead
  BY <1>8, OriginSaved, OriginFailed, OriginOpened, OriginCreated, OriginRead
<1>9. CASE ConflictFetched \/ Estimated
  BY <1>9, OriginRests DEF ConflictFetched, Estimated, Finish, session, ghosts
<1>10. CASE Removed
  <2>1. \/ call' = Idle /\ upload' = upload /\ \E value : Activate(value, FALSE)
        \/ Mount(Nothing)
        \/ call' = Idle /\ UNCHANGED <<saved, origin, upload>>
    BY <1>10 DEF Removed, Finish, session
  <2> QED BY <2>1, OriginOpens, OriginMounts, OriginRests DEF Busy
<1>11. CASE (\E d \in Drafts : Elsewhere(d)) \/ (\E j \in Jobs : JobEnds(j) \/ JobDeleted(j)) \/ UNCHANGED vars
  BY <1>11, OriginRests DEF Elsewhere, JobEnds, JobDeleted, unasked, vars, session, ghosts
<1> QED BY <1>1, <1>2, <1>3, <1>4, <1>5, <1>6, <1>7, <1>8, <1>9, <1>10, <1>11
        DEF Next, User, Receive, Environment

LEMMA OriginStart == Init => OriginInv
BY NoBase DEF Init, OriginInv, SavesItsOwn, Copying, Busy

-----------------------------------------------------------------------------
(* When the header says "saved to your account", the account holds the      *)
(* document on the screen, unless somebody saved the draft since: whatever  *)
(* was edited, answered, lost or deleted meanwhile (useComicDraft.ts:       *)
(* markSaved, activate; ComicWorkspace.tsx: run, saveCopy).  A restored     *)
(* backup and an overwrite that failed are left out until their next save   *)
(* succeeds: the code calls them saved although they are not (adrift).      *)
(* No promise is needed.                                                    *)
THEOREM CleanMeansStored == Spec => []CleanIsStored
<1>1. Init => EditorInv
  BY EditorStart
<1>2. EditorInv /\ [Next]_vars => EditorInv'
  BY EditorStep
<1>3. EditorInv => CleanIsStored
  BY DEF EditorInv, BaseInv, Holds, CleanIsStored
<1> QED BY <1>1, <1>2, <1>3, PTL DEF Spec

(* However saves, copies, imports, restores, uploads and conflicts follow   *)
(* each other, a save goes to the draft its document came from, the conflict     *)
(* dialog opens on a newer copy of that draft only, undo and redo together  *)
(* stay within their limit, and every variable keeps its type               *)
(* (useComicDraft.ts: persist, saveCopy, overwrite, activate;               *)
(* ComicWorkspace.tsx: run, perform), as long as the user restores no       *)
(* backup while an action is under way and opens no other document while a  *)
(* reference is uploaded.                                                   *)
THEOREM EditorKnowsItsDraft ==
  ASSUME Promises \subseteq Kept
  PROVE  Spec => []EditorAgrees
<1> DEFINE Inv == EditorInv /\ StackInv /\ TypesInv /\ OriginInv
<1>1. Init => Inv
  BY EditorStart, TypesStart, OriginStart
<1>2. Inv /\ [Next]_vars => Inv'
  BY EditorStep, StackStep, TypesStep, OriginStep
<1>3. Inv => EditorAgrees
  BY TypesSuffice DEF EditorInv, DialogInv, StackInv, OriginInv, Promised, Steady, Promises, ConflictIsReal,
       EditorAgrees
<1> HIDE DEF Inv
<1> QED BY <1>1, <1>2, <1>3, PTL DEF Spec

(* A submission whose answer was lost makes no second job when the same     *)
(* request is sent again, not even after the page was left: the attempt     *)
(* kept in memory or in local storage still names the key of the first      *)
(* (useComicGeneration.ts: submit).                                         *)
THEOREM LostIsNotPaidTwice == Spec => NoSecondJob
<1> DEFINE Inv == EditorInv /\ TypesInv /\ KeyInv
           Kind == \A j \in Jobs : job[j].status = "none" /\ job'[j].status # "none" => job'[j].payload # lost
<1>1. Init => Inv
  BY EditorStart, TypesStart
<1>2. Inv /\ [Next]_vars => Inv'
  BY EditorStep, TypesStep, KeyStep
<1>3. Inv /\ [Next]_vars => [Kind]_vars
  BY NotPaidTwice
<1>4. NoSecondJob <=> [][Kind]_vars
  BY DEF NoSecondJob
<1> HIDE DEF Inv, Kind
<1> QED BY <1>1, <1>2, <1>3, <1>4, PTL DEF Spec
=============================================================================
