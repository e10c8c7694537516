------------------------- MODULE EngineData_proofs --------------------------
(* What the engine shows and keeps for the user: clicks on candidate lists, *)
(* choices of the reranker, the one AI job, and the developer history; for  *)
(* any number of workers, sessions, readings, clients and writers.          *)
EXTENDS EngineData, Sequences, FiniteSetTheorems, FunctionTheorems, TLAPS

-----------------------------------------------------------------------------
(* What the helpers return.                                                 *)

LEMMA ListTypes ==
  ASSUME TypeOK, NEW w \in Workers, NEW n \in Nat
  PROVE  NoList \in Lists /\ Suggestion(w, n) \in Lists /\ Conversion(w, n) \in Lists
BY DEF TypeOK, States, Lists, Suggestion, Conversion, ListOf

LEMMA NothingTyped ==
  /\ NoList \in Lists
  /\ NoRequest \in ClickRequests
  /\ NoCommit \in [clicked : Lists, committed : Lists]
  /\ NoRequest.rev = 0
BY DEF Lists, NoRequest, ClickRequests, NoCommit

LEMMA RevGrows == TypeOK => ui.rev + 1 \in Nat \ {0}
BY DEF TypeOK, States

(* A session that has noticed the present history notices nothing more.     *)
LEMMA FreshTyped ==
  ASSUME TypeOK, NEW w \in Workers
  PROVE  LET s == Fresh(ui.sess[w]) IN
         /\ s \in SessionStates
         /\ s.observed = ui.learn
         /\ s.state = ui.sess[w].state
         /\ s.reading = ui.sess[w].reading
<1>1. ui.sess[w] \in SessionStates /\ ui.learn \in Nat
  BY DEF TypeOK, States
<1>2. CASE ui.sess[w].observed = ui.learn
  BY <1>1, <1>2 DEF Fresh, SessionStates
<1>3. CASE ui.sess[w].observed # ui.learn
  BY <1>1, <1>3, NothingTyped DEF Fresh, SessionStates
<1> QED
  BY <1>2, <1>3

LEMMA RowTyped ==
  ASSUME TypeOK, NEW w \in Workers
  PROVE  Row(w) \in Lists
<1> DEFINE s == Fresh(ui.sess[w])
<1>1. s \in SessionStates
  BY FreshTyped
<1>2. s.cache \in Lists /\ Conversion(w, s.reading) \in Lists /\ NoList \in Lists
  BY <1>1, ListTypes DEF SessionStates
<1> QED
  BY <1>2 DEF Row, RowNow

(* What takes the place of what took the place of a row takes its place.    *)
LEMMA FromListTrans ==
  ASSUME NEW list \in Lists, NEW row \in Lists, NEW next \in Lists,
         FromList(list, row), FromList(row, next)
  PROVE  FromList(list, next)
<1>1. CASE row = NoList
  BY <1>1 DEF FromList, RowOf, Renews, NoList
<1>2. CASE row = list \/ next = NoList \/ next = row
  BY <1>2 DEF FromList, RowOf
<1>3. CASE Renews(list, row) /\ Renews(row, next)
  <2>1. /\ list.kind = "convert" /\ row.kind = "convert" /\ next.kind = "convert"
        /\ row.who = list.who /\ row.of = list.of /\ next.who = row.who /\ next.of = row.of
        /\ row.learn >= list.learn /\ row.dict >= list.dict
        /\ next.learn >= row.learn /\ next.dict >= row.dict
    BY <1>3 DEF Renews
  <2>2. \A l \in Lists : l.kind = "convert" => l.learn \in Nat /\ l.dict \in Nat
    BY DEF Lists, NoList
  <2>3. /\ list.learn \in Nat /\ row.learn \in Nat /\ next.learn \in Nat
        /\ list.dict \in Nat /\ row.dict \in Nat /\ next.dict \in Nat
    BY <2>1, <2>2
  <2>4. next.learn >= list.learn /\ next.dict >= list.dict
    BY <2>1, <2>3
  <2> QED
    BY <2>1, <2>4 DEF FromList, RowOf, Renews
<1> QED
  BY <1>1, <1>2, <1>3 DEF FromList, RowOf

(* What a session would commit, while nobody serves it, stays a row of the  *)
(* same list: the very one, one that took its place in a conversion, or     *)
(* none where the history has moved under a suggestion.                     *)
LEMMA RowKept ==
  ASSUME TypeOK, NEW w \in Workers, ui'.sess[w] = ui.sess[w],
         ui'.dict \in {ui.dict, ui.dict + 1}, ui'.learn \in {ui.learn, ui.learn + 1}
  PROVE  FromList(Row(w), Row(w)') /\ Row(w)' \in Lists
<1> DEFINE s == ui.sess[w]
           f == Fresh(s)
           before == ListOf("convert", w, s.reading, ui.learn, ui.dict)
           after  == ListOf("convert", w, s.reading, ui'.learn, ui'.dict)
<1>1. /\ s \in SessionStates /\ s.reading \in Nat /\ s.observed \in Nat
      /\ ui.learn \in Nat /\ ui.dict \in Nat /\ s.observed <= ui.learn
  BY DEF TypeOK, States, SessionStates
<1>2. f \in SessionStates /\ f.state = s.state /\ f.reading = s.reading /\ f.cache \in Lists
  BY FreshTyped DEF SessionStates
<1>3. f'.state = s.state /\ f'.reading = s.reading /\ f'.cache \in {f.cache, NoList}
  <2>1. CASE ui'.learn = ui.learn
    BY <1>2, <2>1 DEF Fresh
  <2>2. CASE ui'.learn = ui.learn + 1
    <3>1. s.observed # ui'.learn
      BY <1>1, <2>2
    <3>2. f' = [s EXCEPT !.cache = NoList, !.observed = ui'.learn]
      BY <3>1 DEF Fresh
    <3> QED
      BY <1>1, <3>2 DEF SessionStates
  <2> QED
    BY <2>1, <2>2
<1>4. CASE s.state = "convert"
  <2>1. Row(w) = before
    BY <1>2, <1>4 DEF Row, RowNow, Conversion
  <2>2. Row(w)' = after
    BY <1>3, <1>4 DEF Row, RowNow, Conversion
  <2>3. /\ ui'.learn \in Nat /\ ui'.dict \in Nat
        /\ ui'.learn >= ui.learn /\ ui'.dict >= ui.dict
    BY <1>1
  <2>4. Renews(before, after)
    BY <2>3 DEF Renews, ListOf
  <2>5. after \in Lists
    BY <1>1, <2>3 DEF Lists, ListOf
  <2> QED
    BY <2>1, <2>2, <2>4, <2>5 DEF FromList, RowOf
<1>5. CASE s.state = "suggest"
  <2>1. Row(w) = f.cache /\ Row(w)' = f'.cache
    BY <1>2, <1>3, <1>5 DEF Row, RowNow
  <2> QED
    BY <1>2, <1>3, <2>1, NothingTyped DEF FromList, RowOf
<1>6. CASE s.state \notin {"convert", "suggest"}
  <2>1. Row(w)' = NoList
    BY <1>3, <1>6 DEF Row, RowNow
  <2> QED
    BY <2>1, NothingTyped DEF FromList
<1> QED
  BY <1>4, <1>5, <1>6

(* A session at rest commits nothing; one that has noticed the history      *)
(* commits its cache or its conversion.                                     *)
LEMMA RowThen ==
  ASSUME NEW w \in Workers, NEW s \in SessionStates, ui'.sess[w] = s,
         s.state = "idle" \/ s.observed = ui'.learn
  PROVE  Row(w)' = CASE s.state = "suggest" -> s.cache
                     [] s.state = "convert" -> ListOf("convert", w, s.reading, ui'.learn, ui'.dict)
                     [] OTHER -> NoList
<1>1. CASE s.observed = ui'.learn
  BY <1>1 DEF Row, RowNow, Fresh, Conversion
<1>2. CASE s.state = "idle" /\ s.observed # ui'.learn
  <2>1. Fresh(ui.sess[w])' = [s EXCEPT !.cache = NoList, !.observed = ui'.learn]
    BY <1>2 DEF Fresh
  <2>2. Fresh(ui.sess[w])'.state = "idle"
    BY <1>2, <2>1 DEF SessionStates
  <2> QED
    BY <1>2, <2>2 DEF Row, RowNow
<1> QED
  BY <1>1, <1>2

(* A worker that a step does not touch keeps to its rows, unless the step   *)
(* makes it the owner of another list.                                      *)
LEMMA FollowKept ==
  ASSUME TypeOK, RowsFollow, NEW w \in Workers,
         ui'.sess[w] = ui.sess[w], ui'.at[w] = ui.at[w], ui'.out[w] = ui.out[w],
         ui'.click[w] = ui.click[w],
         ui'.dict \in {ui.dict, ui.dict + 1}, ui'.learn \in {ui.learn, ui.learn + 1},
         ui'.owner = w => ui.owner = w /\ ui'.list = ui.list
  PROVE  Follows(w)'
<1>1. FromList(Row(w), Row(w)') /\ Row(w)' \in Lists /\ Row(w) \in Lists
  BY RowKept, RowTyped
<1>2. Follows(w)
  BY DEF RowsFollow
<1>3. ASSUME NEW list \in Lists, FromList(list, Row(w)) PROVE FromList(list, Row(w)')
  BY <1>1, <1>3, FromListTrans
<1>4. ui.list \in Lists /\ ui.out[w] \in Lists /\ ui.click[w].clicked \in Lists
  BY DEF TypeOK, States, ClickRequests
<1> QED
  BY <1>2, <1>3, <1>4 DEF Follows

(* A new revision names what the step makes of the list; a step that leaves *)
(* the revision leaves the list.                                            *)
LEMMA NamesKept ==
  ASSUME TypeOK, RevisionNamesList, ui'.seen = ui.seen, ui'.pending \in {ui.pending, NoRequest},
         \/ ui'.rev = ui.rev + 1
         \/ ui'.rev = ui.rev /\ ui'.list = ui.list /\ ui'.owner = ui.owner
  PROVE  RevisionNamesList'
<1>1. /\ ui.rev \in Nat \ {0} /\ ui.seen.rev \in Nat /\ ui.pending.rev \in Nat
      /\ ui.seen.rev <= ui.rev /\ ui.pending.rev <= ui.rev
  BY DEF TypeOK, States, RevisionNamesList, ClickRequests
<1>2. ui'.pending.rev \in {ui.pending.rev, 0}
  BY NothingTyped
<1>3. CASE ui'.rev = ui.rev + 1
  BY <1>1, <1>2, <1>3 DEF RevisionNamesList
<1>4. CASE ui'.rev = ui.rev /\ ui'.list = ui.list /\ ui'.owner = ui.owner
  <2>1. ui'.pending.rev = ui'.rev => ui'.pending = ui.pending
    BY <1>1, <1>4, NothingTyped
  <2> QED
    BY <1>1, <1>2, <1>4, <2>1 DEF RevisionNamesList
<1> QED
  BY <1>3, <1>4

-----------------------------------------------------------------------------
(* Each action keeps the invariant.                                         *)

LEMMA InitInv == ASSUME NoOne \notin Workers PROVE Init => IInv
<1> SUFFICES ASSUME Init PROVE IInv
  OBVIOUS
<1>1. NewSession \in SessionStates /\ NewSession.observed = 0 /\ NewSession.state = "idle"
  BY NothingTyped DEF NewSession, SessionStates
<1> DEFINE sessions == [w \in Workers |-> NewSession]
           places   == [w \in Workers |-> "rest"]
           nothing  == [w \in Workers |-> NoList]
           none     == [w \in Workers |-> NoRequest]
           drawn    == [rev |-> 1, list |-> NoList]
<1>a. /\ sessions \in [Workers -> SessionStates]
      /\ places \in [Workers -> {"rest", "output", "clear", "click"}]
      /\ nothing \in [Workers -> Lists]
      /\ none \in [Workers -> ClickRequests]
      /\ drawn \in [rev : Nat, list : Lists]
  BY <1>1, NothingTyped
<1>b. ui = [rev |-> 1, list |-> NoList, owner |-> NoOne, learned |-> 0,
            visible |-> FALSE, pending |-> NoRequest, sess |-> sessions, at |-> places,
            out |-> nothing, seen |-> drawn, polled |-> none, click |-> none,
            erase |-> "none", learn |-> 0, dict |-> 0, last |-> NoCommit]
  BY DEF Init
<1>3. \A w \in Workers : ui.sess[w].observed <= ui.learn
  <2>1. ui.sess = sessions /\ ui.learn = 0
    BY <1>b
  <2>2. \A w \in Workers : ui.sess[w] = NewSession
    BY <2>1
  <2>3. \A w \in Workers : ui.sess[w].observed = 0
    BY <1>1, <2>2
  <2>4. ui.learn = 0 /\ 0 <= 0
    BY <2>1
  <2> HIDE DEF sessions
  <2> QED
    BY <2>3, <2>4
<1> HIDE DEF sessions, places, nothing, none, drawn
<1>2. ui \in States
  BY <1>a, <1>b, NothingTyped DEF States
<1>4. RevisionNamesList
  BY NothingTyped DEF Init, RevisionNamesList
<1>5. RowsFollow
  BY DEF Init, RowsFollow, Follows
<1>6. ClickStaysWithItsList
  BY DEF Init, ClickStaysWithItsList, RowOf, NoCommit
<1> QED
  BY <1>2, <1>3, <1>4, <1>5, <1>6 DEF IInv, TypeOK

(* Keys: what a key answers is what its session would commit.               *)
LEMMA AnswersInv ==
  ASSUME IInv, NEW w \in Workers, NEW s \in SessionStates, NEW list \in Lists,
         NEW learn \in {ui.learn, ui.learn + 1}, s.observed <= ui.learn,
         ui' = [ui EXCEPT !.sess = [ui.sess EXCEPT ![w] = s], !.at = [ui.at EXCEPT ![w] = "output"],
                          !.out = [ui.out EXCEPT ![w] = list], !.learn = learn],
         FromList(list, Row(w)')
  PROVE  IInv'
<1> USE DEF IInv
<1>1. learn \in Nat /\ ui.learn <= learn
  BY DEF TypeOK, States
<1>2. ui' \in States
  BY <1>1 DEF TypeOK, States
<1>3. ASSUME NEW v \in Workers PROVE ui'.sess[v].observed <= ui'.learn
  <2>1. ui'.learn = learn /\ ui'.sess[v] \in {s, ui.sess[v]}
    BY DEF TypeOK, States
  <2>2. ui.sess[v].observed <= ui.learn /\ ui.sess[v].observed \in Nat /\ s.observed \in Nat
    BY DEF TypeOK, States, SessionStates
  <2> QED
    BY <1>1, <2>1, <2>2 DEF TypeOK, States
<1>4. RevisionNamesList'
  BY DEF TypeOK, States, RevisionNamesList
<1>5. ASSUME NEW v \in Workers PROVE Follows(v)'
  <2>1. CASE v = w
    <3>1. ui'.at[w] = "output" /\ ui'.out[w] = list
      BY DEF TypeOK, States
    <3> QED
      BY <2>1, <3>1 DEF Follows
  <2>2. CASE v # w
    BY <2>2, FollowKept DEF TypeOK, States
  <2> QED
    BY <2>1, <2>2
<1>6. ClickStaysWithItsList'
  BY DEF TypeOK, States, ClickStaysWithItsList
<1> QED
  BY <1>2, <1>3, <1>5, <1>4, <1>6 DEF TypeOK, RowsFollow

LEMMA TypeKeyInv == ASSUME IInv, NEW w \in Workers, TypeKey(w) PROVE IInv'
<1>1. PICK n \in {ui.sess[w].reading, ui.sess[w].reading + 1} \ {0} :
        LET s    == Fresh(ui.sess[w])
            same == n = s.reading /\ s.cache # NoList /\ s.state = "suggest"
            list == IF same THEN s.cache ELSE Suggestion(w, n)
        IN Answers(w, [s EXCEPT !.state = "suggest", !.reading = n, !.cache = list], list)
  BY DEF TypeKey
<1> DEFINE s    == Fresh(ui.sess[w])
           same == n = s.reading /\ s.cache # NoList /\ s.state = "suggest"
           list == IF same THEN s.cache ELSE Suggestion(w, n)
           t    == [s EXCEPT !.state = "suggest", !.reading = n, !.cache = list]
<1>2. TypeOK /\ ui.sess[w] \in SessionStates /\ ui.learn \in Nat
  BY DEF IInv, TypeOK, States
<1>3. s \in SessionStates /\ s.observed = ui.learn
  BY <1>2, FreshTyped
<1>4. n \in Nat
  BY <1>2 DEF SessionStates
<1>5. list \in Lists
  BY <1>2, <1>3, <1>4, ListTypes DEF SessionStates
<1>6. Answers(w, t, list)
  BY <1>1
<1> HIDE DEF s, list
<1>7. t \in SessionStates /\ t.observed = ui.learn /\ t.state = "suggest" /\ t.cache = list
  BY <1>3, <1>4, <1>5 DEF SessionStates
<1> HIDE DEF t
<1>8. ui' = [ui EXCEPT !.sess = [ui.sess EXCEPT ![w] = t], !.at = [ui.at EXCEPT ![w] = "output"],
                       !.out = [ui.out EXCEPT ![w] = list], !.learn = ui.learn]
  BY <1>2, <1>6 DEF Answers, TypeOK, States
<1>9. ui'.sess[w] = t /\ ui'.learn = ui.learn
  BY <1>2, <1>8 DEF TypeOK, States
<1>c. t.observed <= ui.learn
  BY <1>2, <1>7
<1>10. FromList(list, Row(w)')
  BY <1>7, <1>9, RowThen DEF FromList, RowOf
<1> QED
  BY <1>2, <1>5, <1>7, <1>8, <1>10, <1>c, AnswersInv

LEMMA ConvertKeyInv == ASSUME IInv, NEW w \in Workers, ConvertKey(w) PROVE IInv'
<1> DEFINE s    == Fresh(ui.sess[w])
           list == Conversion(w, s.reading)
           t    == [s EXCEPT !.state = "convert"]
<1>1. Answers(w, t, list)
  BY DEF ConvertKey
<1>2. TypeOK /\ ui.learn \in Nat /\ ui.dict \in Nat
  BY DEF IInv, TypeOK, States
<1>3. s \in SessionStates /\ s.observed = ui.learn
  BY <1>2, FreshTyped
<1>4. s.reading \in Nat
  BY <1>3 DEF SessionStates
<1>5. list \in Lists
  BY <1>2, <1>4, ListTypes
<1> HIDE DEF s
<1>6. t \in SessionStates /\ t.observed = ui.learn /\ t.state = "convert" /\ t.reading = s.reading
  BY <1>3 DEF SessionStates
<1> HIDE DEF t
<1>7. ui' = [ui EXCEPT !.sess = [ui.sess EXCEPT ![w] = t], !.at = [ui.at EXCEPT ![w] = "output"],
                       !.out = [ui.out EXCEPT ![w] = list], !.learn = ui.learn]
  BY <1>1, <1>2 DEF Answers, TypeOK, States
<1>8. ui'.sess[w] = t /\ ui'.learn = ui.learn /\ ui'.dict = ui.dict
  BY <1>2, <1>7 DEF TypeOK, States
<1>c. t.observed <= ui.learn
  BY <1>2, <1>6
<1>9. Row(w)' = list
  BY <1>6, <1>8, RowThen DEF Conversion
<1>10. FromList(list, Row(w)')
  BY <1>9 DEF FromList, RowOf
<1> QED
  BY <1>2, <1>5, <1>6, <1>7, <1>10, <1>c, AnswersInv

LEMMA EndKeyInv == ASSUME IInv, NEW w \in Workers, EndKey(w) PROVE IInv'
<1>1. PICK learns \in BOOLEAN :
        ui' = [ui EXCEPT !.sess[w] = [Fresh(@) EXCEPT !.state = "idle", !.cache = NoList],
                         !.at[w] = "output", !.out[w] = NoList,
                         !.learn = IF learns THEN @ + 1 ELSE @]
  BY DEF EndKey
<1> DEFINE s == Fresh(ui.sess[w])
           t == [s EXCEPT !.state = "idle", !.cache = NoList]
           m == IF learns THEN ui.learn + 1 ELSE ui.learn
<1>2. TypeOK /\ ui.learn \in Nat
  BY DEF IInv, TypeOK, States
<1>3. s \in SessionStates /\ s.observed = ui.learn
  BY <1>2, FreshTyped
<1>4. ui' = [ui EXCEPT !.sess = [ui.sess EXCEPT ![w] = t], !.at = [ui.at EXCEPT ![w] = "output"],
                       !.out = [ui.out EXCEPT ![w] = NoList], !.learn = m]
  BY <1>1, <1>2 DEF TypeOK, States
<1> HIDE DEF s
<1>5. t \in SessionStates /\ t.observed = ui.learn /\ t.state = "idle"
  BY <1>3, NothingTyped DEF SessionStates
<1>6. m \in {ui.learn, ui.learn + 1}
  OBVIOUS
<1> HIDE DEF t, m
<1>7. ui'.sess[w] = t
  BY <1>2, <1>4 DEF TypeOK, States
<1>c. t.observed <= ui.learn
  BY <1>2, <1>5
<1>8. FromList(NoList, Row(w)')
  BY <1>5, <1>7, RowThen DEF FromList
<1> QED
  BY <1>2, <1>4, <1>5, <1>6, <1>8, <1>c, NothingTyped, AnswersInv

(* Showing an answer: nothing is done, or the board becomes w's list.       *)
LEMMA PublishOutputInv ==
  ASSUME IInv, NoOne \notin Workers, NEW w \in Workers, PublishOutput(w) PROVE IInv'
<1> USE DEF IInv
<1> DEFINE list  == ui.out[w]
           owner == IF list = NoList THEN NoOne ELSE w
           learned == IF list = NoList THEN 0 ELSE ui.learn
           rest  == [ui.at EXCEPT ![w] = "rest"]
           shed  == [ui.out EXCEPT ![w] = NoList]
           vis   == ui.visible /\ ui.owner = owner /\ list # NoList
           quiet == (list = NoList /\ ui.owner # w) \/ <<ui.list, ui.owner, ui.learned>> = <<list, owner, learned>>
<1>1. /\ list \in Lists /\ owner \in Workers \cup {NoOne} /\ learned \in Nat /\ vis \in BOOLEAN
      /\ rest \in [Workers -> {"rest", "output", "clear", "click"}] /\ shed \in [Workers -> Lists]
  BY NothingTyped DEF TypeOK, States
<1>2. ui.at[w] = "output" /\ Follows(w)
  BY DEF PublishOutput, RowsFollow
<1>3. CASE quiet
  <2>1. ui' = [ui EXCEPT !.at = rest, !.out = shed]
    BY <1>3 DEF PublishOutput, TypeOK, States
  <2>2. quiet => (ui.owner = w => ui.list = list)
    OBVIOUS
  <2>q. quiet
    BY <1>3
  <2> HIDE DEF rest, shed, quiet
  <2>3. ui' \in States
    BY <1>1, <2>1 DEF TypeOK, States
  <2>4. TypeOK'
    BY <2>1, <2>3 DEF TypeOK, States
  <2>5. RevisionNamesList'
    BY <2>1, NamesKept DEF TypeOK, States
  <2>6. ASSUME NEW v \in Workers PROVE Follows(v)'
    <3>1. ui'.at[w] = "rest" /\ ui'.list = ui.list /\ ui'.owner = ui.owner
      BY <2>1 DEF TypeOK, States, rest
    <3>2. /\ FromList(Row(w), Row(w)') /\ Row(w)' \in Lists /\ Row(w) \in Lists
          /\ ui.out[w] \in Lists
      BY <2>1, RowKept, RowTyped DEF TypeOK, States
    <3>5. FromList(list, Row(w)')
      BY <1>2, <3>2, FromListTrans DEF Follows
    <3>3. CASE v = w
      BY <2>2, <2>q, <3>1, <3>3, <3>5 DEF Follows
    <3>4. CASE v # w
      BY <2>1, <3>4, FollowKept DEF TypeOK, States, rest, shed
    <3> QED
      BY <3>3, <3>4
  <2>7. ClickStaysWithItsList'
    BY <2>1 DEF TypeOK, States, ClickStaysWithItsList
  <2> QED
    BY <2>4, <2>5, <2>6, <2>7 DEF RowsFollow
<1>4. CASE ~quiet
  <2>1. ui' = [ui EXCEPT !.at = rest, !.out = shed, !.rev = ui.rev + 1, !.list = list,
                         !.owner = owner, !.learned = learned, !.visible = vis]
    <3> DEFINE done == [ui EXCEPT !.at[w] = "rest", !.out[w] = NoList]
    <3>1. ui' = [Bumps(done) EXCEPT !.list = list, !.owner = owner, !.learned = learned,
                   !.visible = @ /\ ui.owner = owner /\ list # NoList]
      BY <1>4 DEF PublishOutput
    <3>2. done = [ui EXCEPT !.at = rest, !.out = shed] /\ done.rev = ui.rev /\ done.visible = ui.visible
      BY DEF TypeOK, States
    <3>3. Bumps(done) = [done EXCEPT !.rev = ui.rev + 1]
      BY <3>2 DEF Bumps
    <3> HIDE DEF rest, shed, done, list, owner, learned
    <3>4. Bumps(done) = [ui EXCEPT !.at = rest, !.out = shed, !.rev = ui.rev + 1]
      BY <3>2, <3>3 DEF TypeOK, States
    <3>5. Bumps(done).visible = ui.visible
      BY <3>4 DEF TypeOK, States
    <3> QED
      BY <3>1, <3>4, <3>5 DEF TypeOK, States
  <2>2. owner \in {w, NoOne}
    OBVIOUS
  <2> HIDE DEF rest, shed, vis, learned, owner, list
  <2>3. ui' \in States
    <3> DEFINE half == [ui EXCEPT !.at = rest, !.out = shed, !.rev = ui.rev + 1]
    <3>0. ui.rev + 1 \in Nat \ {0}
      BY RevGrows
    <3>1. half \in States
      BY <1>1, <3>0 DEF TypeOK, States
    <3>2. ui' = [half EXCEPT !.list = list, !.owner = owner, !.learned = learned, !.visible = vis]
      BY <2>1
    <3> HIDE DEF half
    <3> QED
      BY <1>1, <3>1, <3>2 DEF States
  <2>4. TypeOK'
    BY <2>1, <2>3 DEF TypeOK, States
  <2>5. RevisionNamesList'
    BY <2>1, NamesKept DEF TypeOK, States
  <2>6. ASSUME NEW v \in Workers PROVE Follows(v)'
    <3>1. ui'.at[w] = "rest" /\ ui'.list = list /\ ui'.owner = owner
      BY <2>1 DEF TypeOK, States, rest
    <3>2. /\ FromList(Row(w), Row(w)') /\ Row(w)' \in Lists /\ Row(w) \in Lists
          /\ ui.out[w] \in Lists
      BY <2>1, RowKept, RowTyped DEF TypeOK, States
    <3>5. FromList(list, Row(w)')
      BY <1>2, <3>2, FromListTrans DEF Follows, list
    <3>3. CASE v = w
      BY <3>1, <3>3, <3>5 DEF Follows
    <3>4. CASE v # w
      <4>1. ui'.owner # v
        BY <2>2, <3>1, <3>4
      <4> QED
        BY <2>1, <3>4, <4>1, FollowKept DEF TypeOK, States, rest, shed
    <3> QED
      BY <3>3, <3>4
  <2>7. ClickStaysWithItsList'
    BY <2>1 DEF TypeOK, States, ClickStaysWithItsList
  <2> QED
    BY <2>4, <2>5, <2>6, <2>7 DEF RowsFollow
<1> QED
  BY <1>3, <1>4

(* A list and its owner gone from the board.                                *)
LEMMA ClearOwnedIs ==
  ASSUME TypeOK, NEW w \in Workers, NoOne \notin Workers
  PROVE  LET c == ClearOwned(ui, w) IN
         /\ c \in States
         /\ ui.owner # w => c = ui
         /\ ui.owner = w => c = [ui EXCEPT !.rev = ui.rev + 1, !.list = NoList, !.owner = NoOne,
                                   !.learned = 0, !.visible = FALSE, !.pending = NoRequest]
         /\ c.owner # w
         /\ \A f \in {"sess", "at", "out", "seen", "polled", "click", "learn", "dict", "last"} : c[f] = ui[f]
         /\ c.rev \in {ui.rev, ui.rev + 1} /\ c.pending \in {ui.pending, NoRequest}
         /\ c.rev = ui.rev => c.list = ui.list /\ c.owner = ui.owner
         /\ \A v \in Workers : c.owner = v => ui.owner = v /\ c.list = ui.list
<1> DEFINE c == ClearOwned(ui, w)
<1>0. ui \in States
  BY DEF TypeOK
<1>1. CASE ui.owner # w
  <2>1. c = ui
    BY <1>1 DEF ClearOwned
  <2> QED
    BY <1>0, <1>1, <2>1
<1>2. CASE ui.owner = w
  <2> DEFINE d == [ui EXCEPT !.rev = ui.rev + 1, !.list = NoList, !.owner = NoOne,
                             !.learned = 0, !.visible = FALSE, !.pending = NoRequest]
  <2>1. c = d
    <3> DEFINE hidden == [ui EXCEPT !.list = NoList, !.owner = NoOne, !.learned = 0, !.visible = FALSE]
    <3>1. Hidden(ui) = hidden /\ hidden.rev = ui.rev
      BY <1>0 DEF Hidden, States
    <3>2. c = [[hidden EXCEPT !.rev = ui.rev + 1] EXCEPT !.pending = NoRequest]
      BY <1>2, <3>1 DEF ClearOwned, Bumps
    <3> QED
      BY <1>0, <3>2 DEF States
  <2> HIDE DEF c
  <2>2. d \in States
    <3> DEFINE half == [ui EXCEPT !.rev = ui.rev + 1, !.list = NoList, !.owner = NoOne]
    <3>1. half \in States
      BY <1>0, RevGrows, NothingTyped DEF States, TypeOK
    <3>2. d = [half EXCEPT !.learned = 0, !.visible = FALSE, !.pending = NoRequest]
      OBVIOUS
    <3> HIDE DEF half, d
    <3> QED
      BY <3>1, <3>2, NothingTyped DEF States
  <2>3. /\ d.rev = ui.rev + 1 /\ d.owner = NoOne /\ d.pending = NoRequest
        /\ \A f \in {"sess", "at", "out", "seen", "polled", "click", "learn", "dict", "last"} : d[f] = ui[f]
    BY <1>0 DEF States
  <2>4. ui.rev \in Nat
    BY <1>0 DEF States
  <2>5. d.rev # ui.rev
    BY <2>3, <2>4
  <2> HIDE DEF d
  <2>6. c = [ui EXCEPT !.rev = ui.rev + 1, !.list = NoList, !.owner = NoOne,
                       !.learned = 0, !.visible = FALSE, !.pending = NoRequest]
    BY <2>1 DEF d
  <2> QED
    BY <1>2, <2>1, <2>2, <2>3, <2>5, <2>6 DEF c
<1> QED
  BY <1>1, <1>2

(* A connection ends.                                                       *)
LEMMA LoseInv == ASSUME IInv, NoOne \notin Workers, NEW w \in Workers, Lose(w) PROVE IInv'
<1> USE DEF IInv
<1> DEFINE c == ClearOwned(ui, w)
           t == [NewSession EXCEPT !.reading = ui.sess[w].reading, !.observed = ui.sess[w].observed]
           at == [ui.at EXCEPT ![w] = "rest"]
           out == [ui.out EXCEPT ![w] = NoList]
           click == [ui.click EXCEPT ![w] = NoRequest]
           polled == [ui.polled EXCEPT ![w] = NoRequest]
           sess == [ui.sess EXCEPT ![w] = t]
<1>1. /\ c \in States
      /\ c.owner # w
      /\ c.sess = ui.sess /\ c.at = ui.at /\ c.out = ui.out /\ c.seen = ui.seen /\ c.polled = ui.polled
      /\ c.click = ui.click /\ c.learn = ui.learn /\ c.dict = ui.dict /\ c.last = ui.last
      /\ c.rev \in {ui.rev, ui.rev + 1} /\ c.pending \in {ui.pending, NoRequest}
      /\ c.rev = ui.rev => c.list = ui.list /\ c.owner = ui.owner
      /\ \A v \in Workers : c.owner = v => ui.owner = v /\ c.list = ui.list
  BY ClearOwnedIs
<1>2. ui' = [c EXCEPT !.at[w] = "rest", !.out[w] = NoList, !.click[w] = NoRequest,
               !.polled[w] = NoRequest, !.sess[w] = t]
  BY DEF Lose
<1> HIDE DEF c
<1>3. ui' = [c EXCEPT !.at = at, !.out = out, !.click = click, !.polled = polled, !.sess = sess]
  BY <1>1, <1>2 DEF States
<1>4. t \in SessionStates /\ t.state = "idle" /\ t.observed = ui.sess[w].observed
  BY NothingTyped DEF TypeOK, States, SessionStates, NewSession
<1> HIDE DEF t
<1>5. /\ at \in [Workers -> {"rest", "output", "clear", "click"}] /\ out \in [Workers -> Lists]
      /\ click \in [Workers -> ClickRequests] /\ polled \in [Workers -> ClickRequests]
      /\ sess \in [Workers -> SessionStates]
  BY <1>4, NothingTyped DEF TypeOK, States
<1>6. /\ at[w] = "rest" /\ sess[w] = t
      /\ \A v \in Workers : v # w => /\ at[v] = ui.at[v] /\ sess[v] = ui.sess[v]
                                     /\ out[v] = ui.out[v] /\ click[v] = ui.click[v]
  BY DEF TypeOK, States
<1> HIDE DEF at, out, click, polled, sess
<1>7. /\ ui'.at = at /\ ui'.out = out /\ ui'.click = click /\ ui'.sess = sess
      /\ ui'.rev = c.rev /\ ui'.list = c.list /\ ui'.owner = c.owner /\ ui'.pending = c.pending
      /\ ui'.seen = ui.seen /\ ui'.learn = ui.learn /\ ui'.dict = ui.dict /\ ui'.last = ui.last
  BY <1>1, <1>3 DEF States
<1>8. ui' \in States
  BY <1>1, <1>3, <1>5 DEF States
<1>9. ASSUME NEW v \in Workers PROVE ui'.sess[v].observed <= ui'.learn
  BY <1>4, <1>6, <1>7 DEF TypeOK
<1>10. RevisionNamesList'
  BY <1>1, <1>7, NamesKept
<1>11. ASSUME NEW v \in Workers PROVE Follows(v)'
  <2>1. CASE v = w
    BY <1>1, <1>6, <1>7, <2>1 DEF Follows
  <2>2. CASE v # w
    BY <1>1, <1>6, <1>7, <2>2, FollowKept
  <2> QED
    BY <2>1, <2>2
<1>12. ClickStaysWithItsList'
  BY <1>7 DEF ClickStaysWithItsList
<1> QED
  BY <1>8, <1>9, <1>10, <1>11, <1>12 DEF TypeOK, RowsFollow

(* A step that touches neither a session nor what a worker is about.        *)
LEMMA BoardStep ==
  ASSUME IInv, ui' \in States, RevisionNamesList',
         ui'.sess = ui.sess, ui'.at = ui.at, ui'.out = ui.out, ui'.click = ui.click,
         ui'.last = ui.last,
         ui'.dict \in {ui.dict, ui.dict + 1}, ui'.learn \in {ui.learn, ui.learn + 1},
         \A v \in Workers : ui'.owner = v => ui.owner = v /\ ui'.list = ui.list
  PROVE  IInv'
<1>1. ASSUME NEW v \in Workers PROVE ui'.sess[v].observed <= ui'.learn
  <2>1. ui.sess[v].observed <= ui.learn /\ ui.sess[v].observed \in Nat /\ ui.learn \in Nat
    BY DEF IInv, TypeOK, States, SessionStates
  <2> QED
    BY <2>1
<1>2. ASSUME NEW v \in Workers PROVE Follows(v)'
  BY FollowKept DEF IInv
<1>3. ClickStaysWithItsList'
  BY DEF IInv, ClickStaysWithItsList
<1> QED
  BY <1>1, <1>2, <1>3 DEF IInv, TypeOK, RowsFollow

LEMMA PlaceInv == ASSUME IInv, NEW w \in Workers, Place(w) PROVE IInv'
<1>1. TypeOK /\ ui \in States /\ RevisionNamesList
  BY DEF IInv, TypeOK
<1>2. ui' = [ui EXCEPT !.rev = ui.rev + 1, !.visible = ~ui.visible]
  <2>1. Bumps(ui) = [ui EXCEPT !.rev = ui.rev + 1] /\ Bumps(ui).visible = ui.visible
    BY <1>1 DEF Bumps, States
  <2> QED
    BY <2>1 DEF Place
<1>3. ui' \in States
  <2>1. ui.rev + 1 \in Nat \ {0} /\ (~ui.visible) \in BOOLEAN
    BY <1>1, RevGrows
  <2> QED
    BY <1>1, <1>2, <2>1 DEF States
<1>4. /\ ui'.rev = ui.rev + 1 /\ ui'.list = ui.list /\ ui'.owner = ui.owner /\ ui'.seen = ui.seen
      /\ ui'.pending = ui.pending /\ ui'.sess = ui.sess /\ ui'.at = ui.at /\ ui'.out = ui.out
      /\ ui'.click = ui.click /\ ui'.dict = ui.dict /\ ui'.last = ui.last /\ ui'.learn = ui.learn
  BY <1>1, <1>2 DEF States
<1>5. RevisionNamesList'
  BY <1>1, <1>4, NamesKept
<1> QED
  BY <1>3, <1>4, <1>5, BoardStep

LEMMA RefreshInv == ASSUME IInv, Refresh PROVE IInv'
<1>1. TypeOK /\ ui \in States /\ RevisionNamesList
  BY DEF IInv, TypeOK
<1>2. ui' = [ui EXCEPT !.rev = ui.rev + 1]
  BY DEF Refresh, Bumps
<1>3. ui' \in States
  BY <1>1, <1>2, RevGrows DEF States
<1>4. /\ ui'.rev = ui.rev + 1 /\ ui'.list = ui.list /\ ui'.owner = ui.owner /\ ui'.seen = ui.seen
      /\ ui'.pending = ui.pending /\ ui'.sess = ui.sess /\ ui'.at = ui.at /\ ui'.out = ui.out
      /\ ui'.click = ui.click /\ ui'.dict = ui.dict /\ ui'.last = ui.last /\ ui'.learn = ui.learn
  BY <1>1, <1>2 DEF States
<1>5. RevisionNamesList'
  BY <1>1, <1>4, NamesKept
<1> QED
  BY <1>3, <1>4, <1>5, BoardStep

(* The renderer draws what the revision names, and clicks on what it draws. *)
LEMMA WatchInv == ASSUME IInv, Watch PROVE IInv'
<1>1. TypeOK /\ ui \in States /\ RevisionNamesList
  BY DEF IInv, TypeOK
<1>2. ui' = [ui EXCEPT !.seen = [rev |-> ui.rev, list |-> ui.list]]
  BY DEF Watch
<1>3. ui' \in States
  BY <1>1, <1>2 DEF States
<1>4. /\ ui'.rev = ui.rev /\ ui'.list = ui.list /\ ui'.owner = ui.owner
      /\ ui'.seen.rev = ui.rev /\ ui'.seen.list = ui.list
      /\ ui'.pending = ui.pending /\ ui'.sess = ui.sess /\ ui'.at = ui.at /\ ui'.out = ui.out
      /\ ui'.click = ui.click /\ ui'.dict = ui.dict /\ ui'.last = ui.last /\ ui'.learn = ui.learn
  BY <1>1, <1>2 DEF States
<1>5. ui.rev <= ui.rev
  BY <1>1 DEF States
<1>6. RevisionNamesList'
  BY <1>1, <1>4, <1>5 DEF RevisionNamesList
<1> QED
  BY <1>3, <1>4, <1>6, BoardStep

LEMMA QueueClickInv == ASSUME IInv, QueueClick PROVE IInv'
<1> DEFINE wish == [rev |-> ui.rev, owner |-> ui.owner, clicked |-> ui.seen.list]
<1>1. TypeOK /\ ui \in States /\ RevisionNamesList /\ ui.seen.rev = ui.rev
  BY DEF IInv, TypeOK, QueueClick
<1>2. ui' = [ui EXCEPT !.pending = wish]
  BY DEF QueueClick
<1>3. wish \in ClickRequests /\ wish.rev = ui.rev /\ wish.owner = ui.owner /\ wish.clicked = ui.list
  BY <1>1 DEF States, ClickRequests, RevisionNamesList
<1> HIDE DEF wish
<1>4. ui' \in States
  BY <1>1, <1>2, <1>3 DEF States
<1>5. /\ ui'.rev = ui.rev /\ ui'.list = ui.list /\ ui'.owner = ui.owner
      /\ ui'.seen = ui.seen /\ ui'.pending = wish
      /\ ui'.sess = ui.sess /\ ui'.at = ui.at /\ ui'.out = ui.out
      /\ ui'.click = ui.click /\ ui'.dict = ui.dict /\ ui'.last = ui.last /\ ui'.learn = ui.learn
  BY <1>1, <1>2 DEF States
<1>6. ui.rev <= ui.rev
  BY <1>1 DEF States
<1>7. RevisionNamesList'
  BY <1>1, <1>3, <1>5, <1>6 DEF RevisionNamesList
<1> QED
  BY <1>4, <1>5, <1>7, BoardStep

LEMMA PollInv == ASSUME IInv, NEW w \in Workers, Poll(w) PROVE IInv'
<1> DEFINE kept == IF Current(ui.pending) THEN ui.pending ELSE NoRequest
           known == IF Current(ui.pending) /\ ui.owner = w THEN ui.pending ELSE ui.polled[w]
           polled == [ui.polled EXCEPT ![w] = known]
<1>1. TypeOK /\ ui \in States /\ RevisionNamesList
  BY DEF IInv, TypeOK
<1>2. ui' = [ui EXCEPT !.pending = kept, !.polled = polled]
  BY <1>1 DEF Poll, States
<1>3. /\ kept \in {ui.pending, NoRequest} /\ kept \in ClickRequests
      /\ polled \in [Workers -> ClickRequests]
  BY <1>1, NothingTyped DEF States
<1> HIDE DEF kept, polled
<1>4. ui' \in States
  BY <1>1, <1>2, <1>3 DEF States
<1>5. /\ ui'.rev = ui.rev /\ ui'.list = ui.list /\ ui'.owner = ui.owner
      /\ ui'.seen = ui.seen /\ ui'.pending = kept
      /\ ui'.sess = ui.sess /\ ui'.at = ui.at /\ ui'.out = ui.out
      /\ ui'.click = ui.click /\ ui'.dict = ui.dict /\ ui'.last = ui.last /\ ui'.learn = ui.learn
  BY <1>1, <1>2 DEF States
<1>6. RevisionNamesList'
  BY <1>1, <1>3, <1>5, NamesKept
<1> QED
  BY <1>4, <1>5, <1>6, BoardStep

LEMMA LearnInv == ASSUME IInv, Learn \/ FindRow \/ ForgetRow PROVE IInv'
<1>1. TypeOK /\ ui \in States /\ RevisionNamesList
  BY DEF IInv, TypeOK
<1>2. PICK m \in {ui.learn, ui.learn + 1}, e \in {"none", "found", "forgotten", "done"} :
        ui' = [ui EXCEPT !.erase = e, !.learn = m]
  <2>1. CASE Learn
    <3>1. ui' = [ui EXCEPT !.erase = ui.erase, !.learn = ui.learn + 1]
      BY <1>1, <2>1 DEF Learn, States
    <3>2. ui.erase \in {"none", "found", "forgotten", "done"}
      BY <1>1 DEF States
    <3> QED
      BY <3>1, <3>2
  <2>2. CASE FindRow
    <3>1. ui' = [ui EXCEPT !.erase = "found", !.learn = ui.learn]
      BY <1>1, <2>2 DEF FindRow, States
    <3> QED
      BY <3>1
  <2>3. CASE ForgetRow
    BY <2>3 DEF ForgetRow
  <2> QED
    BY <2>1, <2>2, <2>3
<1>3. m \in Nat
  BY <1>1 DEF States
<1>4. ui' \in States
  BY <1>1, <1>2, <1>3 DEF States
<1>5. /\ ui'.rev = ui.rev /\ ui'.list = ui.list /\ ui'.owner = ui.owner /\ ui'.seen = ui.seen
      /\ ui'.pending = ui.pending /\ ui'.sess = ui.sess /\ ui'.at = ui.at /\ ui'.out = ui.out
      /\ ui'.click = ui.click /\ ui'.dict = ui.dict /\ ui'.last = ui.last /\ ui'.learn = m
  BY <1>1, <1>2 DEF States
<1>6. RevisionNamesList'
  BY <1>1, <1>5, NamesKept
<1> QED
  BY <1>4, <1>5, <1>6, BoardStep

LEMMA HideStaleInv == ASSUME IInv, NoOne \notin Workers, HideStale PROVE IInv'
<1> DEFINE done == [ui EXCEPT !.erase = "done"]
<1>1. TypeOK /\ ui \in States /\ RevisionNamesList
  BY DEF IInv, TypeOK
<1>2. CASE ui' = done
  <2>1. ui' \in States
    BY <1>1, <1>2 DEF States
  <2>2. /\ ui'.rev = ui.rev /\ ui'.list = ui.list /\ ui'.owner = ui.owner /\ ui'.seen = ui.seen
        /\ ui'.pending = ui.pending /\ ui'.sess = ui.sess /\ ui'.at = ui.at /\ ui'.out = ui.out
        /\ ui'.click = ui.click /\ ui'.dict = ui.dict /\ ui'.last = ui.last /\ ui'.learn = ui.learn
    BY <1>1, <1>2 DEF States
  <2>3. RevisionNamesList'
    BY <1>1, <2>2, NamesKept
  <2> QED
    BY <2>1, <2>2, <2>3, BoardStep
<1>3. CASE ui' = Bumps(Hidden(done))
  <2> DEFINE half == [done EXCEPT !.list = NoList, !.owner = NoOne]
             hidden == [half EXCEPT !.learned = 0, !.visible = FALSE]
  <2>1. half \in States
    BY <1>1, NothingTyped DEF States
  <2>2. Hidden(done) = hidden
    BY DEF Hidden
  <2>3. half.rev = ui.rev
    BY <1>1 DEF States
  <2>4. /\ half.list = NoList /\ half.owner = NoOne /\ half.seen = ui.seen
        /\ half.pending = ui.pending /\ half.sess = ui.sess /\ half.at = ui.at /\ half.out = ui.out
        /\ half.click = ui.click /\ half.dict = ui.dict /\ half.last = ui.last /\ half.learn = ui.learn
    BY <1>1 DEF States
  <2> HIDE DEF half
  <2>5. ui' = [half EXCEPT !.learned = 0, !.visible = FALSE, !.rev = ui.rev + 1]
    BY <1>3, <2>1, <2>2, <2>3 DEF Bumps, States
  <2>6. ui' \in States
    BY <1>1, <2>1, <2>5, RevGrows DEF States
  <2>7. /\ ui'.rev = ui.rev + 1 /\ ui'.owner = NoOne /\ ui'.seen = ui.seen
        /\ ui'.pending = ui.pending /\ ui'.sess = ui.sess /\ ui'.at = ui.at /\ ui'.out = ui.out
        /\ ui'.click = ui.click /\ ui'.dict = ui.dict /\ ui'.last = ui.last /\ ui'.learn = ui.learn
    BY <2>1, <2>4, <2>5 DEF States
  <2>8. RevisionNamesList'
    BY <1>1, <2>7, NamesKept
  <2> QED
    BY <2>6, <2>7, <2>8, BoardStep
<1> QED
  BY <1>2, <1>3 DEF HideStale

(* A step of w that leaves the board alone, or takes w's list from it:      *)
(* what w goes on with is its own, and the others are not touched.          *)
LEMMA WorkerStepInv ==
  ASSUME IInv, NEW w \in Workers, NEW s \in SessionStates,
         ui' \in States, RevisionNamesList', Follows(w)', ClickStaysWithItsList',
         ui'.sess = [ui.sess EXCEPT ![w] = s], s.observed <= ui.learn, ui'.learn = ui.learn,
         ui'.dict = ui.dict,
         \A v \in Workers : v # w => /\ ui'.at[v] = ui.at[v] /\ ui'.out[v] = ui.out[v]
                                     /\ ui'.click[v] = ui.click[v]
                                     /\ ui'.owner = v => ui.owner = v /\ ui'.list = ui.list
  PROVE  IInv'
<1>1. ASSUME NEW v \in Workers PROVE ui'.sess[v].observed <= ui'.learn
  BY DEF IInv, TypeOK, States
<1>2. ASSUME NEW v \in Workers PROVE Follows(v)'
  <2>1. CASE v = w
    BY <2>1
  <2>2. CASE v # w
    <3>1. ui'.sess[v] = ui.sess[v]
      BY <2>2 DEF IInv, TypeOK, States
    <3>2. /\ ui'.at[v] = ui.at[v] /\ ui'.out[v] = ui.out[v] /\ ui'.click[v] = ui.click[v]
          /\ ui'.owner = v => ui.owner = v /\ ui'.list = ui.list
      BY <2>2
    <3>3. TypeOK /\ RowsFollow
      BY DEF IInv
    <3> QED
      BY <3>1, <3>2, <3>3, FollowKept
  <2> QED
    BY <2>1, <2>2
<1> QED
  BY <1>1, <1>2 DEF IInv, TypeOK, RowsFollow

LEMMA RevertInv == ASSUME IInv, NEW w \in Workers, Revert(w) PROVE IInv'
<1> DEFINE s == Fresh(ui.sess[w])
           t == [s EXCEPT !.state = "idle"]
           sess == [ui.sess EXCEPT ![w] = t]
           at   == [ui.at EXCEPT ![w] = "clear"]
<1>1. TypeOK /\ ui \in States /\ RevisionNamesList /\ ClickStaysWithItsList /\ ui.learn \in Nat
  BY DEF IInv, TypeOK, States
<1>2. ui' = [ui EXCEPT !.sess = sess, !.at = at]
  BY <1>1 DEF Revert, States
<1>3. s \in SessionStates /\ s.observed = ui.learn
  BY <1>1, FreshTyped
<1> HIDE DEF s
<1>4. t \in SessionStates /\ t.observed = ui.learn
  BY <1>3 DEF SessionStates
<1>5. t.observed <= ui.learn
  BY <1>1, <1>4
<1> HIDE DEF t
<1>6. /\ sess \in [Workers -> SessionStates] /\ at \in [Workers -> {"rest", "output", "clear", "click"}]
      /\ at[w] = "clear" /\ \A v \in Workers : v # w => at[v] = ui.at[v]
  BY <1>1, <1>4 DEF States
<1> HIDE DEF at
<1>7. ui' \in States
  BY <1>1, <1>2, <1>6 DEF States
<1>8. /\ ui'.rev = ui.rev /\ ui'.list = ui.list /\ ui'.owner = ui.owner /\ ui'.seen = ui.seen
      /\ ui'.pending = ui.pending /\ ui'.sess = sess /\ ui'.at = at /\ ui'.out = ui.out
      /\ ui'.click = ui.click /\ ui'.dict = ui.dict /\ ui'.last = ui.last /\ ui'.learn = ui.learn
  BY <1>1, <1>2 DEF States
<1>9. RevisionNamesList' /\ ClickStaysWithItsList' /\ Follows(w)'
  BY <1>1, <1>6, <1>8, NamesKept DEF ClickStaysWithItsList, Follows
<1> QED
  BY <1>4, <1>5, <1>6, <1>7, <1>8, <1>9, WorkerStepInv

LEMMA ClearSessionInv == ASSUME IInv, NoOne \notin Workers, NEW w \in Workers, ClearSession(w) PROVE IInv'
<1> DEFINE c == ClearOwned(ui, w)
           at == [ui.at EXCEPT ![w] = "rest"]
<1>1. TypeOK /\ ui \in States /\ RevisionNamesList /\ ClickStaysWithItsList
  BY DEF IInv, TypeOK
<1>2. /\ c \in States
      /\ c.owner # w
      /\ c.sess = ui.sess /\ c.at = ui.at /\ c.out = ui.out /\ c.seen = ui.seen
      /\ c.click = ui.click /\ c.learn = ui.learn /\ c.dict = ui.dict /\ c.last = ui.last
      /\ c.rev \in {ui.rev, ui.rev + 1} /\ c.pending \in {ui.pending, NoRequest}
      /\ c.rev = ui.rev => c.list = ui.list /\ c.owner = ui.owner
      /\ \A v \in Workers : c.owner = v => ui.owner = v /\ c.list = ui.list
  BY <1>1, ClearOwnedIs
<1>3. ui' = [c EXCEPT !.at[w] = "rest"]
  BY DEF ClearSession
<1> HIDE DEF c
<1>4. ui' = [c EXCEPT !.at = at]
  BY <1>2, <1>3 DEF States
<1>5. /\ at \in [Workers -> {"rest", "output", "clear", "click"}]
      /\ at[w] = "rest" /\ \A v \in Workers : v # w => at[v] = ui.at[v]
  BY <1>1 DEF States
<1> HIDE DEF at
<1>6. ui' \in States
  BY <1>2, <1>4, <1>5 DEF States
<1>7. /\ ui'.rev = c.rev /\ ui'.list = c.list /\ ui'.owner = c.owner /\ ui'.seen = ui.seen
      /\ ui'.pending = c.pending /\ ui'.sess = ui.sess /\ ui'.at = at /\ ui'.out = ui.out
      /\ ui'.click = ui.click /\ ui'.dict = ui.dict /\ ui'.last = ui.last /\ ui'.learn = ui.learn
  BY <1>2, <1>4 DEF States
<1>8. RevisionNamesList' /\ ClickStaysWithItsList' /\ Follows(w)'
  BY <1>1, <1>2, <1>5, <1>7, NamesKept DEF ClickStaysWithItsList, Follows
<1>9. /\ ui.sess[w] \in SessionStates /\ ui.sess[w].observed <= ui.learn
      /\ ui'.sess = [ui.sess EXCEPT ![w] = ui.sess[w]]
  BY <1>1, <1>7 DEF TypeOK, States
<1> QED
  BY <1>2, <1>5, <1>6, <1>7, <1>8, <1>9, WorkerStepInv

(* The click is taken for the list that is on the board, which is what the  *)
(* session at rest would commit.                                            *)
LEMMA TakeClickInv == ASSUME IInv, NEW w \in Workers, TakeClick(w) PROVE IInv'
<1> DEFINE ok == Same(ui.pending, ui.polled[w]) /\ ui.pending.rev = ui.rev /\ ui.owner = w
           polled  == [ui.polled EXCEPT ![w] = NoRequest]
           pending == IF ok THEN NoRequest ELSE ui.pending
           click   == [ui.click EXCEPT ![w] = IF ok THEN ui.pending ELSE ui.click[w]]
           at      == [ui.at EXCEPT ![w] = IF ok THEN "click" ELSE ui.at[w]]
<1>1. TypeOK /\ ui \in States /\ RevisionNamesList /\ ClickStaysWithItsList /\ Follows(w) /\ ui.at[w] = "rest"
  BY DEF IInv, TypeOK, RowsFollow, TakeClick
<1>2. ui' = [ui EXCEPT !.polled = polled, !.pending = pending, !.click = click, !.at = at]
  BY <1>1 DEF TakeClick, States
<1>3. /\ polled \in [Workers -> ClickRequests] /\ click \in [Workers -> ClickRequests]
      /\ at \in [Workers -> {"rest", "output", "clear", "click"}]
      /\ pending \in ClickRequests /\ pending \in {ui.pending, NoRequest}
      /\ \A v \in Workers : v # w => at[v] = ui.at[v] /\ click[v] = ui.click[v]
  BY <1>1, NothingTyped DEF States
<1>4. /\ ok => at[w] = "click" /\ click[w].clicked = ui.list /\ ui.owner = w
      /\ ~ok => at[w] = "rest"
  BY <1>1 DEF RevisionNamesList, States
<1> HIDE DEF ok, polled, pending, click, at
<1>5. ui' \in States
  BY <1>1, <1>2, <1>3 DEF States
<1>6. /\ ui'.rev = ui.rev /\ ui'.list = ui.list /\ ui'.owner = ui.owner /\ ui'.seen = ui.seen
      /\ ui'.pending = pending /\ ui'.sess = ui.sess /\ ui'.at = at /\ ui'.out = ui.out
      /\ ui'.click = click /\ ui'.dict = ui.dict /\ ui'.last = ui.last /\ ui'.learn = ui.learn
  BY <1>1, <1>2 DEF States
<1>7. /\ FromList(Row(w), Row(w)') /\ Row(w)' \in Lists /\ Row(w) \in Lists
      /\ ui.list \in Lists
  BY <1>1, <1>6, RowKept, RowTyped DEF States
<1>8. RevisionNamesList' /\ ClickStaysWithItsList'
  BY <1>1, <1>3, <1>6, NamesKept DEF ClickStaysWithItsList
<1>9. Follows(w)'
  <2>1. ui.owner = w => FromList(ui.list, Row(w)')
    BY <1>1, <1>7, FromListTrans DEF Follows
  <2> QED
    BY <1>4, <1>6, <2>1 DEF Follows
<1>10. /\ ui.sess[w] \in SessionStates /\ ui.sess[w].observed <= ui.learn
       /\ ui'.sess = [ui.sess EXCEPT ![w] = ui.sess[w]]
  BY <1>1, <1>6 DEF TypeOK, States
<1> QED
  BY <1>3, <1>5, <1>6, <1>8, <1>9, <1>10, WorkerStepInv

(* A reload renews the conversions that are on the board or were clicked.   *)
LEMMA ReloadDictionaryInv == ASSUME IInv, ReloadDictionary PROVE IInv'
<1>1. TypeOK /\ ui \in States /\ RevisionNamesList
  BY DEF IInv, TypeOK
<1>2. ui' = [ui EXCEPT !.dict = ui.dict + 1]
  BY DEF ReloadDictionary
<1>3. ui' \in States
  <2>1. ui.dict + 1 \in Nat
    BY <1>1 DEF States
  <2> QED
    BY <1>1, <1>2, <2>1 DEF States
<1>4. /\ ui'.rev = ui.rev /\ ui'.list = ui.list /\ ui'.owner = ui.owner /\ ui'.seen = ui.seen
      /\ ui'.pending = ui.pending /\ ui'.sess = ui.sess /\ ui'.at = ui.at /\ ui'.out = ui.out
      /\ ui'.click = ui.click /\ ui'.last = ui.last /\ ui'.learn = ui.learn
      /\ ui'.dict = ui.dict + 1
  BY <1>1, <1>2 DEF States
<1>5. RevisionNamesList'
  BY <1>1, <1>4, NamesKept
<1> QED
  BY <1>3, <1>4, <1>5, BoardStep

(* What is committed is what the session has for it; a click that finds     *)
(* nothing is refused.                                                      *)
LEMMA CommitClickInv == ASSUME IInv, NEW w \in Workers, CommitClick(w) PROVE IInv'
<1> DEFINE s   == Fresh(ui.sess[w])
           row == RowNow(s, w)
           t   == [s EXCEPT !.state = "idle", !.cache = NoList]
           click == [ui.click EXCEPT ![w] = NoRequest]
<1>1. /\ TypeOK /\ ui \in States /\ RevisionNamesList /\ ClickStaysWithItsList /\ Follows(w)
      /\ ui.at[w] = "click" /\ ui.learn \in Nat
  BY DEF IInv, TypeOK, States, RowsFollow, CommitClick
<1>2. s \in SessionStates /\ s.observed = ui.learn
  BY <1>1, FreshTyped
<1>3. row = Row(w) /\ row \in Lists /\ FromList(ui.click[w].clicked, row)
  BY <1>1, RowTyped DEF Row, Follows
<1>4. click \in [Workers -> ClickRequests] /\ \A v \in Workers : v # w => click[v] = ui.click[v]
  BY <1>1, NothingTyped DEF States
<1>5. CASE row # NoList
  <2> DEFINE sess == [ui.sess EXCEPT ![w] = t]
             at   == [ui.at EXCEPT ![w] = "output"]
             out  == [ui.out EXCEPT ![w] = NoList]
             last == [clicked |-> ui.click[w].clicked, committed |-> row]
  <2>1. ui' = [ui EXCEPT !.sess = sess, !.at = at, !.out = out, !.click = click, !.last = last]
    BY <1>1, <1>5 DEF CommitClick, States
  <2>2. last \in [clicked : Lists, committed : Lists] /\ RowOf(last.clicked, last.committed)
    BY <1>1, <1>3, <1>5 DEF States, ClickRequests, FromList
  <2> HIDE DEF s, row, last, click
  <2>3. t \in SessionStates /\ t.observed = ui.learn /\ t.state = "idle"
    BY <1>2, NothingTyped DEF SessionStates
  <2>4. t.observed <= ui.learn
    BY <1>1, <2>3
  <2> HIDE DEF t
  <2>5. /\ sess \in [Workers -> SessionStates] /\ sess[w] = t
        /\ at \in [Workers -> {"rest", "output", "clear", "click"}] /\ at[w] = "output"
        /\ out \in [Workers -> Lists]
        /\ \A v \in Workers : v # w => at[v] = ui.at[v] /\ out[v] = ui.out[v]
    BY <1>1, <2>3, NothingTyped DEF States
  <2> HIDE DEF at, out
  <2>6. ui' \in States
    BY <1>1, <1>4, <2>1, <2>2, <2>5 DEF States
  <2>7. /\ ui'.rev = ui.rev /\ ui'.list = ui.list /\ ui'.owner = ui.owner /\ ui'.seen = ui.seen
        /\ ui'.pending = ui.pending /\ ui'.sess = sess /\ ui'.at = at /\ ui'.out = out
        /\ ui'.click = click /\ ui'.dict = ui.dict /\ ui'.last = last /\ ui'.learn = ui.learn
    BY <1>1, <2>1 DEF States
  <2>8. Row(w)' = NoList
    BY <2>3, <2>5, <2>7, RowThen
  <2>9. RevisionNamesList' /\ ClickStaysWithItsList' /\ Follows(w)'
    BY <1>1, <2>2, <2>5, <2>7, <2>8, NamesKept DEF ClickStaysWithItsList, Follows, FromList
  <2> QED
    BY <1>4, <2>3, <2>4, <2>5, <2>6, <2>7, <2>9, WorkerStepInv
<1>6. CASE row = NoList
  <2> DEFINE sess == [ui.sess EXCEPT ![w] = s]
             at   == [ui.at EXCEPT ![w] = "rest"]
             refused == [ui EXCEPT !.sess = sess, !.at = at, !.click = click]
  <2>1. \/ ui' = refused
        \/ ui' = [Bumps(refused) EXCEPT !.pending = NoRequest]
    BY <1>1, <1>6 DEF CommitClick, States
  <2>2. s.observed <= ui.learn
    BY <1>1, <1>2
  <2>3. Row(w) = NoList
    BY <1>3, <1>6
  <2> HIDE DEF s, row, click
  <2>4. /\ sess \in [Workers -> SessionStates] /\ sess[w] = s
        /\ at \in [Workers -> {"rest", "output", "clear", "click"}] /\ at[w] = "rest"
        /\ \A v \in Workers : v # w => at[v] = ui.at[v]
    BY <1>1, <1>2 DEF States
  <2> HIDE DEF at
  <2>5. refused \in States
    BY <1>1, <1>4, <2>4 DEF States
  <2>6. /\ refused.rev = ui.rev /\ refused.list = ui.list /\ refused.owner = ui.owner /\ refused.seen = ui.seen
        /\ refused.pending = ui.pending /\ refused.sess = sess /\ refused.at = at /\ refused.out = ui.out
        /\ refused.click = click /\ refused.dict = ui.dict /\ refused.last = ui.last /\ refused.learn = ui.learn
    BY <1>1 DEF States
  <2> HIDE DEF refused
  <2>7. /\ ui' \in States
        /\ ui'.rev = ui.rev \/ ui'.rev = ui.rev + 1
        /\ ui'.list = ui.list /\ ui'.owner = ui.owner /\ ui'.seen = ui.seen
        /\ ui'.pending \in {ui.pending, NoRequest} /\ ui'.sess = sess /\ ui'.at = at /\ ui'.out = ui.out
        /\ ui'.click = click /\ ui'.dict = ui.dict /\ ui'.last = ui.last /\ ui'.learn = ui.learn
    <3>1. CASE ui' = refused
      BY <2>5, <2>6, <3>1
    <3>2. CASE ui' = [Bumps(refused) EXCEPT !.pending = NoRequest]
      <4>1. ui' = [refused EXCEPT !.rev = ui.rev + 1, !.pending = NoRequest]
        BY <2>5, <2>6, <3>2 DEF Bumps, States
      <4>2. ui' \in States
        BY <1>1, <2>5, <4>1, RevGrows, NothingTyped DEF States
      <4> QED
        BY <2>5, <2>6, <4>1, <4>2 DEF States
    <3> QED
      BY <2>1, <3>1, <3>2
  <2>8. Row(w)' = NoList
    <3>1. Row(w)' = CASE s.state = "suggest" -> s.cache
                      [] s.state = "convert" -> ListOf("convert", w, s.reading, ui'.learn, ui'.dict)
                      [] OTHER -> NoList
      BY <1>2, <2>4, <2>7, RowThen
    <3> QED
      BY <2>3, <2>7, <3>1 DEF Row, RowNow, Conversion, s
  <2>9. RevisionNamesList' /\ ClickStaysWithItsList' /\ Follows(w)'
    BY <1>1, <2>4, <2>7, <2>8, NamesKept DEF ClickStaysWithItsList, Follows, FromList
  <2> QED
    BY <1>2, <1>4, <2>2, <2>4, <2>7, <2>9, WorkerStepInv
<1> QED
  BY <1>5, <1>6

-----------------------------------------------------------------------------

LEMMA NextInv == ASSUME IInv, NoOne \notin Workers, Next PROVE IInv'
<1>1. ASSUME NEW w \in Workers, WorkerStep(w) PROVE IInv'
  BY <1>1, TypeKeyInv, ConvertKeyInv, EndKeyInv, PublishOutputInv, LoseInv, RevertInv,
     ClearSessionInv, PlaceInv, PollInv, TakeClickInv, CommitClickInv DEF WorkerStep
<1> QED
  BY <1>1, RefreshInv, WatchInv, QueueClickInv, LearnInv, ReloadDictionaryInv, HideStaleInv DEF Next

(* The invariant holds throughout: a revision names one list, and what a    *)
(* session would commit is a row of what it shows, is about to show or was  *)
(* clicked, or nothing (server.rs, ui.rs, dispatch.rs).                     *)
THEOREM ClickInvariance == ASSUME NoOne \notin Workers PROVE Spec => []IInv
<1>1. Init => IInv
  BY InitInv
<1>2. IInv /\ [Next]_ui => IInv'
  <2>1. CASE UNCHANGED ui
    BY <2>1 DEF IInv, TypeOK, RevisionNamesList, RowsFollow, Follows, Row, RowNow, Fresh, Conversion,
       ClickStaysWithItsList
  <2> QED
    BY <2>1, NextInv
<1> QED
  BY <1>1, <1>2, PTL DEF Spec

(* A click commits a row of the list that was clicked on: of a suggestion   *)
(* list the very row, of a conversion the row that has taken its place in   *)
(* the same conversion, whatever happens to the board, the session, the     *)
(* history and the dictionary in between (ui.rs, take_candidate_commit;     *)
(* dispatch.rs, commit_candidate).                                          *)
THEOREM ClickCorrect == ASSUME NoOne \notin Workers PROVE Spec => []ClickStaysWithItsList
<1>1. IInv => ClickStaysWithItsList
  BY DEF IInv
<1> QED
  BY <1>1, ClickInvariance, PTL

-----------------------------------------------------------------------------
(* A choice of the reranker is used for the candidates it was scored among. *)

LEMMA RerankFacts ==
  /\ R!NoWork \in R!Works /\ R!NoResult \in R!Results \intersect R!Questions /\ "none" \in R!Sets
  /\ \A s \in Sessions, gen \in Nat, reading \in Readings :
       LET work == [session |-> s, gen |-> gen, reading |-> reading]
       IN  work \in R!Works /\ work # R!NoWork
  /\ \A work \in R!Works : work # R!NoWork => work.reading \in Readings
  /\ \A reading \in Readings \union {"none"}, dict \in Nat : <<reading, dict>> \in R!Sets
  /\ \A state \in {"Ready", "Applied", "Kept", "LocalFallback", "Failed", "TimedOut"},
        key \in R!Works, set, scores \in R!Sets :
       [state |-> state, key |-> key, set |-> set, scores |-> scores] \in R!Results
  /\ \A result \in R!Results : result.state # "none" =>
       /\ result = [state |-> result.state, key |-> result.key, set |-> result.set,
                    scores |-> result.scores]
       /\ result.key \in R!Works /\ {result.set, result.scores} \subseteq R!Sets
       /\ result.state \in {"Ready", "Applied", "Kept", "LocalFallback", "Failed", "TimedOut"}
  /\ R!NoResult.state = "none" /\ R!NoResult \in R!Questions
<1>1. R!NoWork \in R!Works /\ R!NoResult \in R!Results \intersect R!Questions /\ "none" \in R!Sets
  BY DEF R!Works, R!Results, R!Sets, R!Questions
<1>2. \A s \in Sessions, gen \in Nat, reading \in Readings :
        LET work == [session |-> s, gen |-> gen, reading |-> reading]
        IN  work \in R!Works /\ work # R!NoWork
  <2>1. ASSUME NEW s \in Sessions, NEW gen \in Nat, NEW reading \in Readings
        PROVE  [session |-> s, gen |-> gen, reading |-> reading] \in R!Works
    BY DEF R!Works
  <2>2. ASSUME NEW s \in Sessions, NEW gen \in Nat, NEW reading \in Readings
        PROVE  [session |-> s, gen |-> gen, reading |-> reading] # [session |-> "none"]
    <3>1. "gen" \in DOMAIN [session |-> s, gen |-> gen, reading |-> reading]
      OBVIOUS
    <3>2. "gen" \notin DOMAIN [session |-> "none"]
      OBVIOUS
    <3> QED
      BY <3>1, <3>2
  <2> QED
    BY <2>1, <2>2 DEF R!NoWork
<1>3. \A work \in R!Works : work # R!NoWork => work.reading \in Readings
  BY DEF R!Works
<1>4. \A reading \in Readings \union {"none"}, dict \in Nat : <<reading, dict>> \in R!Sets
  BY DEF R!Sets
<1>5. \A state \in {"Ready", "Applied", "Kept", "LocalFallback", "Failed", "TimedOut"},
         key \in R!Works, set, scores \in R!Sets :
        [state |-> state, key |-> key, set |-> set, scores |-> scores] \in R!Results
  BY DEF R!Results
<1>6. R!NoResult.state = "none"
  BY DEF R!NoResult
<1>7. \A result \in R!Results : result.state # "none" =>
        /\ result = [state |-> result.state, key |-> result.key, set |-> result.set,
                     scores |-> result.scores]
        /\ result.key \in R!Works /\ {result.set, result.scores} \subseteq R!Sets
        /\ result.state \in {"Ready", "Applied", "Kept", "LocalFallback", "Failed", "TimedOut"}
  BY <1>6 DEF R!Results
<1> QED
  BY <1>1, <1>2, <1>3, <1>4, <1>5, <1>6, <1>7

LEMMA RerankInit == R!Init => R!IInv
<1> SUFFICES ASSUME R!Init PROVE R!IInv
  OBVIOUS
<1>1. rr.result.state # "Ready" /\ rr.applied.state # "now" /\ rr.at = "test"
  BY DEF R!Init, R!NoResult
<1>2. R!TypeOK
  BY RerankFacts DEF R!Init, R!TypeOK, R!States
<1> QED
  BY <1>1, <1>2 DEF R!IInv, R!WorkerOK, R!ReadyIsScored, R!NoStaleChoice

(* A request given up: nothing is ready, and the worker looks again.        *)
LEMMA RerankDone ==
  ASSUME R!IInv, rr.work # R!NoWork, NEW state \in {"LocalFallback", "Failed", "TimedOut"},
         NEW cooling \in BOOLEAN, NEW helper \in BOOLEAN, NEW ids \in Nat,
         NEW asked \in {rr.asked, R!NoResult},
         rr' = [rr EXCEPT !.result = R!Publish(state), !.at = "test", !.work = R!NoWork,
                          !.cooling = cooling, !.helper = helper, !.ids = ids, !.asked = asked]
  PROVE  R!IInv'
<1>1. R!Publish(state) \in R!Results /\ R!Publish(state).state # "Ready"
  BY RerankFacts DEF R!IInv, R!TypeOK, R!States, R!Publish
<1>2. R!NoWork \in R!Works /\ asked \in R!Questions
  BY RerankFacts DEF R!IInv, R!TypeOK, R!States
<1>3. R!TypeOK'
  BY <1>1, <1>2 DEF R!IInv, R!TypeOK, R!States
<1>4. R!WorkerOK'
  BY DEF R!IInv, R!TypeOK, R!States, R!WorkerOK
<1>5. R!ReadyIsScored' /\ R!NoStaleChoice'
  BY <1>1 DEF R!IInv, R!TypeOK, R!States, R!ReadyIsScored, R!NoStaleChoice
<1> QED
  BY <1>3, <1>4, <1>5 DEF R!IInv

(* A step of the worker leaves keys, and what was chosen, alone.            *)
LEMMA RerankNext == R!IInv /\ [R!Next]_rr => R!IInv'
<1>1. SUFFICES ASSUME R!IInv, [R!Next]_rr
               PROVE  R!IInv'
  OBVIOUS
<1> USE <1>1 DEF R!IInv, R!TypeOK, R!States
<1>2. ASSUME NEW s \in Sessions, R!TypeKey(s)
      PROVE  R!IInv'
  <2>1. R!TypeOK'
    <3>1. PICK reading \in Readings, eligible \in BOOLEAN :
            rr' = [rr EXCEPT
                     !.typed = [rr.typed EXCEPT ![s] = [gen |-> rr.typed[s].gen + 1, reading |-> reading]],
                     !.pending = IF eligible THEN [session |-> s, gen |-> rr.typed[s].gen + 1,
                                                   reading |-> reading] ELSE rr.pending,
                     !.at = IF eligible /\ rr.at = "asleep" THEN "test" ELSE rr.at]
      BY <1>2 DEF R!TypeKey
    <3> DEFINE typed == [gen |-> rr.typed[s].gen + 1, reading |-> reading]
               pending == IF eligible THEN [session |-> s, gen |-> rr.typed[s].gen + 1,
                                            reading |-> reading] ELSE rr.pending
               at == IF eligible /\ rr.at = "asleep" THEN "test" ELSE rr.at
    <3>2. rr.typed[s].gen + 1 \in Nat
      OBVIOUS
    <3>3. [rr.typed EXCEPT ![s] = typed] \in [Sessions -> [gen : Nat, reading : Readings \union {"none"}]]
      BY <3>2
    <3>4. pending \in R!Works
      BY <3>2, RerankFacts
    <3>5. at \in {"test", "empty", "asleep", "work", "send", "wait", "gone"}
      OBVIOUS
    <3>6. rr' = [rr EXCEPT !.typed = [rr.typed EXCEPT ![s] = typed], !.pending = pending, !.at = at]
      BY <3>1
    <3> HIDE DEF typed, pending, at
    <3> QED
      BY <3>3, <3>4, <3>5, <3>6
  <2>2. R!WorkerOK'
    BY <1>2, RerankFacts DEF R!TypeKey, R!WorkerOK
  <2>3. R!ReadyIsScored' /\ R!NoStaleChoice'
    BY <1>2, RerankFacts DEF R!TypeKey, R!ReadyIsScored, R!NoStaleChoice, R!WorkerOK
  <2> QED
    BY <2>1, <2>2, <2>3
<1>3. ASSUME NEW s \in Sessions, R!Convert(s)
      PROVE  R!IInv'
  <2>1. R!TypeOK'
    <3>1. PICK outcome \in {"Applied", "Kept", "LocalFallback"} :
            rr' = [rr EXCEPT !.result = [rr.result EXCEPT !.state = outcome],
                     !.applied = IF outcome = "Applied"
                                 THEN [state |-> "now", scores |-> rr.result.scores,
                                       shown |-> R!Candidates(rr.typed[s].reading)]
                                 ELSE rr.applied]
      BY <1>3 DEF R!Convert
    <3>2. rr.result.state = "Ready" /\ R!Candidates(rr.typed[s].reading) \in R!Sets
      BY <1>3, RerankFacts DEF R!Convert, R!Matches, R!Candidates
    <3>3. [rr.result EXCEPT !.state = outcome] \in R!Results
      BY <3>2, RerankFacts
    <3>4. rr.result.scores \in R!Sets
      BY <3>2, RerankFacts
    <3> QED
      BY <3>1, <3>2, <3>3, <3>4
  <2>2. R!WorkerOK'
    BY <1>3, RerankFacts DEF R!Convert, R!Matches, R!Candidates, R!WorkerOK
  <2>3. R!ReadyIsScored' /\ R!NoStaleChoice'
    BY <1>3, RerankFacts DEF R!Convert, R!Matches, R!Candidates, R!ReadyIsScored, R!NoStaleChoice, R!WorkerOK
  <2> QED
    BY <2>1, <2>2, <2>3
<1>4. CASE R!DictionaryChanges
  <2>1. R!TypeOK'
    BY <1>4, RerankFacts DEF R!DictionaryChanges
  <2>2. R!WorkerOK'
    BY <1>4, RerankFacts DEF R!DictionaryChanges, R!WorkerOK
  <2>3. R!ReadyIsScored' /\ R!NoStaleChoice'
    BY <1>4, RerankFacts DEF R!DictionaryChanges, R!ReadyIsScored, R!NoStaleChoice, R!WorkerOK
  <2> QED
    BY <2>1, <2>2, <2>3
<1>5. CASE R!Test
  <2>1. R!TypeOK'
    <3> DEFINE at == IF rr.shutdown THEN "gone" ELSE IF rr.pending = R!NoWork THEN "empty" ELSE "work"
               work == IF rr.shutdown THEN rr.work ELSE rr.pending
               pending == IF rr.shutdown THEN rr.pending ELSE R!NoWork
               helper == rr.helper /\ ~rr.shutdown
    <3>1. at \in {"empty", "work", "gone"} /\ work \in R!Works /\ pending \in R!Works
      BY RerankFacts
    <3>2. helper \in BOOLEAN
      OBVIOUS
    <3>3. rr' = [rr EXCEPT !.at = at, !.work = work, !.pending = pending, !.helper = helper]
      BY <1>5 DEF R!Test
    <3> HIDE DEF at, work, pending, helper
    <3> QED
      BY <3>1, <3>2, <3>3
  <2>2. R!WorkerOK'
    BY <1>5, RerankFacts DEF R!Test, R!WorkerOK
  <2>3. R!ReadyIsScored' /\ R!NoStaleChoice'
    BY <1>5, RerankFacts DEF R!Test, R!ReadyIsScored, R!NoStaleChoice, R!WorkerOK
  <2> QED
    BY <2>1, <2>2, <2>3
<1>6. CASE R!Sleep
  <2>1. R!TypeOK'
    BY <1>6, RerankFacts DEF R!Sleep
  <2>2. R!WorkerOK'
    BY <1>6, RerankFacts DEF R!Sleep, R!WorkerOK
  <2>3. R!ReadyIsScored' /\ R!NoStaleChoice'
    BY <1>6, RerankFacts DEF R!Sleep, R!ReadyIsScored, R!NoStaleChoice, R!WorkerOK
  <2> QED
    BY <2>1, <2>2, <2>3
<1>7. CASE R!Decline
  <2>1. rr.work # R!NoWork
    BY <1>7 DEF R!Decline, R!WorkerOK
  <2>2. PICK state \in {"LocalFallback", "Failed"} : rr' = R!Done(state)
    BY <1>7 DEF R!Decline
  <2>3. rr' = [rr EXCEPT !.result = R!Publish(state), !.at = "test", !.work = R!NoWork,
                           !.cooling = rr.cooling, !.helper = rr.helper, !.ids = rr.ids, !.asked = rr.asked]
    BY <2>2 DEF R!Done
  <2> QED
    BY <2>1, <2>3, RerankDone
<1>8. CASE R!StartHelper
  <2>1. rr.work # R!NoWork /\ rr.at = "work"
    BY <1>8 DEF R!StartHelper, R!WorkerOK
  <2>2. CASE rr' = [rr EXCEPT !.helper = TRUE, !.at = "send"]
    BY <2>1, <2>2 DEF R!WorkerOK, R!ReadyIsScored, R!NoStaleChoice
  <2>3. CASE rr' = [R!Done("Failed") EXCEPT !.cooling = TRUE]
    <3>1. rr' = [rr EXCEPT !.result = R!Publish("Failed"), !.at = "test", !.work = R!NoWork,
                           !.cooling = TRUE, !.helper = rr.helper, !.ids = rr.ids, !.asked = rr.asked]
      BY <2>3 DEF R!Done
    <3> QED
      BY <2>1, <3>1, RerankDone
  <2> QED
    BY <1>8, <2>2, <2>3 DEF R!StartHelper
<1>9. CASE R!UseHelper
  <2>1. R!TypeOK'
    BY <1>9, RerankFacts DEF R!UseHelper
  <2>2. R!WorkerOK'
    BY <1>9, RerankFacts DEF R!UseHelper, R!WorkerOK
  <2>3. R!ReadyIsScored' /\ R!NoStaleChoice'
    BY <1>9, RerankFacts DEF R!UseHelper, R!ReadyIsScored, R!NoStaleChoice, R!WorkerOK
  <2> QED
    BY <2>1, <2>2, <2>3
<1>10. CASE R!Send
  <2>1. rr.work # R!NoWork /\ rr.at = "send"
    BY <1>10 DEF R!Send, R!WorkerOK
  <2> DEFINE asked == [state |-> "asked", id |-> rr.ids + 1, set |-> R!Candidates(rr.work.reading)]
  <2>2. CASE rr' = [rr EXCEPT !.at = "wait", !.ids = rr.ids + 1, !.asked = asked]
    <3>1. R!Candidates(rr.work.reading) \in R!Sets
      BY <2>1, RerankFacts DEF R!Candidates
    <3>2. asked \in R!Questions /\ asked # R!NoResult /\ rr.ids + 1 \in Nat
      <4>1. asked \in R!Questions /\ rr.ids + 1 \in Nat
        BY <3>1 DEF R!Questions
      <4>2. asked.state = "asked"
        OBVIOUS
      <4> QED
        BY <4>1, <4>2, RerankFacts
    <3> HIDE DEF asked
    <3>3. R!TypeOK'
      BY <2>2, <3>2
    <3>4. R!WorkerOK' /\ R!ReadyIsScored' /\ R!NoStaleChoice'
      BY <2>1, <2>2, <3>2 DEF R!WorkerOK, R!ReadyIsScored, R!NoStaleChoice
    <3> QED
      BY <3>3, <3>4
  <2>3. CASE rr' = [R!Done("Failed") EXCEPT !.cooling = TRUE, !.helper = FALSE, !.ids = rr.ids + 1]
    <3>1. rr' = [rr EXCEPT !.result = R!Publish("Failed"), !.at = "test", !.work = R!NoWork,
                           !.cooling = TRUE, !.helper = FALSE, !.ids = rr.ids + 1, !.asked = rr.asked]
      BY <2>3 DEF R!Done
    <3>2. rr.ids + 1 \in Nat
      OBVIOUS
    <3> QED
      BY <2>1, <3>1, <3>2, RerankDone
  <2>4. R!Done("Failed").ids = rr.ids
    BY DEF R!Done
  <2> QED
    BY <1>10, <2>2, <2>3, <2>4 DEF R!Send
<1>11. CASE R!Answered
  <2>1. /\ rr.at = "wait" /\ rr.asked.set \in R!Sets
        /\ rr' = [rr EXCEPT !.at = "test", !.work = R!NoWork, !.cooling = FALSE,
                            !.asked = R!NoResult,
                            !.result = [state |-> "Ready", key |-> rr.work,
                                        set |-> rr.asked.set, scores |-> rr.asked.set]]
    BY <1>11, RerankFacts DEF R!Answered, R!WorkerOK, R!Questions
  <2> DEFINE result == [state |-> "Ready", key |-> rr.work,
                        set |-> rr.asked.set, scores |-> rr.asked.set]
  <2>2. result \in R!Results /\ result.scores = result.set
    BY <2>1, RerankFacts
  <2> HIDE DEF result
  <2>3. rr' = [rr EXCEPT !.at = "test", !.work = R!NoWork, !.cooling = FALSE,
                         !.asked = R!NoResult, !.result = result]
    BY <2>1 DEF result
  <2>4. R!TypeOK'
    BY <2>2, <2>3, RerankFacts
  <2>5. R!WorkerOK' /\ R!ReadyIsScored' /\ R!NoStaleChoice'
    BY <2>2, <2>3 DEF R!WorkerOK, R!ReadyIsScored, R!NoStaleChoice
  <2> QED
    BY <2>4, <2>5
<1>12. CASE R!Unanswered
  <2>1. rr.work # R!NoWork
    BY <1>12 DEF R!Unanswered, R!WorkerOK
  <2>2. PICK state \in {"TimedOut", "Failed"} :
          rr' = [R!Done(state) EXCEPT !.cooling = TRUE, !.helper = FALSE, !.asked = R!NoResult]
    BY <1>12 DEF R!Unanswered
  <2>3. rr' = [rr EXCEPT !.result = R!Publish(state), !.at = "test", !.work = R!NoWork,
                           !.cooling = TRUE, !.helper = FALSE, !.ids = rr.ids, !.asked = R!NoResult]
    BY <2>2 DEF R!Done
  <2> QED
    BY <2>1, <2>3, RerankDone
<1>13. CASE R!CooledDown
  <2>1. R!TypeOK'
    BY <1>13, RerankFacts DEF R!CooledDown
  <2>2. R!WorkerOK'
    BY <1>13, RerankFacts DEF R!CooledDown, R!WorkerOK
  <2>3. R!ReadyIsScored' /\ R!NoStaleChoice'
    BY <1>13, RerankFacts DEF R!CooledDown, R!ReadyIsScored, R!NoStaleChoice, R!WorkerOK
  <2> QED
    BY <2>1, <2>2, <2>3
<1>14. CASE R!DropStores
  <2>1. R!TypeOK'
    BY <1>14, RerankFacts DEF R!DropStores
  <2>2. R!WorkerOK'
    BY <1>14, RerankFacts DEF R!DropStores, R!WorkerOK
  <2>3. R!ReadyIsScored' /\ R!NoStaleChoice'
    BY <1>14, RerankFacts DEF R!DropStores, R!ReadyIsScored, R!NoStaleChoice, R!WorkerOK
  <2> QED
    BY <2>1, <2>2, <2>3
<1>15. CASE R!DropNotifies
  <2>1. R!TypeOK'
    BY <1>15, RerankFacts DEF R!DropNotifies
  <2>2. R!WorkerOK'
    BY <1>15, RerankFacts DEF R!DropNotifies, R!WorkerOK
  <2>3. R!ReadyIsScored' /\ R!NoStaleChoice'
    BY <1>15, RerankFacts DEF R!DropNotifies, R!ReadyIsScored, R!NoStaleChoice, R!WorkerOK
  <2> QED
    BY <2>1, <2>2, <2>3
<1>16. CASE R!DropJoins
  <2>1. R!TypeOK'
    BY <1>16, RerankFacts DEF R!DropJoins
  <2>2. R!WorkerOK'
    BY <1>16, RerankFacts DEF R!DropJoins, R!WorkerOK
  <2>3. R!ReadyIsScored' /\ R!NoStaleChoice'
    BY <1>16, RerankFacts DEF R!DropJoins, R!ReadyIsScored, R!NoStaleChoice, R!WorkerOK
  <2> QED
    BY <2>1, <2>2, <2>3
<1>17. CASE UNCHANGED rr
  BY <1>17 DEF R!WorkerOK, R!ReadyIsScored, R!NoStaleChoice
<1> QED
  BY <1>1, <1>2, <1>3, <1>4, <1>5, <1>6, <1>7, <1>8, <1>9, <1>10, <1>11, <1>12, <1>13, <1>14, <1>15, <1>16, <1>17
     DEF R!Next, R!Worker, R!Dropping

(* A choice replaced by the model was scored among exactly the candidates   *)
(* on the list it is taken for.                                             *)
THEOREM RerankCorrect == R!Spec => []NoStaleChoice
<1>1. R!IInv => R!NoStaleChoice
  BY DEF R!IInv
<1> QED
  BY <1>1, RerankInit, RerankNext, PTL DEF R!Spec, NoStaleChoice

-----------------------------------------------------------------------------
(* One AI job at a time.                                                    *)

FewClients == IsFiniteSet(Clients)

LEMMA SameCount == \A S : A!Cardinality(S) = Cardinality(S)
BY DEF A!Cardinality, Cardinality

LEMMA OwnersExist ==
  ASSUME FewClients
  PROVE  A!Cardinality(Clients) \in Nat /\
         (CHOOSE f \in [Clients -> 1..A!Cardinality(Clients)] :
                 \A c, d \in Clients : f[c] = f[d] => c = d) \in [Clients -> Nat]
<1> DEFINE n == A!Cardinality(Clients)
<1>1. n \in Nat /\ ExistsBijection(1..n, Clients)
  BY SameCount, FS_CardinalityType DEF FewClients
<1> HIDE DEF n
<1>2. ExistsBijection(Clients, 1..n)
  BY <1>1, Fun_ExistsBijSymmetric
<1>3. PICK f : f \in Bijection(Clients, 1..n)
  BY <1>2 DEF ExistsBijection
<1>4. f \in [Clients -> 1..n] /\ \A c, d \in Clients : f[c] = f[d] => c = d
  BY <1>3 DEF Bijection, Injection, IsInjective
<1>5. \E g : g \in [Clients -> 1..n] /\ \A c, d \in Clients : g[c] = g[d] => c = d
  BY <1>4
<1>6. (CHOOSE g \in [Clients -> 1..n] : \A c, d \in Clients : g[c] = g[d] => c = d) \in [Clients -> 1..n]
  BY <1>5
<1>7. [Clients -> 1..n] \subseteq [Clients -> Nat]
  BY <1>1
<1> QED
  BY <1>1, <1>6, <1>7 DEF n

LEMMA JobInit == FewClients /\ A!Init => A!IInv
<1> SUFFICES ASSUME FewClients, A!Init PROVE A!IInv
  OBVIOUS
<1> DEFINE n == A!Cardinality(Clients)
           own == CHOOSE f \in [Clients -> 1..A!Cardinality(Clients)] :
                 \A c, d \in Clients : f[c] = f[d] => c = d
<1>1. n \in Nat /\ own \in [Clients -> Nat]
  BY OwnersExist
<1>2. ai = [jobs |-> {}, cooling |-> <<>>, ids |-> 0, owners |-> n, owner |-> own,
            session |-> [c \in Clients |-> 1], asked |-> [c \in Clients |-> 0], thread |-> <<>>,
            told |-> [c \in Clients |-> 0]]
  BY DEF A!Init
<1> HIDE DEF n, own
<1>3. A!TypeOK
  BY <1>1, <1>2 DEF A!TypeOK, A!Jobs
<1> QED
  BY <1>2, <1>3 DEF A!IInv, A!OneJob, A!ThreadsOwned, A!JobsOwned

(* The slot is the only one: the helpers of all threads are one at most.    *)
LEMMA OneHelper == A!IInv => A!SlotFollowsHelper
<1> SUFFICES ASSUME A!IInv PROVE A!SlotFollowsHelper
  OBVIOUS
<1> DEFINE helpers == {id \in 1..Len(ai.thread) : ai.thread[id] \in {"start", "helper"}}
<1>1. A!TypeOK /\ A!OneJob /\ A!ThreadsOwned /\ A!JobsOwned
  BY DEF A!IInv
<1>2. \A i, k \in helpers : i = k
  <2> SUFFICES ASSUME NEW i \in helpers, NEW k \in helpers PROVE i = k
    OBVIOUS
  <2>1. PICK j \in ai.jobs : j.id = i
    BY <1>1 DEF A!ThreadsOwned
  <2>2. PICK l \in ai.jobs : l.id = k
    BY <1>1 DEF A!ThreadsOwned
  <2> QED
    BY <1>1, <2>1, <2>2 DEF A!OneJob
<1>3. A!Cardinality(helpers) <= 1
  <2>1. CASE helpers = {}
    <3>1. Cardinality(helpers) = 0
      BY <2>1, FS_EmptySet
    <3> QED
      BY <3>1, SameCount
  <2>2. CASE helpers # {}
    <3>1. PICK i : i \in helpers
      BY <2>2
    <3>2. helpers = {i}
      BY <1>2, <3>1
    <3>3. Cardinality(helpers) = 1
      BY <3>2, FS_Singleton
    <3> QED
      BY <3>3, SameCount
  <2> QED
    BY <2>1, <2>2
<1>4. \A j \in ai.jobs :
         IF j.detached THEN ai.thread[j.id] # "over"
         ELSE \E c \in Clients : ai.asked[c] = j.id /\ j \in A!JobOf(c, j.id)
  BY <1>1 DEF A!JobsOwned
<1> QED
  BY <1>3, <1>4 DEF A!SlotFollowsHelper, A!MaxJobs

Facts ==
  /\ A!TypeOK /\ A!OneJob /\ A!ThreadsOwned /\ A!JobsOwned
  /\ ai.jobs \in SUBSET A!Jobs /\ ai.ids \in Nat /\ ai.owners \in Nat /\ ai.owner \in [Clients -> Nat]
  /\ ai.session \in [Clients -> Nat] /\ ai.asked \in [Clients -> Nat] /\ ai.told \in [Clients -> Nat]
  /\ ai.thread \in Seq({"start", "helper", "ends", "over"}) /\ Len(ai.thread) = ai.ids
  /\ ai.cooling \in Seq(Texts)

LEMMA JobFacts == A!IInv => Facts
BY DEF A!IInv, A!TypeOK, A!ThreadsOwned, Facts

(* To be told to stop ends a complete job and lets a running one run on.    *)
LEMMA Detaching ==
  ASSUME Facts, NEW S \in SUBSET ai.jobs
  PROVE  \/ S = {} /\ A!DetachAll(S) = ai.jobs
         \/ A!DetachAll(S) = {} /\ S = ai.jobs /\ \A j \in ai.jobs : j.complete
         \/ \E j \in ai.jobs : S = ai.jobs /\ ~j.complete /\ A!DetachAll(S) = {A!Detach(j)}
<1>1. CASE S = {}
  BY <1>1 DEF A!DetachAll
<1>2. CASE S # {}
  <2>1. PICK j : j \in S
    BY <1>2
  <2>2. S = {j} /\ ai.jobs = {j}
    BY <2>1 DEF Facts, A!OneJob
  <2>3. CASE j.complete
    <3>1. {k \in S : ~k.complete} = {}
      BY <2>2, <2>3
    <3> QED
      BY <2>2, <2>3, <3>1 DEF A!DetachAll
  <2>4. CASE ~j.complete
    <3>1. {k \in S : ~k.complete} = {j}
      BY <2>2, <2>4
    <3> QED
      BY <2>2, <2>4, <3>1 DEF A!DetachAll
  <2> QED
    BY <2>3, <2>4
<1> QED
  BY <1>1, <1>2

(* A client gives its job up: it is as before and not the client's, gone    *)
(* when it was complete, or detached.                                       *)
ClientLeaves(c, jobs, owners, owner, session, told) ==
  /\ ai' = [ai EXCEPT !.jobs = jobs, !.asked = [ai.asked EXCEPT ![c] = 0], !.owners = owners,
                      !.owner = [ai.owner EXCEPT ![c] = owner],
                      !.session = [ai.session EXCEPT ![c] = session],
                      !.told = [ai.told EXCEPT ![c] = told]]
  /\ owners \in Nat /\ owner \in Nat /\ session \in Nat /\ told \in Nat
  /\ \/ jobs = ai.jobs /\ \A j \in ai.jobs : ~j.detached => ~(ai.asked[c] = j.id /\ j \in A!JobOf(c, j.id))
     \/ jobs = {} /\ \A j \in ai.jobs : j.complete
     \/ \E j \in ai.jobs : ~j.complete /\ jobs = {A!Detach(j)}

LEMMA Leaves ==
  ASSUME Facts, NEW c \in Clients, NEW jobs, NEW owners, NEW owner, NEW session, NEW told,
         ClientLeaves(c, jobs, owners, owner, session, told)
  PROVE  A!IInv'
<1>1. /\ ai'.jobs = jobs /\ ai'.asked = [ai.asked EXCEPT ![c] = 0] /\ ai'.thread = ai.thread /\ ai'.ids = ai.ids
      /\ ai'.owner = [ai.owner EXCEPT ![c] = owner] /\ ai'.session = [ai.session EXCEPT ![c] = session]
  BY DEF Facts, A!TypeOK, ClientLeaves
<1>2. CASE jobs = ai.jobs /\ \A j \in ai.jobs : ~j.detached => ~(ai.asked[c] = j.id /\ j \in A!JobOf(c, j.id))
  <2>1. A!TypeOK'
    BY <1>2 DEF Facts, A!TypeOK, ClientLeaves
  <2>2. A!OneJob' /\ A!ThreadsOwned'
    BY <1>1, <1>2 DEF Facts, A!OneJob, A!ThreadsOwned
  <2>3. A!JobsOwned'
    <3> SUFFICES ASSUME NEW j \in ai.jobs
                 PROVE  /\ j.id <= ai.ids /\ (j.complete <=> ai.thread[j.id] = "over")
                        /\ ~(j.complete /\ j.detached)
                        /\ ~j.detached => \E d \in Clients : ai'.asked[d] = j.id /\ j \in A!JobOf(d, j.id)'
      BY <1>1, <1>2 DEF A!JobsOwned
    <3>1. /\ j.id <= ai.ids /\ (j.complete <=> ai.thread[j.id] = "over")
          /\ ~(j.complete /\ j.detached)
          /\ ~j.detached => \E d \in Clients : ai.asked[d] = j.id /\ j \in A!JobOf(d, j.id)
      BY DEF Facts, A!JobsOwned
    <3>2. ASSUME ~j.detached PROVE \E d \in Clients : ai'.asked[d] = j.id /\ j \in A!JobOf(d, j.id)'
      <4>1. PICK d \in Clients : ai.asked[d] = j.id /\ j \in A!JobOf(d, j.id)
        BY <3>1, <3>2
      <4>2. d # c
        BY <1>2, <3>2, <4>1
      <4>3. ai'.asked[d] = ai.asked[d] /\ ai'.owner[d] = ai.owner[d] /\ ai'.session[d] = ai.session[d]
        BY <1>1, <4>2 DEF Facts
      <4> QED
        BY <1>1, <1>2, <4>1, <4>3 DEF A!JobOf
    <3> QED
      BY <3>1, <3>2
  <2> QED
    BY <2>1, <2>2, <2>3 DEF A!IInv
<1>3. CASE jobs = {} /\ \A j \in ai.jobs : j.complete
  <2>1. A!TypeOK'
    BY <1>3 DEF Facts, A!TypeOK, ClientLeaves
  <2>2. \A id \in 1..ai.ids : ai.thread[id] = "over"
    BY <1>3 DEF Facts, A!ThreadsOwned, A!JobsOwned
  <2> QED
    BY <1>1, <1>3, <2>1, <2>2 DEF Facts, A!IInv, A!OneJob, A!ThreadsOwned, A!JobsOwned
<1>4. ASSUME NEW j \in ai.jobs, ~j.complete, jobs = {A!Detach(j)} PROVE A!IInv'
  <2>1. /\ A!Detach(j) \in A!Jobs /\ A!Detach(j).id = j.id /\ A!Detach(j).detached = TRUE
        /\ A!Detach(j).complete = j.complete
    BY DEF Facts, A!Jobs, A!Detach
  <2>2. jobs \in SUBSET A!Jobs
    BY <1>4, <2>1
  <2>3. A!TypeOK'
    BY <2>2 DEF Facts, A!TypeOK, ClientLeaves
  <2>4. A!OneJob'
    BY <1>1, <1>4 DEF A!OneJob
  <2>5. \A k \in ai.jobs : k = j
    BY DEF Facts, A!OneJob
  <2>6. A!ThreadsOwned'
    BY <1>1, <1>4, <2>1, <2>5 DEF Facts, A!ThreadsOwned
  <2>7. j.id <= ai.ids /\ (j.complete <=> ai.thread[j.id] = "over")
    BY DEF Facts, A!JobsOwned
  <2>8. A!JobsOwned'
    BY <1>1, <1>4, <2>1, <2>7 DEF A!JobsOwned
  <2> QED
    BY <2>3, <2>4, <2>6, <2>8 DEF A!IInv
<1> QED
  BY <1>2, <1>3, <1>4 DEF ClientLeaves

LEMMA JobClientSteps ==
  ASSUME Facts, NEW c \in Clients, A!PollJob(c) \/ A!Cancel(c) \/ A!DeleteSession(c) \/ A!Reset(c)
  PROVE  A!IInv'
<1>1. CASE A!PollJob(c)
  <2> DEFINE mine == {j \in A!JobOf(c, ai.asked[c]) : ~j.detached}
             told == IF mine = {} THEN ai.told[c] ELSE ai.asked[c]
  <2>1. mine \in SUBSET ai.jobs /\ \A j \in mine : j.complete
    BY <1>1 DEF A!PollJob, A!JobOf
  <2>2. ai' = [ai EXCEPT !.jobs = ai.jobs \ mine, !.asked = [ai.asked EXCEPT ![c] = 0],
                        !.owners = ai.owners, !.owner = [ai.owner EXCEPT ![c] = ai.owner[c]],
                        !.session = [ai.session EXCEPT ![c] = ai.session[c]],
                        !.told = [ai.told EXCEPT ![c] = told]]
    BY <1>1 DEF A!PollJob, Facts, A!TypeOK
  <2>3. told \in Nat
    BY DEF Facts
  <2>4. CASE mine = {}
    <3>1. \A j \in ai.jobs : ~j.detached => ~(ai.asked[c] = j.id /\ j \in A!JobOf(c, j.id))
      BY <2>4
    <3>2. ai.jobs \ mine = ai.jobs
      BY <2>4
    <3> HIDE DEF mine, told
    <3> QED
      BY <2>2, <2>3, <3>1, <3>2, Leaves DEF ClientLeaves, Facts
  <2>5. CASE mine # {}
    <3>1. mine = ai.jobs
      BY <2>1, <2>5 DEF Facts, A!OneJob
    <3>2. ai.jobs \ mine = {} /\ \A j \in ai.jobs : j.complete
      BY <2>1, <3>1
    <3> HIDE DEF mine, told
    <3>3. ClientLeaves(c, ai.jobs \ mine, ai.owners, ai.owner[c], ai.session[c], told)
      BY <2>2, <2>3, <3>2 DEF ClientLeaves, Facts
    <3> QED
      BY <3>3, Leaves
  <2> QED
    BY <2>4, <2>5
<1>2. CASE A!Cancel(c)
  <2> DEFINE mine == {j \in A!JobOf(c, ai.asked[c]) : ~j.detached}
  <2>1. mine \in SUBSET ai.jobs
    BY DEF A!JobOf
  <2>2. ai' = [ai EXCEPT !.jobs = A!DetachAll(mine), !.asked = [ai.asked EXCEPT ![c] = 0],
                        !.owners = ai.owners, !.owner = [ai.owner EXCEPT ![c] = ai.owner[c]],
                        !.session = [ai.session EXCEPT ![c] = ai.session[c]],
                        !.told = [ai.told EXCEPT ![c] = ai.told[c]]]
    BY <1>2 DEF A!Cancel, Facts, A!TypeOK
  <2>3. mine = {} => \A j \in ai.jobs : ~j.detached => ~(ai.asked[c] = j.id /\ j \in A!JobOf(c, j.id))
    OBVIOUS
  <2> HIDE DEF mine
  <2>4. ClientLeaves(c, A!DetachAll(mine), ai.owners, ai.owner[c], ai.session[c], ai.told[c])
    BY <2>1, <2>2, <2>3, Detaching DEF ClientLeaves, Facts
  <2> QED
    BY <2>4, Leaves
<1>3. CASE A!DeleteSession(c)
  <2> DEFINE mine == {j \in ai.jobs : j.owner = ai.owner[c] /\ j.session = ai.session[c]}
  <2>1. mine \in SUBSET ai.jobs
    OBVIOUS
  <2>2. ai' = [ai EXCEPT !.jobs = A!DetachAll(mine), !.asked = [ai.asked EXCEPT ![c] = 0],
                        !.owners = ai.owners, !.owner = [ai.owner EXCEPT ![c] = ai.owner[c]],
                        !.session = [ai.session EXCEPT ![c] = ai.session[c] + 1],
                        !.told = [ai.told EXCEPT ![c] = ai.told[c]]]
    BY <1>3 DEF A!DeleteSession, Facts, A!TypeOK
  <2>3. mine = {} => \A j \in ai.jobs : ~j.detached => ~(ai.asked[c] = j.id /\ j \in A!JobOf(c, j.id))
    BY DEF A!JobOf
  <2> HIDE DEF mine
  <2>4. ai.owners \in Nat /\ ai.owner[c] \in Nat /\ ai.session[c] + 1 \in Nat /\ ai.told[c] \in Nat
    BY DEF Facts
  <2>5. ClientLeaves(c, A!DetachAll(mine), ai.owners, ai.owner[c], ai.session[c] + 1, ai.told[c])
    BY <2>1, <2>2, <2>3, <2>4, Detaching DEF ClientLeaves
  <2> QED
    BY <2>5, Leaves
<1>4. CASE A!Reset(c)
  <2> DEFINE mine == {j \in ai.jobs : j.owner = ai.owner[c]}
  <2>1. mine \in SUBSET ai.jobs
    OBVIOUS
  <2>2. ai' = [ai EXCEPT !.jobs = A!DetachAll(mine), !.asked = [ai.asked EXCEPT ![c] = 0],
                        !.owners = ai.owners + 1, !.owner = [ai.owner EXCEPT ![c] = ai.owners + 1],
                        !.session = [ai.session EXCEPT ![c] = ai.session[c]],
                        !.told = [ai.told EXCEPT ![c] = ai.told[c]]]
    BY <1>4 DEF A!Reset, Facts, A!TypeOK
  <2>3. mine = {} => \A j \in ai.jobs : ~j.detached => ~(ai.asked[c] = j.id /\ j \in A!JobOf(c, j.id))
    BY DEF A!JobOf
  <2> HIDE DEF mine
  <2>4. ai.owners + 1 \in Nat /\ ai.session[c] \in Nat /\ ai.told[c] \in Nat
    BY DEF Facts
  <2>5. ClientLeaves(c, A!DetachAll(mine), ai.owners + 1, ai.owners + 1, ai.session[c], ai.told[c])
    BY <2>1, <2>2, <2>3, <2>4, Detaching DEF ClientLeaves
  <2> QED
    BY <2>5, Leaves
<1> QED
  BY <1>1, <1>2, <1>3, <1>4

(* A new job has a thread of its own.                                       *)
LEMMA JobStarts ==
  ASSUME Facts, NEW c \in Clients, A!StartJob(c)
  PROVE  A!IInv'
<1>1. PICK text \in Texts :
        /\ A!Cardinality(ai.jobs) < A!MaxJobs
        /\ ai' = [ai EXCEPT !.ids = ai.ids + 1, !.asked = [ai.asked EXCEPT ![c] = ai.ids + 1],
             !.jobs = ai.jobs \cup {[id |-> ai.ids + 1, owner |-> ai.owner[c], session |-> ai.session[c],
                                     text |-> text, cancel |-> FALSE, detached |-> FALSE, complete |-> FALSE]},
             !.thread = Append(ai.thread, "start")]
  BY DEF A!StartJob, Facts, A!TypeOK
<1> PICK new : new = [id |-> ai.ids + 1, owner |-> ai.owner[c], session |-> ai.session[c],
                      text |-> text, cancel |-> FALSE, detached |-> FALSE, complete |-> FALSE]
  OBVIOUS
<1> DEFINE thread == Append(ai.thread, "start")
<1>2. ai.jobs = {}
  <2>1. Cardinality(ai.jobs) < 1
    BY <1>1, SameCount DEF A!MaxJobs
  <2>2. IsFiniteSet(ai.jobs)
    <3>1. CASE ai.jobs = {}
      BY <3>1, FS_EmptySet
    <3>2. ASSUME NEW j \in ai.jobs PROVE IsFiniteSet(ai.jobs)
      <4>1. ai.jobs = {j}
        BY DEF Facts, A!OneJob
      <4> QED
        BY <4>1, FS_Singleton
    <3> QED
      BY <3>1, <3>2
  <2>3. Cardinality(ai.jobs) \in Nat
    BY <2>2, FS_CardinalityType
  <2>4. Cardinality(ai.jobs) = 0
    BY <2>1, <2>3
  <2> QED
    BY <2>2, <2>4, FS_EmptySet
<1>3. /\ new \in A!Jobs /\ new.id = ai.ids + 1 /\ new.owner = ai.owner[c] /\ new.session = ai.session[c]
      /\ new.detached = FALSE /\ new.complete = FALSE
  BY DEF Facts, A!Jobs
<1>4. /\ thread \in Seq({"start", "helper", "ends", "over"}) /\ Len(thread) = ai.ids + 1
      /\ thread[ai.ids + 1] = "start" /\ \A id \in 1..ai.ids : thread[id] = ai.thread[id]
  BY DEF Facts
<1>5. \A id \in 1..ai.ids : ai.thread[id] = "over"
  BY <1>2 DEF Facts, A!ThreadsOwned
<1>6. ai' = [ai EXCEPT !.ids = ai.ids + 1, !.asked = [ai.asked EXCEPT ![c] = ai.ids + 1],
                      !.jobs = {new}, !.thread = thread]
  BY <1>1, <1>2
<1> HIDE DEF thread
<1>7. /\ ai'.jobs = {new} /\ ai'.asked = [ai.asked EXCEPT ![c] = ai.ids + 1] /\ ai'.thread = thread
      /\ ai'.ids = ai.ids + 1 /\ ai'.owner = ai.owner /\ ai'.session = ai.session
  BY <1>6 DEF Facts, A!TypeOK
<1>8. A!TypeOK'
  <2>1. {new} \in SUBSET A!Jobs /\ ai.ids + 1 \in Nat /\ [ai.asked EXCEPT ![c] = ai.ids + 1] \in [Clients -> Nat]
    BY <1>3 DEF Facts
  <2> QED
    BY <1>4, <1>6, <2>1 DEF Facts, A!TypeOK
<1>9. A!OneJob'
  BY <1>7 DEF A!OneJob
<1>10. A!ThreadsOwned'
  <2>1. \A id \in 1..(ai.ids + 1) : id = ai.ids + 1 \/ id \in 1..ai.ids
    BY DEF Facts
  <2>2. \A id \in 1..(ai.ids + 1) : thread[id] # "over" => id = ai.ids + 1
    BY <1>4, <1>5, <2>1
  <2> QED
    BY <1>3, <1>4, <1>7, <2>2 DEF A!ThreadsOwned
<1>11. A!JobsOwned'
  <2>1. ai'.asked[c] = new.id
    BY <1>3, <1>7 DEF Facts
  <2>2. new \in A!JobOf(c, new.id)'
    BY <1>3, <1>7 DEF A!JobOf
  <2>3. new.id <= ai'.ids /\ thread[new.id] # "over"
    BY <1>3, <1>4, <1>7 DEF Facts
  <2> QED
    BY <1>3, <1>7, <2>1, <2>2, <2>3 DEF A!JobsOwned
<1> QED
  BY <1>8, <1>9, <1>10, <1>11 DEF A!IInv

LEMMA JobSpawnFails ==
  ASSUME Facts, NEW c \in Clients, A!SpawnFails(c)
  PROVE  A!IInv'
<1> DEFINE thread == [ai.thread EXCEPT ![ai.ids] = "over"]
<1>1. PICK j \in ai.jobs : j.id = ai.ids
  BY DEF A!SpawnFails, A!JobOf
<1>2. ai.jobs = {j} /\ A!JobOf(c, ai.ids) = {j} /\ ai.ids \in 1..ai.ids
  BY <1>1 DEF Facts, A!OneJob, A!SpawnFails, A!JobOf
<1>3. ai' = [ai EXCEPT !.jobs = {}, !.asked = [ai.asked EXCEPT ![c] = 0], !.thread = thread]
  BY <1>2 DEF A!SpawnFails, Facts, A!TypeOK
<1>4. /\ thread \in Seq({"start", "helper", "ends", "over"}) /\ Len(thread) = ai.ids
      /\ thread[ai.ids] = "over" /\ \A id \in 1..ai.ids : id # ai.ids => thread[id] = ai.thread[id]
  BY <1>2 DEF Facts
<1>5. \A id \in 1..ai.ids : id # ai.ids => ai.thread[id] = "over"
  BY <1>1, <1>2 DEF Facts, A!ThreadsOwned
<1> HIDE DEF thread
<1>6. ai'.jobs = {} /\ ai'.thread = thread /\ ai'.ids = ai.ids
  BY <1>3 DEF Facts, A!TypeOK
<1>7. A!TypeOK'
  BY <1>3, <1>4 DEF Facts, A!TypeOK
<1>8. A!ThreadsOwned'
  BY <1>4, <1>5, <1>6 DEF Facts, A!ThreadsOwned
<1> QED
  BY <1>6, <1>7, <1>8 DEF A!IInv, A!OneJob, A!JobsOwned

LEMMA ThreadMoves ==
  ASSUME Facts, NEW id \in 1..Len(ai.thread), A!StartHelper(id) \/ A!HelperEnds(id)
  PROVE  A!IInv'
<1>1. PICK at \in {"helper", "ends"} : ai' = [ai EXCEPT !.thread = [ai.thread EXCEPT ![id] = at]]
  BY DEF A!StartHelper, A!HelperEnds, Facts, A!TypeOK
<1>2. ai.thread[id] # "over" /\ id \in 1..ai.ids
  BY DEF A!StartHelper, A!HelperEnds, Facts
<1> DEFINE thread == [ai.thread EXCEPT ![id] = at]
<1>3. /\ thread \in Seq({"start", "helper", "ends", "over"}) /\ Len(thread) = ai.ids
      /\ \A k \in 1..ai.ids : thread[k] = "over" <=> ai.thread[k] = "over"
  BY <1>2 DEF Facts
<1> HIDE DEF thread
<1>4. /\ ai'.jobs = ai.jobs /\ ai'.asked = ai.asked /\ ai'.thread = thread /\ ai'.ids = ai.ids
      /\ ai'.owner = ai.owner /\ ai'.session = ai.session
  BY <1>1 DEF Facts, A!TypeOK, thread
<1>5. A!TypeOK'
  <2>1. ai' = [ai EXCEPT !.thread = thread]
    BY <1>1 DEF thread
  <2> QED
    BY <1>3, <2>1 DEF Facts, A!TypeOK
<1>6. A!OneJob' /\ A!ThreadsOwned'
  BY <1>3, <1>4 DEF Facts, A!OneJob, A!ThreadsOwned
<1>7. A!JobsOwned'
  <2> SUFFICES ASSUME NEW j \in ai.jobs
               PROVE  /\ j.id <= ai.ids /\ (j.complete <=> thread[j.id] = "over")
                      /\ ~(j.complete /\ j.detached)
                      /\ ~j.detached => \E d \in Clients : ai'.asked[d] = j.id /\ j \in A!JobOf(d, j.id)'
    BY <1>4 DEF A!JobsOwned
  <2>1. /\ j.id <= ai.ids /\ (j.complete <=> ai.thread[j.id] = "over")
        /\ ~(j.complete /\ j.detached)
        /\ ~j.detached => \E d \in Clients : ai.asked[d] = j.id /\ j \in A!JobOf(d, j.id)
    BY DEF Facts, A!JobsOwned
  <2>2. j.id \in 1..ai.ids
    BY <2>1 DEF Facts, A!Jobs
  <2> QED
    BY <1>3, <1>4, <2>1, <2>2 DEF A!JobOf
<1> QED
  BY <1>5, <1>6, <1>7 DEF A!IInv

(* Under the lock the thread ends and its job with it: collectable, or gone *)
(* when nobody will collect it.                                             *)
LEMMA JobFinishes ==
  ASSUME Facts, NEW id \in 1..Len(ai.thread), A!Finish(id)
  PROVE  A!IInv'
<1> DEFINE own == {j \in ai.jobs : j.id = id}
           cooling == IF own = {} THEN ai.cooling ELSE A!Cooled((CHOOSE j \in own : TRUE).text)
           thread == [ai.thread EXCEPT ![id] = "over"]
           jobs == (ai.jobs \ own) \cup {[j EXCEPT !.complete = TRUE] : j \in {k \in own : ~k.detached}}
<1>1. ai' = [ai EXCEPT !.thread = thread, !.cooling = cooling, !.jobs = jobs]
  BY DEF A!Finish, Facts, A!TypeOK
<1>2. ai.thread[id] # "over" /\ id \in 1..ai.ids
  BY DEF A!Finish, Facts
<1>3. PICK j \in ai.jobs : j.id = id
  BY <1>2 DEF Facts, A!ThreadsOwned
<1>4. ai.jobs = {j} /\ own = {j} /\ j \in A!Jobs
  BY <1>3 DEF Facts, A!OneJob
<1>5. cooling \in Seq(Texts)
  <2>1. (CHOOSE k \in own : TRUE) = j
    BY <1>4
  <2>2. j.text \in Texts
    BY <1>4 DEF A!Jobs
  <2>3. A!Cooled(j.text) \in Seq(Texts)
    <3>1. CASE Len(ai.cooling) >= MaxCooldowns /\ ai.cooling # <<>>
      BY <2>2, <3>1 DEF A!Cooled, Facts
    <3>2. CASE ~(Len(ai.cooling) >= MaxCooldowns)
      BY <2>2, <3>2 DEF A!Cooled, Facts
    <3>3. CASE Len(ai.cooling) >= MaxCooldowns /\ ai.cooling = <<>>
      BY <2>2, <3>3 DEF A!Cooled, Facts
    <3> QED
      BY <3>1, <3>2, <3>3
  <2> QED
    BY <1>4, <2>1, <2>3
<1>6. /\ thread \in Seq({"start", "helper", "ends", "over"}) /\ Len(thread) = ai.ids
      /\ thread[id] = "over" /\ \A k \in 1..ai.ids : k # id => thread[k] = ai.thread[k]
  BY <1>2 DEF Facts
<1>7. \A k \in 1..ai.ids : thread[k] = "over"
  BY <1>3, <1>4, <1>6 DEF Facts, A!ThreadsOwned
<1>8. CASE j.detached
  <2>1. jobs = {}
    <3>1. {k \in own : ~k.detached} = {} /\ ai.jobs \ own = {}
      BY <1>4, <1>8
    <3> QED
      BY <3>1
  <2> HIDE DEF thread, cooling, jobs, own
  <2>2. ai'.jobs = {} /\ ai'.thread = thread /\ ai'.ids = ai.ids
    BY <1>1, <2>1 DEF Facts, A!TypeOK
  <2>3. A!TypeOK'
    BY <1>1, <1>5, <1>6, <2>1 DEF Facts, A!TypeOK
  <2>4. A!ThreadsOwned'
    BY <1>6, <1>7, <2>2 DEF A!ThreadsOwned
  <2> QED
    BY <2>2, <2>3, <2>4 DEF A!IInv, A!OneJob, A!JobsOwned
<1>9. CASE ~j.detached
  <2> DEFINE done == [j EXCEPT !.complete = TRUE]
  <2>1. jobs = {done}
    <3>1. {k \in own : ~k.detached} = {j} /\ ai.jobs \ own = {}
      BY <1>4, <1>9
    <3> QED
      BY <3>1
  <2>2. /\ done \in A!Jobs /\ done.id = id /\ done.complete = TRUE /\ done.detached = FALSE
        /\ done.owner = j.owner /\ done.session = j.session
    BY <1>3, <1>4, <1>9 DEF A!Jobs
  <2> HIDE DEF thread, cooling, jobs, own, done
  <2>3. /\ ai'.jobs = {done} /\ ai'.thread = thread /\ ai'.ids = ai.ids /\ ai'.asked = ai.asked
        /\ ai'.owner = ai.owner /\ ai'.session = ai.session
    BY <1>1, <2>1 DEF Facts, A!TypeOK
  <2>4. A!TypeOK'
    <3>1. {done} \in SUBSET A!Jobs
      BY <2>2
    <3> QED
      BY <1>1, <1>5, <1>6, <2>1, <3>1 DEF Facts, A!TypeOK
  <2>5. A!ThreadsOwned'
    BY <1>6, <1>7, <2>3 DEF A!ThreadsOwned
  <2>6. PICK c \in Clients : ai.asked[c] = j.id /\ j \in A!JobOf(c, j.id)
    BY <1>9 DEF Facts, A!JobsOwned
  <2>7. ai'.asked[c] = done.id /\ done \in A!JobOf(c, done.id)'
    BY <1>3, <2>2, <2>3, <2>6 DEF A!JobOf
  <2>8. done.id <= ai'.ids /\ thread[done.id] = "over"
    BY <1>2, <1>6, <2>2, <2>3 DEF Facts
  <2>9. A!JobsOwned'
    BY <2>2, <2>3, <2>7, <2>8 DEF A!JobsOwned
  <2> QED
    BY <2>3, <2>4, <2>5, <2>9 DEF A!IInv, A!OneJob
<1> QED
  BY <1>8, <1>9

LEMMA JobNext == A!IInv /\ [A!Next]_ai => A!IInv'
<1> SUFFICES ASSUME A!IInv, [A!Next]_ai PROVE A!IInv'
  OBVIOUS
<1>0. Facts
  BY JobFacts
<1>1. CASE UNCHANGED ai
  BY <1>1 DEF A!IInv, A!TypeOK, A!OneJob, A!ThreadsOwned, A!JobsOwned, A!JobOf
<1>2. CASE A!CoolsDown
  <2>1. ai' = [ai EXCEPT !.cooling = Tail(ai.cooling)] /\ Tail(ai.cooling) \in Seq(Texts)
    BY <1>0, <1>2 DEF A!CoolsDown, Facts, A!TypeOK
  <2>2. /\ ai'.jobs = ai.jobs /\ ai'.asked = ai.asked /\ ai'.thread = ai.thread /\ ai'.ids = ai.ids
        /\ ai'.owner = ai.owner /\ ai'.session = ai.session
    BY <1>0, <2>1 DEF Facts, A!TypeOK
  <2>3. A!TypeOK'
    BY <1>0, <2>1 DEF Facts, A!TypeOK
  <2>4. A!OneJob' /\ A!ThreadsOwned'
    BY <1>0, <2>2 DEF Facts, A!OneJob, A!ThreadsOwned
  <2>5. A!JobsOwned'
    BY <1>0, <2>2 DEF Facts, A!JobsOwned, A!JobOf
  <2> QED
    BY <2>3, <2>4, <2>5 DEF A!IInv
<1>3. ASSUME NEW c \in Clients, A!StartJob(c) PROVE A!IInv'
  BY <1>0, <1>3, JobStarts
<1>4. ASSUME NEW c \in Clients, A!SpawnFails(c) PROVE A!IInv'
  BY <1>0, <1>4, JobSpawnFails
<1>5. ASSUME NEW c \in Clients, A!PollJob(c) \/ A!Cancel(c) \/ A!DeleteSession(c) \/ A!Reset(c)
      PROVE  A!IInv'
  BY <1>0, <1>5, JobClientSteps
<1>6. ASSUME NEW id \in 1..Len(ai.thread), A!StartHelper(id) \/ A!HelperEnds(id) PROVE A!IInv'
  BY <1>0, <1>6, ThreadMoves
<1>7. ASSUME NEW id \in 1..Len(ai.thread), A!Finish(id) PROVE A!IInv'
  BY <1>0, <1>7, JobFinishes
<1> QED
  BY <1>1, <1>2, <1>3, <1>4, <1>5, <1>6, <1>7 DEF A!Next, A!ThreadStep

(* However jobs are cancelled, sessions deleted and connections replaced,   *)
(* there is one helper process at most, and the slot comes back, for every  *)
(* finite set of clients and every bound:                                   *)
(* start, poll, cancel, reset and the thread of a job of ai_text.rs.        *)
THEOREM OneJobAtATime == A!Spec => []SlotFollowsHelper
<1> FewClients
  BY ClientsAssumption DEF FewClients
<1>1. A!Init => A!IInv
  BY JobInit
<1>2. A!IInv /\ [A!Next]_ai => A!IInv'
  BY JobNext
<1>3. A!IInv => SlotFollowsHelper
  BY OneHelper DEF SlotFollowsHelper
<1> QED
  BY <1>1, <1>2, <1>3, PTL DEF A!Spec

-----------------------------------------------------------------------------
(* The developer history: what was cleared is not found again, what was     *)
(* flushed survives a crash.                                                *)

(* The first n of a sequence.                                               *)
LEMMA FirstOf ==
  ASSUME NEW s \in Seq(Nat), NEW n \in Nat, n <= Len(s)
  PROVE  SubSeq(s, 1, n) \in Seq(Nat) /\ Len(SubSeq(s, 1, n)) = n
         /\ \A i \in 1..n : SubSeq(s, 1, n)[i] = s[i]
OBVIOUS

LEMMA SameSize == \A S : H!Cardinality(S) = Cardinality(S)
BY DEF H!Cardinality, Cardinality

(* What the steps are read from.                                            *)
Shape ==
  /\ ih.up \in {"up", "down", "recover", "cleanup", "repair", "refused"}
  /\ ih.file \in {H!Absent} \union H!Images /\ ih.synced \in Nat /\ ih.tail \in BOOLEAN
  /\ ih.dir \in H!Dirs /\ ih.mem \in H!Memories
  /\ ih.next \in Nat /\ ih.compactions \in Nat /\ ih.crashes \in Nat
  /\ ih.gone \in SUBSET Nat /\ ih.owed \in SUBSET Nat

LEMMA Typed == H!TypeOK => Shape
BY DEF H!TypeOK, Shape

(* A step is given by the values it leaves in each of the fields.           *)
Becomes(up, file, synced, tail, dir, mem, next, compactions, crashes, gone, owed) ==
  /\ ih' = [ih EXCEPT !.up = up, !.file = file, !.synced = synced, !.tail = tail, !.dir = dir,
                      !.mem = mem, !.next = next, !.compactions = compactions,
                      !.crashes = crashes, !.gone = gone, !.owed = owed]
  /\ up \in {"up", "down", "recover", "cleanup", "repair", "refused"}
  /\ file \in {H!Absent} \union H!Images /\ synced \in Nat /\ tail \in BOOLEAN
  /\ dir \in H!Dirs /\ mem \in H!Memories
  /\ next \in Nat /\ compactions \in Nat /\ crashes \in Nat
  /\ gone \in SUBSET Nat /\ owed \in SUBSET Nat

LEMMA Became ==
  ASSUME H!TypeOK, NEW up, NEW file, NEW synced, NEW tail, NEW dir, NEW mem, NEW next,
         NEW compactions, NEW crashes, NEW gone, NEW owed,
         Becomes(up, file, synced, tail, dir, mem, next, compactions, crashes, gone, owed)
  PROVE  /\ H!TypeOK' /\ ih'.up = up /\ ih'.file = file /\ ih'.synced = synced /\ ih'.dir = dir /\ ih'.mem = mem
         /\ ih'.next = next /\ ih'.gone = gone /\ ih'.owed = owed
BY DEF H!TypeOK, Becomes

LEMMA HistoryInit == H!Init => H!IInv
<1> SUFFICES ASSUME H!Init PROVE H!IInv
  OBVIOUS
<1>1. H!Started \in H!Memories
  <2>1. [w \in Writers |-> [id |-> 0, epoch |-> 0]] \in [Writers -> [id : Nat, epoch : Nat]]
    OBVIOUS
  <2>2. [c \in Clearers |-> [at |-> "rest", epoch |-> 0, before |-> {}]]
          \in [Clearers -> [at : {"rest", "send", "wait"}, epoch : Nat, before : SUBSET Nat]]
    OBVIOUS
  <2>3. <<>> \in Seq(H!Commands)
    OBVIOUS
  <2> QED
    BY <2>1, <2>2, <2>3 DEF H!Started, H!Memories
<1>2. H!NoTransaction \in H!Dirs
  BY DEF H!NoTransaction, H!Dirs
<1>3. H!Image(<<>>) \in H!Images /\ H!Image(<<>>).records = <<>> /\ H!Image(<<>>) # H!Absent
  BY DEF H!Image, H!Images, H!Absent
<1>4. H!TypeOK
  BY <1>1, <1>2, <1>3 DEF H!Init, H!TypeOK
<1>5. /\ ih.up = "up" /\ ih.file = H!Image(<<>>) /\ ih.synced = 0 /\ ih.dir = H!NoTransaction
      /\ ih.mem = H!Started /\ ih.next = 1 /\ ih.gone = {} /\ ih.owed = {}
  BY DEF H!Init
<1>6. /\ ih.mem.handle = TRUE /\ ih.mem.at = "idle" /\ ih.mem.done = {} /\ ih.mem.queue = <<>>
      /\ \A w \in Writers : ih.mem.taking[w].id = 0
      /\ \A c \in Clearers : ih.mem.clearing[c].at = "rest"
  BY <1>5 DEF H!Started
<1>7. H!DirOK
  BY <1>5, <1>6 DEF H!DirOK, H!NoTransaction, H!Up
<1>8. H!AwayOK /\ H!OwedOK /\ H!DoneOK /\ H!GoneOK
  BY <1>3, <1>5, <1>6 DEF H!AwayOK, H!OwedOK, H!DoneOK, H!GoneOK
<1>9. H!RecordsJudged /\ H!ClearsOK
  BY <1>5, <1>6 DEF H!RecordsJudged, H!ClearsOK
<1> QED
  BY <1>4, <1>7, <1>8, <1>9 DEF H!IInv

LEMMA HistoryShown == H!IInv => H!ClearedStaysCleared /\ H!FlushedSurvives
<1> SUFFICES ASSUME H!IInv PROVE H!ClearedStaysCleared /\ H!FlushedSurvives
  OBVIOUS
<1>0. Shape /\ H!DirOK /\ H!AwayOK /\ H!OwedOK /\ H!GoneOK
  BY Typed DEF H!IInv
<1>1. H!ClearedStaysCleared
  BY <1>0 DEF H!GoneOK, H!ClearedStaysCleared, H!Held
<1>2. ih.file # H!Absent => ih.owed \subseteq H!Held(ih.file)
  <2> SUFFICES ASSUME ih.file # H!Absent, NEW id \in ih.owed PROVE id \in H!Held(ih.file)
    OBVIOUS
  <2>1. ih.file.is = "image" /\ ih.file.records \in Seq(Nat)
    BY <1>0 DEF Shape, H!Images
  <2>2. PICK i \in 1..ih.synced : ih.file.records[i] = id
    BY <1>0 DEF H!OwedOK
  <2>3. i \in 1..Len(ih.file.records)
    BY <1>0, <2>1 DEF H!OwedOK, Shape
  <2> QED
    BY <2>1, <2>2, <2>3 DEF H!Held, H!ToSet
<1>3. H!Up /\ ih.mem.handle => ih.file # H!Absent
  BY <1>0 DEF H!DirOK, H!AwayOK, H!NoTransaction, H!Absent
<1> QED
  BY <1>0, <1>1, <1>2, <1>3 DEF H!FlushedSurvives, H!AwayOK

(* The same facts of a memory that is not yet the engine's.                 *)
JudgedBy(r, mem, next, gone) ==
  /\ r.id < next /\ r.epoch <= mem.epoch
  /\ r.id \in gone => r.epoch < mem.cleared
  /\ \A c \in Clearers : mem.clearing[c].at # "rest" /\ r.id \in mem.clearing[c].before =>
       r.epoch < mem.clearing[c].epoch

RecordsBy(mem, next, gone) ==
  /\ \A w \in Writers : mem.taking[w].id # 0 => JudgedBy(mem.taking[w], mem, next, gone)
  /\ \A i \in 1..Len(mem.queue) : mem.queue[i].do = "append" => JudgedBy(mem.queue[i], mem, next, gone)

Awaited(i, mem) ==
  /\ mem.clearing[mem.queue[i].by].at = "wait"
  /\ mem.queue[i].epoch = mem.clearing[mem.queue[i].by].epoch
  /\ \A k \in 1..Len(mem.queue) :
       mem.queue[k].do = "clear" /\ mem.queue[k].by = mem.queue[i].by => k = i

ClearsBy(mem, next, gone) ==
  /\ next > 0 /\ \A id \in gone : id < next
  /\ \A c \in Clearers : mem.clearing[c].at # "rest" => \A id \in mem.clearing[c].before : id < next
  /\ \A i \in 1..Len(mem.queue) : mem.queue[i].do = "clear" => Awaited(i, mem)

LEMMA Rests ==
  /\ H!RecordsJudged <=> RecordsBy(ih.mem, ih.next, ih.gone)
  /\ H!ClearsOK <=> ClearsBy(ih.mem, ih.next, ih.gone)
  /\ H!RecordsJudged' <=> RecordsBy(ih'.mem, ih'.next, ih'.gone)
  /\ H!ClearsOK' <=> ClearsBy(ih'.mem, ih'.next, ih'.gone)
BY DEF H!RecordsJudged, H!ClearsOK, H!Judged, RecordsBy, ClearsBy, JudgedBy, Awaited

SameDisk ==
  /\ ih'.up = ih.up /\ ih'.file = ih.file /\ ih'.synced = ih.synced /\ ih'.dir = ih.dir
  /\ ih'.owed = ih.owed /\ ih'.gone = ih.gone /\ ih'.mem.at = ih.mem.at /\ ih'.mem.handle = ih.mem.handle
  /\ ih'.mem.failed = ih.mem.failed /\ ih'.mem.done = ih.mem.done
DiskOK == H!DirOK /\ H!AwayOK /\ H!OwedOK /\ H!DoneOK /\ H!GoneOK

LEMMA DiskFrame == DiskOK /\ SameDisk => DiskOK'
BY DEF DiskOK, SameDisk, H!DirOK, H!AwayOK, H!OwedOK, H!DoneOK, H!GoneOK, H!Up

SameCalls ==
  /\ ih'.next = ih.next /\ ih'.gone = ih.gone /\ ih'.mem.queue = ih.mem.queue
  /\ ih'.mem.taking = ih.mem.taking /\ ih'.mem.clearing = ih.mem.clearing
  /\ ih'.mem.epoch = ih.mem.epoch /\ ih'.mem.cleared = ih.mem.cleared
CallsOK == H!RecordsJudged /\ H!ClearsOK

LEMMA CallsFrame == CallsOK /\ SameCalls => CallsOK'
BY DEF CallsOK, SameCalls, H!RecordsJudged, H!ClearsOK, H!Judged

LEMMA Together ==
  /\ H!IInv <=> H!TypeOK /\ DiskOK /\ CallsOK
  /\ H!IInv' <=> H!TypeOK' /\ DiskOK' /\ CallsOK'
BY DEF H!IInv, DiskOK, CallsOK

(* The callers leave the disk alone.                                        *)
Calls(mem, next) ==
  /\ Becomes(ih.up, ih.file, ih.synced, ih.tail, ih.dir, mem, next, ih.compactions, ih.crashes,
             ih.gone, ih.owed)
  /\ mem.at = ih.mem.at /\ mem.handle = ih.mem.handle /\ mem.failed = ih.mem.failed
  /\ mem.done = ih.mem.done
  /\ RecordsBy(mem, next, ih.gone) /\ ClearsBy(mem, next, ih.gone)

LEMMA CallsKeep ==
  ASSUME H!IInv, NEW mem, NEW next, Calls(mem, next)
  PROVE  H!IInv'
<1>0. H!TypeOK /\ DiskOK
  BY Together
<1>1. /\ H!TypeOK' /\ ih'.up = ih.up /\ ih'.file = ih.file /\ ih'.synced = ih.synced /\ ih'.dir = ih.dir
      /\ ih'.mem = mem /\ ih'.next = next /\ ih'.gone = ih.gone /\ ih'.owed = ih.owed
  BY <1>0, Became DEF Calls
<1>2. SameDisk
  BY <1>1 DEF Calls, SameDisk
<1>3. CallsOK'
  BY <1>1, Rests DEF Calls, CallsOK
<1> QED
  BY <1>0, <1>1, <1>2, <1>3, DiskFrame, Together

LEMMA Remembered ==
  ASSUME H!IInv
  PROVE  /\ Shape /\ H!TypeOK /\ RecordsBy(ih.mem, ih.next, ih.gone) /\ ClearsBy(ih.mem, ih.next, ih.gone)
         /\ ih.mem.epoch \in Nat /\ ih.mem.cleared \in Nat /\ ih.mem.queue \in Seq(H!Commands)
         /\ ih.mem.taking \in [Writers -> [id : Nat, epoch : Nat]]
         /\ ih.mem.clearing \in [Clearers -> [at : {"rest", "send", "wait"}, epoch : Nat, before : SUBSET Nat]]
         /\ ih.next \in Nat
<1>1. Shape /\ H!TypeOK
  BY Typed DEF H!IInv
<1> QED
  BY <1>1, Rests DEF H!IInv, Shape, H!Memories

LEMMA TakeStep ==
  ASSUME H!IInv, NEW w \in Writers, H!Take(w)
  PROVE  H!IInv'
<1> DEFINE r == [id |-> ih.next, epoch |-> ih.mem.epoch]
           mem == [ih.mem EXCEPT !.taking = [ih.mem.taking EXCEPT ![w] = r]]
<1>0. /\ Shape /\ H!TypeOK /\ RecordsBy(ih.mem, ih.next, ih.gone) /\ ClearsBy(ih.mem, ih.next, ih.gone)
      /\ ih.mem.epoch \in Nat /\ ih.mem.taking \in [Writers -> [id : Nat, epoch : Nat]]
      /\ ih.next \in Nat
  BY Remembered
<1>1. mem \in H!Memories
  BY <1>0 DEF H!Memories, Shape
<1>2. /\ mem.taking = [ih.mem.taking EXCEPT ![w] = r] /\ mem.queue = ih.mem.queue /\ mem.clearing = ih.mem.clearing
      /\ mem.epoch = ih.mem.epoch /\ mem.cleared = ih.mem.cleared
      /\ mem.at = ih.mem.at /\ mem.handle = ih.mem.handle /\ mem.failed = ih.mem.failed
      /\ mem.done = ih.mem.done
  BY <1>0 DEF H!Memories, Shape
<1>3. ih' = [ih EXCEPT !.up = ih.up, !.file = ih.file, !.synced = ih.synced, !.tail = ih.tail,
                      !.dir = ih.dir, !.mem = mem, !.next = ih.next + 1, !.compactions = ih.compactions,
                      !.crashes = ih.crashes, !.gone = ih.gone, !.owed = ih.owed]
  BY <1>0 DEF H!Take, H!TypeOK, H!Memories
<1> HIDE DEF mem
<1>4. Becomes(ih.up, ih.file, ih.synced, ih.tail, ih.dir, mem, ih.next + 1, ih.compactions, ih.crashes,
              ih.gone, ih.owed)
  BY <1>0, <1>1, <1>3 DEF Becomes, Shape
<1>5. JudgedBy(r, mem, ih.next + 1, ih.gone)
  BY <1>0, <1>2 DEF JudgedBy, ClearsBy
<1>6. ASSUME NEW q, q.id \in Nat, JudgedBy(q, ih.mem, ih.next, ih.gone) PROVE JudgedBy(q, mem, ih.next + 1, ih.gone)
  BY <1>0, <1>2, <1>6 DEF JudgedBy
<1>7. RecordsBy(mem, ih.next + 1, ih.gone)
  <2>1. ASSUME NEW v \in Writers, mem.taking[v].id # 0 PROVE JudgedBy(mem.taking[v], mem, ih.next + 1, ih.gone)
    BY <1>0, <1>2, <1>5, <1>6, <2>1 DEF RecordsBy
  <2>2. ASSUME NEW i \in 1..Len(mem.queue), mem.queue[i].do = "append"
        PROVE  JudgedBy(mem.queue[i], mem, ih.next + 1, ih.gone)
    <3>1. ih.mem.queue[i] \in H!Commands /\ ih.mem.queue[i].do = "append"
      BY <1>0, <1>2, <2>2, Remembered
    <3>2. ih.mem.queue[i].id \in Nat
      BY <3>1 DEF H!Commands
    <3> QED
      BY <1>0, <1>2, <1>6, <2>2, <3>2 DEF RecordsBy
  <2> QED
    BY <2>1, <2>2 DEF RecordsBy
<1>8. ClearsBy(mem, ih.next + 1, ih.gone)
  <2>1. ASSUME NEW id \in Nat, id < ih.next PROVE id < ih.next + 1
    BY <1>0, <2>1
  <2>2. ih.next + 1 > 0 /\ \A id \in ih.gone : id < ih.next + 1
    BY <1>0, <2>1 DEF ClearsBy, Shape
  <2>3. ASSUME NEW c \in Clearers, mem.clearing[c].at # "rest", NEW id \in mem.clearing[c].before
        PROVE  id < ih.next + 1
    <3>1. id \in Nat
      BY <1>2, <2>3, Remembered
    <3> QED
      BY <1>0, <1>2, <2>1, <2>3, <3>1 DEF ClearsBy
  <2>4. ASSUME NEW i \in 1..Len(mem.queue), mem.queue[i].do = "clear" PROVE Awaited(i, mem)
    BY <1>0, <1>2, <2>4 DEF ClearsBy, Awaited
  <2> QED
    BY <2>2, <2>3, <2>4 DEF ClearsBy
<1>9. Calls(mem, ih.next + 1)
  BY <1>2, <1>4, <1>7, <1>8 DEF Calls
<1> QED
  BY <1>9, CallsKeep

(* A command joins the queue.                                               *)
Queues(mem, cmd) ==
  /\ cmd \in H!Commands /\ mem.queue = Append(ih.mem.queue, cmd)
  /\ mem.epoch = ih.mem.epoch /\ mem.cleared = ih.mem.cleared
  /\ \A w \in Writers : mem.taking[w].id # 0 => mem.taking[w] = ih.mem.taking[w]
  /\ \A c \in Clearers : /\ mem.clearing[c].epoch = ih.mem.clearing[c].epoch
                         /\ mem.clearing[c].before = ih.mem.clearing[c].before
                         /\ mem.clearing[c].at = "rest" <=> ih.mem.clearing[c].at = "rest"
                         /\ ih.mem.clearing[c].at = "wait" => mem.clearing[c].at = "wait"
  /\ cmd.do = "append" => JudgedBy(cmd, ih.mem, ih.next, ih.gone)
  /\ cmd.do = "clear" => /\ mem.clearing[cmd.by].at = "wait" /\ ih.mem.clearing[cmd.by].at # "wait"
                         /\ cmd.epoch = mem.clearing[cmd.by].epoch

LEMMA Queued ==
  ASSUME H!IInv, NEW mem, NEW cmd, Queues(mem, cmd)
  PROVE  RecordsBy(mem, ih.next, ih.gone) /\ ClearsBy(mem, ih.next, ih.gone)
<1> USE DEF Queues
<1>0. /\ Shape /\ RecordsBy(ih.mem, ih.next, ih.gone) /\ ClearsBy(ih.mem, ih.next, ih.gone)
      /\ ih.mem.queue \in Seq(H!Commands)
  BY Remembered
<1>1. /\ Len(mem.queue) = Len(ih.mem.queue) + 1 /\ mem.queue[Len(ih.mem.queue) + 1] = cmd
      /\ Len(ih.mem.queue) \in Nat
      /\ \A i \in 1..Len(ih.mem.queue) : mem.queue[i] = ih.mem.queue[i] /\ ih.mem.queue[i] \in H!Commands
      /\ \A i \in 1..Len(mem.queue) : i \in 1..Len(ih.mem.queue) \/ i = Len(ih.mem.queue) + 1
  BY <1>0
<1>2. ASSUME NEW r, JudgedBy(r, ih.mem, ih.next, ih.gone) PROVE JudgedBy(r, mem, ih.next, ih.gone)
  BY <1>2 DEF JudgedBy
<1>3. ASSUME NEW w \in Writers, mem.taking[w].id # 0 PROVE JudgedBy(mem.taking[w], mem, ih.next, ih.gone)
  BY <1>0, <1>2, <1>3 DEF RecordsBy
<1>4. ASSUME NEW i \in 1..Len(mem.queue), mem.queue[i].do = "append"
      PROVE  JudgedBy(mem.queue[i], mem, ih.next, ih.gone)
  BY <1>0, <1>1, <1>2, <1>4 DEF RecordsBy
<1>5. ASSUME NEW c \in Clearers, mem.clearing[c].at # "rest", NEW id \in mem.clearing[c].before
      PROVE  id < ih.next
  BY <1>0, <1>5 DEF ClearsBy
<1>6. ASSUME NEW i \in 1..Len(mem.queue), mem.queue[i].do = "clear" PROVE Awaited(i, mem)
  <2>1. CASE i = Len(ih.mem.queue) + 1
    <3> SUFFICES ASSUME NEW k \in 1..Len(ih.mem.queue), mem.queue[k].do = "clear", mem.queue[k].by = cmd.by
                 PROVE  FALSE
      BY <1>1, <1>6, <2>1 DEF Awaited
    <3> QED
      BY <1>0, <1>1, <1>6, <2>1 DEF ClearsBy, Awaited
  <2>2. CASE i \in 1..Len(ih.mem.queue)
    <3>1. Awaited(i, ih.mem) /\ ih.mem.queue[i].by \in Clearers
      BY <1>0, <1>1, <1>6, <2>2 DEF ClearsBy, H!Commands
    <3>2. mem.clearing[mem.queue[i].by].at = "wait" /\ mem.queue[i].epoch = mem.clearing[mem.queue[i].by].epoch
      BY <1>1, <2>2, <3>1 DEF Awaited
    <3>3. ASSUME NEW k \in 1..Len(mem.queue), mem.queue[k].do = "clear", mem.queue[k].by = mem.queue[i].by
          PROVE  k = i
      <4>1. CASE k \in 1..Len(ih.mem.queue)
        BY <1>1, <2>2, <3>1, <3>3, <4>1 DEF Awaited
      <4>2. CASE k = Len(ih.mem.queue) + 1
        BY <1>1, <2>2, <3>1, <3>3, <4>2 DEF Awaited
      <4> QED
        BY <1>1, <4>1, <4>2
    <3> QED
      BY <3>2, <3>3 DEF Awaited
  <2> QED
    BY <1>1, <2>1, <2>2
<1>7. ih.next > 0 /\ \A id \in ih.gone : id < ih.next
  BY <1>0 DEF ClearsBy
<1> QED
  BY <1>3, <1>4, <1>5, <1>6, <1>7 DEF RecordsBy, ClearsBy

LEMMA EnqueueStep ==
  ASSUME H!IInv, NEW w \in Writers, H!Enqueue(w)
  PROVE  H!IInv'
<1> DEFINE cmd == [do |-> "append", id |-> ih.mem.taking[w].id, epoch |-> ih.mem.taking[w].epoch]
           queue == IF Len(ih.mem.queue) < QueueLimit THEN Append(ih.mem.queue, cmd) ELSE ih.mem.queue
           mem == [ih.mem EXCEPT !.taking = [ih.mem.taking EXCEPT ![w] = [id |-> 0, epoch |-> 0]],
                                 !.queue = queue]
<1>0. /\ Shape /\ H!TypeOK /\ RecordsBy(ih.mem, ih.next, ih.gone) /\ ClearsBy(ih.mem, ih.next, ih.gone)
      /\ ih.mem.taking \in [Writers -> [id : Nat, epoch : Nat]] /\ ih.mem.queue \in Seq(H!Commands)
  BY Remembered
<1>1. cmd \in H!Commands
  BY <1>0 DEF H!Commands
<1>2. queue \in Seq(H!Commands)
  BY <1>0, <1>1
<1>3. ih' = [ih EXCEPT !.up = ih.up, !.file = ih.file, !.synced = ih.synced, !.tail = ih.tail,
                      !.dir = ih.dir, !.mem = mem, !.next = ih.next, !.compactions = ih.compactions,
                      !.crashes = ih.crashes, !.gone = ih.gone, !.owed = ih.owed]
  BY <1>0 DEF H!Enqueue, H!TypeOK, H!Memories
<1>4. JudgedBy(cmd, ih.mem, ih.next, ih.gone)
  <2>1. JudgedBy(ih.mem.taking[w], ih.mem, ih.next, ih.gone)
    BY <1>0 DEF H!Enqueue, RecordsBy
  <2> QED
    BY <2>1 DEF JudgedBy
<1>5. queue = ih.mem.queue \/ queue = Append(ih.mem.queue, cmd)
  OBVIOUS
<1>6. cmd.do = "append"
  OBVIOUS
<1> HIDE DEF queue, cmd
<1>7. mem \in H!Memories
  BY <1>0, <1>2 DEF H!Memories, Shape
<1>8. /\ mem.taking = [ih.mem.taking EXCEPT ![w] = [id |-> 0, epoch |-> 0]] /\ mem.queue = queue
      /\ mem.clearing = ih.mem.clearing /\ mem.epoch = ih.mem.epoch /\ mem.cleared = ih.mem.cleared
      /\ mem.at = ih.mem.at /\ mem.handle = ih.mem.handle /\ mem.failed = ih.mem.failed
      /\ mem.done = ih.mem.done
  BY <1>0 DEF H!Memories, Shape
<1> HIDE DEF mem
<1>9. \A v \in Writers : mem.taking[v].id # 0 => mem.taking[v] = ih.mem.taking[v]
  BY <1>0, <1>8
<1>10. RecordsBy(mem, ih.next, ih.gone) /\ ClearsBy(mem, ih.next, ih.gone)
  <2>1. CASE queue = Append(ih.mem.queue, cmd)
    <3>1. Queues(mem, cmd)
      BY <1>1, <1>4, <1>6, <1>8, <1>9, <2>1 DEF Queues
    <3> QED
      BY <3>1, Queued
  <2>2. CASE queue = ih.mem.queue
    BY <1>0, <1>8, <1>9, <2>2 DEF RecordsBy, ClearsBy, JudgedBy, Awaited
  <2> QED
    BY <1>5, <2>1, <2>2
<1>11. Becomes(ih.up, ih.file, ih.synced, ih.tail, ih.dir, mem, ih.next, ih.compactions, ih.crashes,
              ih.gone, ih.owed)
  BY <1>0, <1>3, <1>7 DEF Becomes, Shape
<1>12. Calls(mem, ih.next)
  BY <1>8, <1>10, <1>11 DEF Calls
<1> QED
  BY <1>12, CallsKeep

LEMMA SendSteps ==
  ASSUME H!IInv, H!SendFlush \/ \E c \in Clearers : H!SendClear(c)
  PROVE  H!IInv'
<1>0. /\ Shape /\ H!TypeOK /\ RecordsBy(ih.mem, ih.next, ih.gone) /\ ClearsBy(ih.mem, ih.next, ih.gone)
      /\ ih.mem.queue \in Seq(H!Commands)
      /\ ih.mem.clearing \in [Clearers -> [at : {"rest", "send", "wait"}, epoch : Nat, before : SUBSET Nat]]
  BY Remembered
<1>1. CASE H!SendFlush
  <2> DEFINE cmd == [do |-> "flush"]
             mem == [ih.mem EXCEPT !.queue = Append(ih.mem.queue, cmd)]
  <2>1. cmd \in H!Commands /\ cmd.do = "flush"
    BY DEF H!Commands
  <2>2. Append(ih.mem.queue, cmd) \in Seq(H!Commands)
    BY <1>0, <2>1
  <2>3. ih' = [ih EXCEPT !.up = ih.up, !.file = ih.file, !.synced = ih.synced, !.tail = ih.tail,
                      !.dir = ih.dir, !.mem = mem, !.next = ih.next, !.compactions = ih.compactions,
                      !.crashes = ih.crashes, !.gone = ih.gone, !.owed = ih.owed]
    BY <1>0, <1>1 DEF H!SendFlush, H!TypeOK, H!Memories
  <2> HIDE DEF cmd
  <2>4. mem \in H!Memories
    BY <1>0, <2>2 DEF H!Memories, Shape
  <2>5. /\ mem.taking = ih.mem.taking /\ mem.queue = Append(ih.mem.queue, cmd)
        /\ mem.clearing = ih.mem.clearing /\ mem.epoch = ih.mem.epoch /\ mem.cleared = ih.mem.cleared
        /\ mem.at = ih.mem.at /\ mem.handle = ih.mem.handle /\ mem.failed = ih.mem.failed
        /\ mem.done = ih.mem.done
    BY <1>0 DEF H!Memories, Shape
  <2> HIDE DEF mem
  <2>6. Queues(mem, cmd)
    BY <2>1, <2>5 DEF Queues
  <2>7. Becomes(ih.up, ih.file, ih.synced, ih.tail, ih.dir, mem, ih.next, ih.compactions, ih.crashes,
                ih.gone, ih.owed)
    BY <1>0, <2>3, <2>4 DEF Becomes, Shape
  <2>8. Calls(mem, ih.next)
    BY <2>5, <2>6, <2>7, Queued DEF Calls
  <2> QED
    BY <2>8, CallsKeep
<1>2. ASSUME NEW c \in Clearers, H!SendClear(c) PROVE H!IInv'
  <2> DEFINE cmd == [do |-> "clear", by |-> c, epoch |-> ih.mem.clearing[c].epoch]
             call == [ih.mem.clearing[c] EXCEPT !.at = "wait"]
             clearing == [ih.mem.clearing EXCEPT ![c] = call]
             mem == [ih.mem EXCEPT !.clearing = clearing, !.queue = Append(ih.mem.queue, cmd)]
  <2>1. /\ cmd \in H!Commands /\ cmd.do = "clear" /\ cmd.by = c /\ cmd.epoch = ih.mem.clearing[c].epoch
        /\ ih.mem.clearing[c].at = "send"
    BY <1>0, <1>2 DEF H!Commands, H!SendClear
  <2>2. /\ call \in [at : {"rest", "send", "wait"}, epoch : Nat, before : SUBSET Nat] /\ call.at = "wait"
        /\ call.epoch = ih.mem.clearing[c].epoch /\ call.before = ih.mem.clearing[c].before
    BY <1>0
  <2>3. ih' = [ih EXCEPT !.up = ih.up, !.file = ih.file, !.synced = ih.synced, !.tail = ih.tail,
                      !.dir = ih.dir, !.mem = mem, !.next = ih.next, !.compactions = ih.compactions,
                      !.crashes = ih.crashes, !.gone = ih.gone, !.owed = ih.owed]
    BY <1>0, <1>2 DEF H!SendClear, H!TypeOK, H!Memories
  <2> HIDE DEF cmd, call
  <2>4. Append(ih.mem.queue, cmd) \in Seq(H!Commands)
    BY <1>0, <2>1
  <2>5. /\ clearing \in [Clearers -> [at : {"rest", "send", "wait"}, epoch : Nat, before : SUBSET Nat]]
        /\ clearing[c] = call /\ \A d \in Clearers \ {c} : clearing[d] = ih.mem.clearing[d]
    BY <1>0, <2>2
  <2> HIDE DEF clearing
  <2>6. mem \in H!Memories
    BY <1>0, <2>4, <2>5 DEF H!Memories, Shape
  <2>7. /\ mem.taking = ih.mem.taking /\ mem.queue = Append(ih.mem.queue, cmd)
        /\ mem.clearing = clearing /\ mem.epoch = ih.mem.epoch /\ mem.cleared = ih.mem.cleared
        /\ mem.at = ih.mem.at /\ mem.handle = ih.mem.handle /\ mem.failed = ih.mem.failed
        /\ mem.done = ih.mem.done
    BY <1>0 DEF H!Memories, Shape
  <2> HIDE DEF mem
  <2>8. \A d \in Clearers : /\ mem.clearing[d].epoch = ih.mem.clearing[d].epoch
                            /\ mem.clearing[d].before = ih.mem.clearing[d].before
                            /\ mem.clearing[d].at = "rest" <=> ih.mem.clearing[d].at = "rest"
                            /\ ih.mem.clearing[d].at = "wait" => mem.clearing[d].at = "wait"
    BY <2>1, <2>2, <2>5, <2>7
  <2>9. Queues(mem, cmd)
    BY <2>1, <2>2, <2>5, <2>7, <2>8 DEF Queues
  <2>10. Becomes(ih.up, ih.file, ih.synced, ih.tail, ih.dir, mem, ih.next, ih.compactions, ih.crashes,
                ih.gone, ih.owed)
    BY <1>0, <2>3, <2>6 DEF Becomes, Shape
  <2>11. Calls(mem, ih.next)
    BY <2>7, <2>9, <2>10, Queued DEF Calls
  <2> QED
    BY <2>11, CallsKeep
<1> QED
  BY <1>1, <1>2

LEMMA BeginClearStep ==
  ASSUME H!IInv, NEW c \in Clearers, H!BeginClear(c)
  PROVE  H!IInv'
<1> DEFINE call == [at |-> "send", epoch |-> ih.mem.epoch + 1, before |-> H!Taken]
           clearing == [ih.mem.clearing EXCEPT ![c] = call]
           mem == [ih.mem EXCEPT !.epoch = ih.mem.epoch + 1, !.clearing = clearing]
<1>0. /\ Shape /\ H!TypeOK /\ RecordsBy(ih.mem, ih.next, ih.gone) /\ ClearsBy(ih.mem, ih.next, ih.gone)
      /\ ih.mem.queue \in Seq(H!Commands) /\ ih.mem.epoch \in Nat /\ ih.next \in Nat
      /\ ih.mem.taking \in [Writers -> [id : Nat, epoch : Nat]]
      /\ ih.mem.clearing \in [Clearers -> [at : {"rest", "send", "wait"}, epoch : Nat, before : SUBSET Nat]]
  BY Remembered
<1>1. call \in [at : {"rest", "send", "wait"}, epoch : Nat, before : SUBSET Nat]
  BY <1>0 DEF H!Taken
<1>2. ih.mem.clearing[c].at = "rest" /\ call.epoch = ih.mem.epoch + 1 /\ \A id \in call.before : id < ih.next
  BY <1>0 DEF H!BeginClear, H!Taken
<1>3. ih' = [ih EXCEPT !.up = ih.up, !.file = ih.file, !.synced = ih.synced, !.tail = ih.tail,
                      !.dir = ih.dir, !.mem = mem, !.next = ih.next, !.compactions = ih.compactions,
                      !.crashes = ih.crashes, !.gone = ih.gone, !.owed = ih.owed]
  BY <1>0 DEF H!BeginClear, H!TypeOK, H!Memories
<1> HIDE DEF call
<1>4. /\ clearing \in [Clearers -> [at : {"rest", "send", "wait"}, epoch : Nat, before : SUBSET Nat]]
      /\ clearing[c] = call /\ \A d \in Clearers \ {c} : clearing[d] = ih.mem.clearing[d]
  BY <1>0, <1>1
<1>5. ih.mem.epoch + 1 \in Nat
  BY <1>0
<1> HIDE DEF clearing
<1>6. mem \in H!Memories
  BY <1>0, <1>4, <1>5 DEF H!Memories, Shape
<1>7. /\ mem.taking = ih.mem.taking /\ mem.queue = ih.mem.queue
      /\ mem.clearing = clearing /\ mem.epoch = ih.mem.epoch + 1 /\ mem.cleared = ih.mem.cleared
      /\ mem.at = ih.mem.at /\ mem.handle = ih.mem.handle /\ mem.failed = ih.mem.failed
      /\ mem.done = ih.mem.done
  BY <1>0 DEF H!Memories, Shape
<1> HIDE DEF mem
<1>8. ASSUME NEW r, r.epoch \in Nat, JudgedBy(r, ih.mem, ih.next, ih.gone)
      PROVE  JudgedBy(r, mem, ih.next, ih.gone)
  <2>1. r.epoch < ih.mem.epoch + 1 /\ r.epoch <= ih.mem.epoch + 1
    BY <1>0, <1>8 DEF JudgedBy
  <2> QED
    BY <1>2, <1>4, <1>7, <1>8, <2>1 DEF JudgedBy
<1>9. RecordsBy(mem, ih.next, ih.gone)
  <2>1. ASSUME NEW w \in Writers, mem.taking[w].id # 0 PROVE JudgedBy(mem.taking[w], mem, ih.next, ih.gone)
    <3>1. ih.mem.taking[w].epoch \in Nat
      BY <1>0
    <3> QED
      BY <1>0, <1>7, <1>8, <2>1, <3>1 DEF RecordsBy
  <2>2. ASSUME NEW i \in 1..Len(mem.queue), mem.queue[i].do = "append"
        PROVE  JudgedBy(mem.queue[i], mem, ih.next, ih.gone)
    <3>1. ih.mem.queue[i] \in H!Commands /\ ih.mem.queue[i].do = "append"
      BY <1>0, <1>7, <2>2
    <3>2. ih.mem.queue[i].epoch \in Nat
      BY <3>1 DEF H!Commands
    <3> QED
      BY <1>0, <1>7, <1>8, <2>2, <3>2 DEF RecordsBy
  <2> QED
    BY <2>1, <2>2 DEF RecordsBy
<1>10. ClearsBy(mem, ih.next, ih.gone)
  <2>1. ASSUME NEW d \in Clearers, mem.clearing[d].at # "rest", NEW id \in mem.clearing[d].before
        PROVE  id < ih.next
    BY <1>0, <1>2, <1>4, <1>7, <2>1 DEF ClearsBy
  <2>2. ASSUME NEW i \in 1..Len(mem.queue), mem.queue[i].do = "clear" PROVE Awaited(i, mem)
    <3>1. Awaited(i, ih.mem) /\ ih.mem.queue[i] \in H!Commands
      BY <1>0, <1>7, <2>2 DEF ClearsBy
    <3>2. ih.mem.queue[i].by \in Clearers \ {c}
      BY <1>2, <1>7, <2>2, <3>1 DEF Awaited, H!Commands
    <3> QED
      BY <1>4, <1>7, <3>1, <3>2 DEF Awaited
  <2> QED
    BY <1>0, <2>1, <2>2 DEF ClearsBy
<1>11. Becomes(ih.up, ih.file, ih.synced, ih.tail, ih.dir, mem, ih.next, ih.compactions, ih.crashes,
              ih.gone, ih.owed)
  BY <1>0, <1>3, <1>6 DEF Becomes, Shape
<1>12. Calls(mem, ih.next)
  BY <1>7, <1>9, <1>10, <1>11 DEF Calls
<1> QED
  BY <1>12, CallsKeep

(* The first command leaves the queue.                                      *)
Pops(mem) ==
  /\ ih.mem.queue # <<>> /\ mem.queue = Tail(ih.mem.queue) /\ mem.taking = ih.mem.taking
  /\ mem.clearing = ih.mem.clearing /\ mem.epoch = ih.mem.epoch /\ mem.cleared = ih.mem.cleared

LEMMA FirstGone ==
  ASSUME H!IInv, ih.mem.queue # <<>>
  PROVE  /\ Head(ih.mem.queue) = ih.mem.queue[1] /\ Head(ih.mem.queue) \in H!Commands
         /\ 1 \in 1..Len(ih.mem.queue) /\ Tail(ih.mem.queue) \in Seq(H!Commands)
         /\ \A i \in 1..Len(Tail(ih.mem.queue)) :
              /\ Tail(ih.mem.queue)[i] = ih.mem.queue[i + 1] /\ i + 1 \in 1..Len(ih.mem.queue)
              /\ Tail(ih.mem.queue)[i] \in H!Commands /\ i + 1 # 1
BY Remembered

LEMMA Popped ==
  ASSUME H!IInv, NEW mem, Pops(mem)
  PROVE  RecordsBy(mem, ih.next, ih.gone) /\ ClearsBy(mem, ih.next, ih.gone)
<1> USE DEF Pops
<1>0. RecordsBy(ih.mem, ih.next, ih.gone) /\ ClearsBy(ih.mem, ih.next, ih.gone)
  BY Remembered
<1>1. \A i \in 1..Len(mem.queue) : mem.queue[i] = ih.mem.queue[i + 1] /\ i + 1 \in 1..Len(ih.mem.queue)
  BY FirstGone
<1>2. RecordsBy(mem, ih.next, ih.gone)
  BY <1>0, <1>1 DEF RecordsBy, JudgedBy
<1>3. ASSUME NEW i \in 1..Len(mem.queue), mem.queue[i].do = "clear" PROVE Awaited(i, mem)
  <2>1. Awaited(i + 1, ih.mem)
    BY <1>0, <1>1, <1>3 DEF ClearsBy
  <2>2. ASSUME NEW k \in 1..Len(mem.queue), mem.queue[k].do = "clear", mem.queue[k].by = mem.queue[i].by
        PROVE  k = i
    <3>1. k + 1 = i + 1
      BY <1>1, <2>1, <2>2 DEF Awaited
    <3> QED
      BY <3>1
  <2> QED
    BY <1>1, <2>1, <2>2 DEF Awaited
<1> QED
  BY <1>0, <1>2, <1>3 DEF ClearsBy

LEMMA SkipStep ==
  ASSUME H!IInv, H!SkipAppend
  PROVE  H!IInv'
<1> DEFINE mem == [ih.mem EXCEPT !.queue = Tail(ih.mem.queue)]
<1>0. Shape /\ H!TypeOK /\ ih.mem.queue \in Seq(H!Commands)
  BY Remembered
<1>1. ih.mem.queue # <<>> /\ Tail(ih.mem.queue) \in Seq(H!Commands)
  BY FirstGone DEF H!SkipAppend, H!Commanded
<1>2. ih' = [ih EXCEPT !.up = ih.up, !.file = ih.file, !.synced = ih.synced, !.tail = ih.tail,
                      !.dir = ih.dir, !.mem = mem, !.next = ih.next, !.compactions = ih.compactions,
                      !.crashes = ih.crashes, !.gone = ih.gone, !.owed = ih.owed]
  BY <1>0 DEF H!SkipAppend, H!Popped, H!TypeOK, H!Memories
<1>3. mem \in H!Memories
  BY <1>0, <1>1 DEF H!Memories, Shape
<1>4. /\ mem.taking = ih.mem.taking /\ mem.queue = Tail(ih.mem.queue)
      /\ mem.clearing = ih.mem.clearing /\ mem.epoch = ih.mem.epoch /\ mem.cleared = ih.mem.cleared
      /\ mem.at = ih.mem.at /\ mem.handle = ih.mem.handle /\ mem.failed = ih.mem.failed
      /\ mem.done = ih.mem.done
  BY <1>0 DEF H!Memories, Shape
<1> HIDE DEF mem
<1>5. Pops(mem)
  BY <1>1, <1>4 DEF Pops
<1>6. Becomes(ih.up, ih.file, ih.synced, ih.tail, ih.dir, mem, ih.next, ih.compactions, ih.crashes,
              ih.gone, ih.owed)
  BY <1>0, <1>2, <1>3 DEF Becomes, Shape
<1>7. Calls(mem, ih.next)
  BY <1>4, <1>5, <1>6, Popped DEF Calls
<1> QED
  BY <1>7, CallsKeep

(* And of a disk that is not yet the engine's.                              *)
DirBy(up, dir, mem) ==
  /\ ~dir.open => dir = H!NoTransaction
  /\ up = "up" /\ mem.handle => ~dir.open /\ mem.at = "idle"
  /\ up = "repair" => ~dir.open
  /\ up = "up" /\ mem.at \notin {"idle", "cleanup"} => dir.open
  /\ up = "up" /\ mem.at = "temp" => dir.plan.is = "plan"
  /\ up = "up" /\ mem.at = "replace" => dir.temp.is = "image"
AwayBy(up, file, dir, mem, owed) ==
  file = H!Absent =>
    /\ dir.backup.is = "image" /\ owed \subseteq H!Held(dir.backup)
    /\ up \notin {"cleanup", "repair"} /\ (up = "up" => mem.at \in {"idle", "stuck"})
OwedBy(file, synced, owed) ==
  file # H!Absent =>
    /\ synced <= Len(file.records)
    /\ \A id \in owed : \E i \in 1..synced : file.records[i] = id
DoneBy(up, file, mem) ==
  up = "up" /\ ~mem.failed /\ (mem.handle \/ mem.at \notin {"idle", "stuck"}) =>
    mem.done \subseteq H!Held(file)
GoneBy(file, dir, gone) ==
  /\ \A image \in {file, dir.temp, dir.backup} : H!Held(image) \cap gone = {}
  /\ dir.plan.is = "plan" => H!Held(dir.plan.new) \cap gone = {}

LEMMA Disks ==
  /\ H!DirOK <=> DirBy(ih.up, ih.dir, ih.mem)
  /\ H!AwayOK <=> AwayBy(ih.up, ih.file, ih.dir, ih.mem, ih.owed)
  /\ H!OwedOK <=> OwedBy(ih.file, ih.synced, ih.owed)
  /\ H!DoneOK <=> DoneBy(ih.up, ih.file, ih.mem)
  /\ H!GoneOK <=> GoneBy(ih.file, ih.dir, ih.gone)
  /\ H!DirOK' <=> DirBy(ih'.up, ih'.dir, ih'.mem)
  /\ H!AwayOK' <=> AwayBy(ih'.up, ih'.file, ih'.dir, ih'.mem, ih'.owed)
  /\ H!OwedOK' <=> OwedBy(ih'.file, ih'.synced, ih'.owed)
  /\ H!DoneOK' <=> DoneBy(ih'.up, ih'.file, ih'.mem)
  /\ H!GoneOK' <=> GoneBy(ih'.file, ih'.dir, ih'.gone)
<1>1. H!DirOK <=> DirBy(ih.up, ih.dir, ih.mem)
  BY DEF H!DirOK, DirBy, H!Up
<1>2. H!AwayOK <=> AwayBy(ih.up, ih.file, ih.dir, ih.mem, ih.owed)
  BY DEF H!AwayOK, AwayBy, H!Up
<1>3. H!OwedOK <=> OwedBy(ih.file, ih.synced, ih.owed)
  BY DEF H!OwedOK, OwedBy
<1>4. H!DoneOK <=> DoneBy(ih.up, ih.file, ih.mem)
  BY DEF H!DoneOK, DoneBy, H!Up
<1>5. H!GoneOK <=> GoneBy(ih.file, ih.dir, ih.gone)
  BY DEF H!GoneOK, GoneBy
<1>6. H!DirOK' <=> DirBy(ih'.up, ih'.dir, ih'.mem)
  BY DEF H!DirOK, DirBy, H!Up
<1>7. H!AwayOK' <=> AwayBy(ih'.up, ih'.file, ih'.dir, ih'.mem, ih'.owed)
  BY DEF H!AwayOK, AwayBy, H!Up
<1>8. H!OwedOK' <=> OwedBy(ih'.file, ih'.synced, ih'.owed)
  BY DEF H!OwedOK, OwedBy
<1>9. H!DoneOK' <=> DoneBy(ih'.up, ih'.file, ih'.mem)
  BY DEF H!DoneOK, DoneBy, H!Up
<1>10. H!GoneOK' <=> GoneBy(ih'.file, ih'.dir, ih'.gone)
  BY DEF H!GoneOK, GoneBy
<1> QED
  BY <1>1, <1>2, <1>3, <1>4, <1>5, <1>6, <1>7, <1>8, <1>9, <1>10

Ends(up, file, synced, tail, dir, mem, next, compactions, crashes, gone, owed) ==
  /\ Becomes(up, file, synced, tail, dir, mem, next, compactions, crashes, gone, owed)
  /\ RecordsBy(mem, next, gone) /\ ClearsBy(mem, next, gone)
  /\ DirBy(up, dir, mem) /\ AwayBy(up, file, dir, mem, owed) /\ OwedBy(file, synced, owed)
  /\ DoneBy(up, file, mem) /\ GoneBy(file, dir, gone)

LEMMA Ended ==
  ASSUME H!IInv, NEW up, NEW file, NEW synced, NEW tail, NEW dir, NEW mem, NEW next,
         NEW compactions, NEW crashes, NEW gone, NEW owed,
         Ends(up, file, synced, tail, dir, mem, next, compactions, crashes, gone, owed)
  PROVE  H!IInv'
<1>0. H!TypeOK /\ Becomes(up, file, synced, tail, dir, mem, next, compactions, crashes, gone, owed)
  BY Together DEF Ends
<1>1. /\ H!TypeOK' /\ ih'.up = up /\ ih'.file = file /\ ih'.synced = synced /\ ih'.dir = dir /\ ih'.mem = mem
      /\ ih'.next = next /\ ih'.gone = gone /\ ih'.owed = owed
  BY <1>0, Became
<1>2. DiskOK'
  BY <1>1, Disks DEF Ends, DiskOK
<1>3. CallsOK'
  BY <1>1, Rests DEF Ends, CallsOK
<1> QED
  BY <1>1, <1>2, <1>3, Together

LEMMA Known ==
  ASSUME H!IInv
  PROVE  /\ Shape /\ H!TypeOK /\ RecordsBy(ih.mem, ih.next, ih.gone) /\ ClearsBy(ih.mem, ih.next, ih.gone)
         /\ DirBy(ih.up, ih.dir, ih.mem) /\ AwayBy(ih.up, ih.file, ih.dir, ih.mem, ih.owed)
         /\ OwedBy(ih.file, ih.synced, ih.owed) /\ DoneBy(ih.up, ih.file, ih.mem)
         /\ GoneBy(ih.file, ih.dir, ih.gone)
BY Remembered, Disks DEF H!IInv

(* What is in an image.                                                     *)
LEMMA Holding ==
  ASSUME NEW s \in Seq(Nat)
  PROVE  /\ H!Image(s) \in H!Images /\ H!Image(s).is = "image" /\ H!Image(s).records = s
         /\ H!Image(s) # H!Absent /\ H!Image(s) # H!Torn
         /\ H!Held(H!Image(s)) = {s[i] : i \in 1..Len(s)}
         /\ H!Held(H!Absent) = {} /\ H!Held(H!Torn) = {}
<1>1. DOMAIN s = 1..Len(s)
  OBVIOUS
<1> QED
  BY <1>1 DEF H!Image, H!Images, H!Absent, H!Torn, H!Held, H!ToSet

LEMMA AnImage ==
  ASSUME NEW f \in H!Images
  PROVE  /\ f.is = "image" /\ f.records \in Seq(Nat) /\ f = H!Image(f.records) /\ f # H!Absent
         /\ f # H!Torn /\ H!Held(f) = {f.records[i] : i \in 1..Len(f.records)} /\ Len(f.records) \in Nat
<1>1. /\ f.is = "image" /\ f.records \in Seq(Nat) /\ f = H!Image(f.records) /\ f # H!Absent /\ f # H!Torn
      /\ Len(f.records) \in Nat
  BY DEF H!Images, H!Image, H!Absent, H!Torn
<1> QED
  BY <1>1, Holding

(* A failed append leaves the file as it was, and no flush will answer for  *)
(* it.                                                                      *)
LEMMA FailedAppend ==
  ASSUME H!IInv, H!Commanded("append"), NEW tail \in BOOLEAN, ih' = H!AppendFailed(tail)
  PROVE  H!IInv'
<1> DEFINE id == Head(ih.mem.queue).id
           mem == [ih.mem EXCEPT !.queue = Tail(ih.mem.queue), !.done = ih.mem.done \cup {id},
                     !.failed = TRUE, !.blocked = ih.mem.blocked \/ tail]
<1>0. /\ Shape /\ H!TypeOK /\ ih.mem.queue # <<>> /\ Tail(ih.mem.queue) \in Seq(H!Commands)
      /\ Head(ih.mem.queue) \in H!Commands /\ Head(ih.mem.queue).do = "append"
  BY Known, FirstGone DEF H!Commanded
<1>1. id \in Nat
  BY <1>0 DEF H!Commands
<1>2. ih' = [ih EXCEPT !.up = ih.up, !.file = ih.file, !.synced = ih.synced, !.tail = tail,
                      !.dir = ih.dir, !.mem = mem, !.next = ih.next, !.compactions = ih.compactions,
                      !.crashes = ih.crashes, !.gone = ih.gone, !.owed = ih.owed]
  BY <1>0 DEF H!AppendFailed, H!Popped, H!TypeOK, H!Memories
<1> HIDE DEF id
<1>3. mem \in H!Memories
  <2>1. ih.mem.done \cup {id} \in SUBSET Nat /\ (ih.mem.blocked \/ tail) \in BOOLEAN
    BY <1>0, <1>1 DEF H!Memories, Shape
  <2> QED
    BY <1>0, <2>1 DEF H!Memories, Shape
<1>4. /\ mem.taking = ih.mem.taking /\ mem.queue = Tail(ih.mem.queue)
      /\ mem.clearing = ih.mem.clearing /\ mem.epoch = ih.mem.epoch /\ mem.cleared = ih.mem.cleared
      /\ mem.at = ih.mem.at /\ mem.handle = ih.mem.handle /\ mem.failed = TRUE
  BY <1>0 DEF H!Memories, Shape
<1> HIDE DEF mem
<1>5. Pops(mem)
  BY <1>0, <1>4 DEF Pops
<1>6. Becomes(ih.up, ih.file, ih.synced, tail, ih.dir, mem, ih.next, ih.compactions, ih.crashes,
              ih.gone, ih.owed)
  BY <1>0, <1>2, <1>3 DEF Becomes, Shape
<1>7. DirBy(ih.up, ih.dir, mem) /\ AwayBy(ih.up, ih.file, ih.dir, mem, ih.owed) /\ DoneBy(ih.up, ih.file, mem)
  BY <1>4, Known DEF DirBy, AwayBy, DoneBy
<1>8. Ends(ih.up, ih.file, ih.synced, tail, ih.dir, mem, ih.next, ih.compactions, ih.crashes,
           ih.gone, ih.owed)
  BY <1>5, <1>6, <1>7, Popped, Known DEF Ends
<1> QED
  BY <1>8, Ended

(* A record that is written was not taken before a clear.                   *)
LEMMA AppendStep ==
  ASSUME H!IInv, H!DoAppend
  PROVE  H!IInv'
<1> DEFINE id == Head(ih.mem.queue).id
           file == [ih.file EXCEPT !.records = Append(ih.file.records, id)]
           mem == [ih.mem EXCEPT !.queue = Tail(ih.mem.queue), !.done = ih.mem.done \cup {id}]
<1>0. /\ Shape /\ H!TypeOK /\ ih.mem.queue # <<>> /\ Tail(ih.mem.queue) \in Seq(H!Commands)
      /\ Head(ih.mem.queue) \in H!Commands /\ Head(ih.mem.queue).do = "append" /\ ih.up = "up"
      /\ H!Commanded("append")
  BY Known, FirstGone DEF H!Commanded, H!DoAppend, H!Up
<1>1. CASE \E tail \in BOOLEAN : ih' = H!AppendFailed(tail)
  BY <1>0, <1>1, FailedAppend
<1>2. CASE ih.mem.handle /\ ih' = [H!Popped EXCEPT !.mem.done = @ \union {Head(ih.mem.queue).id},
                                  !.file.records = Append(@, Head(ih.mem.queue).id)]
  <2>1. id \in Nat
    BY <1>0 DEF H!Commands
  <2>2. ih.file \in H!Images /\ ih.file # H!Absent
    BY <1>0, <1>2, Known DEF DirBy, AwayBy, H!NoTransaction, H!Absent, Shape
  <2>3. /\ ih.file.records \in Seq(Nat) /\ ih.file = H!Image(ih.file.records)
        /\ H!Held(ih.file) = {ih.file.records[i] : i \in 1..Len(ih.file.records)}
    BY <2>2, AnImage
  <2>4. ih' = [ih EXCEPT !.up = ih.up, !.file = file, !.synced = ih.synced, !.tail = ih.tail,
                      !.dir = ih.dir, !.mem = mem, !.next = ih.next, !.compactions = ih.compactions,
                      !.crashes = ih.crashes, !.gone = ih.gone, !.owed = ih.owed]
    BY <1>0, <1>2 DEF H!Popped, H!TypeOK, H!Memories
  <2>5. ~(id \in ih.gone)
    <3>1. JudgedBy(Head(ih.mem.queue), ih.mem, ih.next, ih.gone)
      BY <1>0, Known, FirstGone DEF RecordsBy
    <3>2. ~(Head(ih.mem.queue).epoch < ih.mem.cleared)
      BY DEF H!DoAppend, H!Superseded
    <3> QED
      BY <3>1, <3>2 DEF JudgedBy
  <2> DEFINE s == Append(ih.file.records, id)
  <2>6. /\ s \in Seq(Nat) /\ Len(s) = Len(ih.file.records) + 1 /\ s[Len(ih.file.records) + 1] = id
        /\ \A i \in 1..Len(ih.file.records) : s[i] = ih.file.records[i]
        /\ Len(ih.file.records) \in Nat
    BY <2>1, <2>3
  <2>7. file \in H!Images /\ file.records = s
    BY <2>2, <2>6 DEF H!Images
  <2>8. mem \in H!Memories
    <3>1. ih.mem.done \cup {id} \in SUBSET Nat
      BY <1>0, <2>1 DEF H!Memories, Shape
    <3> QED
      BY <1>0, <3>1 DEF H!Memories, Shape
  <2>9. /\ mem.taking = ih.mem.taking /\ mem.queue = Tail(ih.mem.queue)
        /\ mem.clearing = ih.mem.clearing /\ mem.epoch = ih.mem.epoch /\ mem.cleared = ih.mem.cleared
        /\ mem.at = ih.mem.at /\ mem.handle = ih.mem.handle /\ mem.failed = ih.mem.failed
        /\ mem.done = ih.mem.done \cup {id}
    BY <1>0 DEF H!Memories, Shape
  <2> HIDE DEF mem, file, s, id
  <2>10. /\ file \in H!Images /\ file.is = "image" /\ file.records = s /\ file # H!Absent
         /\ H!Held(file) = {s[i] : i \in 1..Len(s)}
    BY <2>7, AnImage
  <2>11. H!Held(file) = H!Held(ih.file) \cup {id}
    <3>1. \A i \in 1..Len(s) : i \in 1..Len(ih.file.records) \/ i = Len(ih.file.records) + 1
      BY <2>6
    <3>2. \A i \in 1..Len(ih.file.records) : i \in 1..Len(s)
      BY <2>6
    <3>3. Len(ih.file.records) + 1 \in 1..Len(s)
      BY <2>6
    <3>4. ASSUME NEW x \in H!Held(file) PROVE x \in H!Held(ih.file) \cup {id}
      <4>1. PICK i \in 1..Len(s) : s[i] = x
        BY <2>10
      <4> QED
        BY <2>3, <2>6, <3>1, <4>1
    <3>5. ASSUME NEW x \in H!Held(ih.file) PROVE x \in H!Held(file)
      <4>1. PICK i \in 1..Len(ih.file.records) : ih.file.records[i] = x
        BY <2>3
      <4> QED
        BY <2>6, <2>10, <3>2, <4>1
    <3>6. id \in H!Held(file)
      BY <2>6, <2>10, <3>3
    <3> QED
      BY <3>4, <3>5, <3>6
  <2>12. DirBy(ih.up, ih.dir, mem) /\ AwayBy(ih.up, file, ih.dir, mem, ih.owed)
    BY <2>9, <2>10, Known DEF DirBy, AwayBy
  <2>13. OwedBy(file, ih.synced, ih.owed)
    <3>1. OwedBy(ih.file, ih.synced, ih.owed) /\ ih.synced \in Nat
      BY <1>0, Known DEF Shape
    <3>2. ih.synced <= Len(s) /\ \A i \in 1..ih.synced : i \in 1..Len(ih.file.records)
      BY <2>2, <2>6, <3>1 DEF OwedBy
    <3> QED
      BY <2>2, <2>6, <2>10, <3>1, <3>2 DEF OwedBy
  <2>14. DoneBy(ih.up, file, mem)
    BY <2>9, <2>11, Known DEF DoneBy
  <2>15. GoneBy(file, ih.dir, ih.gone)
    BY <2>5, <2>11, Known DEF GoneBy
  <2>16. Pops(mem)
    BY <1>0, <2>9 DEF Pops
  <2>17. Becomes(ih.up, file, ih.synced, ih.tail, ih.dir, mem, ih.next, ih.compactions, ih.crashes,
              ih.gone, ih.owed)
    BY <1>0, <2>4, <2>8, <2>10 DEF Becomes, Shape
  <2>18. Ends(ih.up, file, ih.synced, ih.tail, ih.dir, mem, ih.next, ih.compactions, ih.crashes,
           ih.gone, ih.owed)
    BY <2>12, <2>13, <2>14, <2>15, <2>16, <2>17, Popped, Known DEF Ends
  <2> QED
    BY <2>18, Ended
<1> QED
  <2>1. ih.tail \in BOOLEAN
    BY <1>0 DEF Shape
  <2> QED
    BY <1>1, <1>2, <2>1 DEF H!DoAppend

LEMMA FlushStep ==
  ASSUME H!IInv, H!DoFlush
  PROVE  H!IInv'
<1> DEFINE mem == [ih.mem EXCEPT !.queue = Tail(ih.mem.queue)]
<1>0. /\ Shape /\ H!TypeOK /\ ih.mem.queue # <<>> /\ Tail(ih.mem.queue) \in Seq(H!Commands) /\ ih.up = "up"
  BY Known, FirstGone DEF H!DoFlush, H!Commanded, H!Up
<1>1. mem \in H!Memories
  BY <1>0 DEF H!Memories, Shape
<1>2. /\ mem.taking = ih.mem.taking /\ mem.queue = Tail(ih.mem.queue)
      /\ mem.clearing = ih.mem.clearing /\ mem.epoch = ih.mem.epoch /\ mem.cleared = ih.mem.cleared
      /\ mem.at = ih.mem.at /\ mem.handle = ih.mem.handle /\ mem.failed = ih.mem.failed
      /\ mem.done = ih.mem.done
  BY <1>0 DEF H!Memories, Shape
<1>3. DirBy(ih.up, ih.dir, mem) /\ DoneBy(ih.up, ih.file, mem)
  BY <1>2, Known DEF DirBy, DoneBy
<1>4. Pops(mem)
  BY <1>0, <1>2 DEF Pops
<1>5. CASE ih' = [H!Popped EXCEPT !.mem.queue = Tail(ih.mem.queue)]
  <2>1. ih' = [ih EXCEPT !.up = ih.up, !.file = ih.file, !.synced = ih.synced, !.tail = ih.tail,
                      !.dir = ih.dir, !.mem = mem, !.next = ih.next, !.compactions = ih.compactions,
                      !.crashes = ih.crashes, !.gone = ih.gone, !.owed = ih.owed]
    BY <1>0, <1>5 DEF H!Popped, H!TypeOK, H!Memories
  <2> HIDE DEF mem
  <2>2. Becomes(ih.up, ih.file, ih.synced, ih.tail, ih.dir, mem, ih.next, ih.compactions, ih.crashes,
              ih.gone, ih.owed)
    BY <1>0, <1>1, <2>1 DEF Becomes, Shape
  <2>3. AwayBy(ih.up, ih.file, ih.dir, mem, ih.owed)
    BY <1>2, Known DEF AwayBy
  <2>4. Ends(ih.up, ih.file, ih.synced, ih.tail, ih.dir, mem, ih.next, ih.compactions, ih.crashes,
           ih.gone, ih.owed)
    BY <1>3, <1>4, <2>2, <2>3, Popped, Known DEF Ends
  <2> QED
    BY <2>4, Ended
<1>6. CASE /\ ih.mem.handle
           /\ ih' = [H!Popped EXCEPT !.synced = Len(H!Records),
                       !.owed = IF ih.mem.failed THEN @ ELSE @ \union ih.mem.done]
  <2> DEFINE owed == IF ih.mem.failed THEN ih.owed ELSE ih.owed \cup ih.mem.done
             synced == Len(ih.file.records)
  <2>1. ih.file \in H!Images /\ ih.file # H!Absent
    BY <1>0, <1>6, Known DEF DirBy, AwayBy, H!NoTransaction, H!Absent, Shape
  <2>2. /\ ih.file.records \in Seq(Nat) /\ ih.file.is = "image" /\ synced \in Nat
        /\ H!Held(ih.file) = {ih.file.records[i] : i \in 1..Len(ih.file.records)}
    BY <2>1, AnImage
  <2>3. owed \in SUBSET Nat
    BY <1>0 DEF H!Memories, Shape
  <2>4. ih' = [ih EXCEPT !.up = ih.up, !.file = ih.file, !.synced = synced, !.tail = ih.tail,
                      !.dir = ih.dir, !.mem = mem, !.next = ih.next, !.compactions = ih.compactions,
                      !.crashes = ih.crashes, !.gone = ih.gone, !.owed = owed]
    BY <1>0, <1>6, <2>2 DEF H!Popped, H!TypeOK, H!Memories, H!Records
  <2>5. \A id \in owed : id \in H!Held(ih.file)
    <3>1. ih.owed \subseteq H!Held(ih.file)
      <4> SUFFICES ASSUME NEW id \in ih.owed PROVE id \in H!Held(ih.file)
        OBVIOUS
      <4>1. PICK i \in 1..ih.synced : ih.file.records[i] = id
        BY <2>1, Known DEF OwedBy
      <4>2. i \in 1..Len(ih.file.records)
        BY <1>0, <2>1, <2>2, Known DEF OwedBy, Shape
      <4> QED
        BY <2>2, <4>1, <4>2
    <3>2. ~ih.mem.failed => ih.mem.done \subseteq H!Held(ih.file)
      BY <1>0, <1>6, Known DEF DoneBy
    <3> QED
      BY <3>1, <3>2
  <2> HIDE DEF mem, owed
  <2>6. OwedBy(ih.file, synced, owed)
    <3>1. \A id \in owed : \E i \in 1..synced : ih.file.records[i] = id
      BY <2>2, <2>5
    <3> QED
      BY <2>2, <3>1 DEF OwedBy
  <2>7. AwayBy(ih.up, ih.file, ih.dir, mem, owed)
    BY <2>1 DEF AwayBy
  <2> HIDE DEF synced
  <2>8. Becomes(ih.up, ih.file, synced, ih.tail, ih.dir, mem, ih.next, ih.compactions, ih.crashes,
              ih.gone, owed)
    BY <1>0, <1>1, <2>2, <2>3, <2>4 DEF Becomes, Shape
  <2>9. Ends(ih.up, ih.file, synced, ih.tail, ih.dir, mem, ih.next, ih.compactions, ih.crashes,
           ih.gone, owed)
    BY <1>3, <1>4, <2>6, <2>7, <2>8, Popped, Known DEF Ends
  <2> QED
    BY <2>9, Ended
<1> QED
  BY <1>5, <1>6 DEF H!DoFlush

(* A clear is carried out: every record on its way that it covers is older. *)
HistoryAnswers(c, mem, gone) ==
  /\ ih.mem.queue # <<>> /\ Head(ih.mem.queue).do = "clear" /\ c = Head(ih.mem.queue).by
  /\ mem.queue = Tail(ih.mem.queue) /\ mem.taking = ih.mem.taking /\ mem.epoch = ih.mem.epoch
  /\ mem.cleared \in Nat /\ mem.cleared >= ih.mem.cleared /\ mem.cleared >= Head(ih.mem.queue).epoch
  /\ mem.clearing[c].at = "rest" /\ \A d \in Clearers \ {c} : mem.clearing[d] = ih.mem.clearing[d]
  /\ gone \in {ih.gone, ih.gone \cup ih.mem.clearing[c].before}

LEMMA Answered ==
  ASSUME H!IInv, NEW c, NEW mem, NEW gone, HistoryAnswers(c, mem, gone)
  PROVE  RecordsBy(mem, ih.next, gone) /\ ClearsBy(mem, ih.next, gone)
<1> USE DEF HistoryAnswers
<1>0. /\ RecordsBy(ih.mem, ih.next, ih.gone) /\ ClearsBy(ih.mem, ih.next, ih.gone)
      /\ ih.mem.cleared \in Nat /\ Shape
      /\ ih.mem.taking \in [Writers -> [id : Nat, epoch : Nat]]
      /\ ih.mem.clearing \in [Clearers -> [at : {"rest", "send", "wait"}, epoch : Nat, before : SUBSET Nat]]
  BY Remembered
<1>1. /\ ih.mem.queue[1] = Head(ih.mem.queue) /\ Head(ih.mem.queue) \in H!Commands /\ 1 \in 1..Len(ih.mem.queue)
      /\ \A i \in 1..Len(mem.queue) : /\ mem.queue[i] = ih.mem.queue[i + 1] /\ i + 1 \in 1..Len(ih.mem.queue)
                                      /\ mem.queue[i] \in H!Commands /\ i + 1 # 1
  BY FirstGone
<1>2. c \in Clearers /\ Head(ih.mem.queue).epoch \in Nat
  BY <1>1 DEF H!Commands
<1>3. Awaited(1, ih.mem)
  BY <1>0, <1>1 DEF ClearsBy
<1>4. ih.mem.clearing[c].at = "wait" /\ ih.mem.clearing[c].epoch = Head(ih.mem.queue).epoch
  BY <1>1, <1>3 DEF Awaited
<1>5. ASSUME NEW r, r.epoch \in Nat, JudgedBy(r, ih.mem, ih.next, ih.gone) PROVE JudgedBy(r, mem, ih.next, gone)
  <2>1. r.id \in ih.gone => r.epoch < mem.cleared
    BY <1>0, <1>5 DEF JudgedBy
  <2>2. r.id \in ih.mem.clearing[c].before => r.epoch < Head(ih.mem.queue).epoch
    BY <1>2, <1>4, <1>5 DEF JudgedBy
  <2>3. r.id \in ih.mem.clearing[c].before => r.epoch < mem.cleared
    BY <1>2, <1>5, <2>2
  <2> QED
    BY <1>5, <2>1, <2>3 DEF JudgedBy
<1>6. ASSUME NEW w \in Writers, mem.taking[w].id # 0 PROVE JudgedBy(mem.taking[w], mem, ih.next, gone)
  <2>1. mem.taking[w].epoch \in Nat /\ JudgedBy(mem.taking[w], ih.mem, ih.next, ih.gone)
    BY <1>0, <1>6 DEF RecordsBy
  <2> QED
    BY <1>5, <2>1
<1>7. ASSUME NEW i \in 1..Len(mem.queue), mem.queue[i].do = "append"
      PROVE  JudgedBy(mem.queue[i], mem, ih.next, gone)
  <2>1. mem.queue[i].epoch \in Nat
    BY <1>1, <1>7 DEF H!Commands
  <2>2. JudgedBy(mem.queue[i], ih.mem, ih.next, ih.gone)
    BY <1>0, <1>1, <1>7 DEF RecordsBy
  <2> QED
    BY <1>5, <2>1, <2>2
<1>8. ASSUME NEW d \in Clearers, mem.clearing[d].at # "rest", NEW id \in mem.clearing[d].before
      PROVE  id < ih.next
  BY <1>0, <1>8 DEF ClearsBy
<1>9. ASSUME NEW i \in 1..Len(mem.queue), mem.queue[i].do = "clear" PROVE Awaited(i, mem)
  <2>1. Awaited(i + 1, ih.mem)
    BY <1>0, <1>1, <1>9 DEF ClearsBy
  <2>2. mem.queue[i].by \in Clearers /\ mem.queue[i].by # c
    BY <1>1, <1>3, <1>9 DEF Awaited, H!Commands
  <2>3. ASSUME NEW k \in 1..Len(mem.queue), mem.queue[k].do = "clear", mem.queue[k].by = mem.queue[i].by
        PROVE  k = i
    <3>1. k + 1 = i + 1
      BY <1>1, <2>1, <2>3 DEF Awaited
    <3> QED
      BY <3>1
  <2> QED
    BY <1>1, <2>1, <2>2, <2>3 DEF Awaited
<1>10. ih.next > 0 /\ \A id \in gone : id < ih.next
  BY <1>0, <1>2, <1>4 DEF ClearsBy
<1> QED
  BY <1>6, <1>7, <1>8, <1>9, <1>10 DEF RecordsBy, ClearsBy

LEMMA ClearStep ==
  ASSUME H!IInv, H!DoClear
  PROVE  H!IInv'
<1> DEFINE first == Head(ih.mem.queue)
           c == first.by
           cleared == IF ih.mem.cleared < first.epoch THEN first.epoch ELSE ih.mem.cleared
           clearing == [ih.mem.clearing EXCEPT ![c] = [ih.mem.clearing[c] EXCEPT !.at = "rest"]]
           MemOf(failed, blocked, handle, done) ==
             [ih.mem EXCEPT !.queue = Tail(ih.mem.queue), !.clearing = clearing, !.cleared = cleared,
                !.failed = failed, !.blocked = blocked, !.handle = handle, !.done = done]
           before == ih.mem.clearing[c].before
<1>0. /\ Shape /\ H!TypeOK /\ ih.mem.queue # <<>> /\ Tail(ih.mem.queue) \in Seq(H!Commands) /\ ih.up = "up"
      /\ first \in H!Commands /\ first.do = "clear" /\ ih.mem.at = "idle"
      /\ ih.mem.clearing \in [Clearers -> [at : {"rest", "send", "wait"}, epoch : Nat, before : SUBSET Nat]]
      /\ ih.mem.cleared \in Nat /\ ih.mem.failed \in BOOLEAN /\ ih.mem.blocked \in BOOLEAN
      /\ ih.mem.handle \in BOOLEAN /\ ih.mem.done \in SUBSET Nat /\ ih.gone \in SUBSET Nat
  BY Known, FirstGone, Remembered DEF H!DoClear, H!Commanded, H!Up, Shape, H!Memories
<1>1. c \in Clearers /\ first.epoch \in Nat
  BY <1>0 DEF H!Commands
<1>2. /\ clearing \in [Clearers -> [at : {"rest", "send", "wait"}, epoch : Nat, before : SUBSET Nat]]
      /\ clearing[c].at = "rest" /\ \A d \in Clearers \ {c} : clearing[d] = ih.mem.clearing[d]
      /\ before \in SUBSET Nat
  BY <1>0, <1>1
<1>3. cleared \in Nat /\ cleared >= ih.mem.cleared /\ cleared >= first.epoch
  BY <1>0, <1>1
<1>4. ASSUME NEW failed \in BOOLEAN, NEW blocked \in BOOLEAN, NEW handle \in BOOLEAN, NEW done \in SUBSET Nat
      PROVE  /\ MemOf(failed, blocked, handle, done) \in H!Memories
             /\ MemOf(failed, blocked, handle, done).failed = failed
             /\ MemOf(failed, blocked, handle, done).handle = handle
             /\ MemOf(failed, blocked, handle, done).done = done
             /\ MemOf(failed, blocked, handle, done).at = "idle"
             /\ HistoryAnswers(c, MemOf(failed, blocked, handle, done), ih.gone)
             /\ HistoryAnswers(c, MemOf(failed, blocked, handle, done), ih.gone \cup before)
  <2> HIDE DEF cleared, clearing
  <2>1. MemOf(failed, blocked, handle, done) \in H!Memories
    BY <1>0, <1>2, <1>3 DEF Shape, H!Memories
  <2> DEFINE mem == MemOf(failed, blocked, handle, done)
  <2>2. /\ mem.failed = failed /\ mem.handle = handle /\ mem.done = done /\ mem.at = "idle"
        /\ mem.queue = Tail(ih.mem.queue) /\ mem.taking = ih.mem.taking /\ mem.epoch = ih.mem.epoch
        /\ mem.cleared = cleared /\ mem.clearing = clearing
    BY <1>0 DEF Shape, H!Memories
  <2> HIDE DEF mem, first
  <2>3. HistoryAnswers(c, mem, ih.gone) /\ HistoryAnswers(c, mem, ih.gone \cup before)
    BY <1>0, <1>2, <1>3, <2>2 DEF HistoryAnswers, first
  <2> QED
    BY <2>1, <2>2, <2>3 DEF mem
<1>11. ASSUME NEW failed \in BOOLEAN, NEW handle \in BOOLEAN
       PROVE  /\ MemOf(failed, failed, handle, {}) \in H!Memories
              /\ MemOf(failed, failed, handle, {}).failed = failed
              /\ MemOf(failed, failed, handle, {}).handle = handle
              /\ MemOf(failed, failed, handle, {}).done = {}
              /\ MemOf(failed, failed, handle, {}).at = "idle"
              /\ HistoryAnswers(c, MemOf(failed, failed, handle, {}), ih.gone)
              /\ HistoryAnswers(c, MemOf(failed, failed, handle, {}), ih.gone \cup before)
  <2> HIDE DEF cleared, clearing
  <2>1. MemOf(failed, failed, handle, {}) \in H!Memories
    BY <1>0, <1>2, <1>3 DEF Shape, H!Memories
  <2> DEFINE mem == MemOf(failed, failed, handle, {})
  <2>2. /\ mem.failed = failed /\ mem.handle = handle /\ mem.done = {} /\ mem.at = "idle"
        /\ mem.queue = Tail(ih.mem.queue) /\ mem.taking = ih.mem.taking /\ mem.epoch = ih.mem.epoch
        /\ mem.cleared = cleared /\ mem.clearing = clearing
    BY <1>0 DEF Shape, H!Memories
  <2> HIDE DEF mem, first
  <2>3. HistoryAnswers(c, mem, ih.gone) /\ HistoryAnswers(c, mem, ih.gone \cup before)
    BY <1>0, <1>2, <1>3, <2>2 DEF HistoryAnswers, first
  <2> QED
    BY <2>1, <2>2, <2>3 DEF mem
<1>9. PICK fails \in BOOLEAN : fails = (ih.mem.failed \/ ~ih.mem.handle)
  OBVIOUS
<1>10. PICK blocks \in BOOLEAN : blocks = (ih.mem.blocked \/ ~ih.mem.handle)
  OBVIOUS
<1> DEFINE refused == MemOf(fails, blocks, ih.mem.handle, ih.mem.done)
<1>5. CASE ih' = [ih EXCEPT !.mem = refused]
  <2>1. ih' = [ih EXCEPT !.up = ih.up, !.file = ih.file, !.synced = ih.synced, !.tail = ih.tail,
                      !.dir = ih.dir, !.mem = refused, !.next = ih.next, !.compactions = ih.compactions,
                      !.crashes = ih.crashes, !.gone = ih.gone, !.owed = ih.owed]
    BY <1>0, <1>5 DEF H!TypeOK
  <2>2. fails \in BOOLEAN /\ blocks \in BOOLEAN
    OBVIOUS
  <2>3. /\ refused \in H!Memories /\ refused.failed = fails
        /\ refused.handle = ih.mem.handle /\ refused.done = ih.mem.done /\ refused.at = "idle"
        /\ HistoryAnswers(c, refused, ih.gone)
    <3>1. ih.mem.handle \in BOOLEAN /\ ih.mem.done \in SUBSET Nat
      BY <1>0
    <3> HIDE DEF MemOf, c, before
    <3> QED
      BY <1>4, <2>2, <3>1
  <2> HIDE DEF MemOf, refused, c
  <2>4. Becomes(ih.up, ih.file, ih.synced, ih.tail, ih.dir, refused, ih.next, ih.compactions, ih.crashes,
                ih.gone, ih.owed)
    BY <1>0, <2>1, <2>3 DEF Becomes, Shape
  <2>5. DirBy(ih.up, ih.dir, refused) /\ AwayBy(ih.up, ih.file, ih.dir, refused, ih.owed)
    BY <1>0, <2>3, Known DEF DirBy, AwayBy
  <2>6. DoneBy(ih.up, ih.file, refused)
    BY <1>0, <1>9, <2>3, Known DEF DoneBy
  <2>7. RecordsBy(refused, ih.next, ih.gone) /\ ClearsBy(refused, ih.next, ih.gone)
    BY <2>3, Answered
  <2>8. Ends(ih.up, ih.file, ih.synced, ih.tail, ih.dir, refused, ih.next, ih.compactions, ih.crashes,
             ih.gone, ih.owed)
    BY <2>4, <2>5, <2>6, <2>7, Known DEF Ends
  <2> QED
    BY <2>8, Ended
<1>6. ASSUME ~ih.dir.open, NEW failed \in BOOLEAN, NEW handle \in BOOLEAN, NEW gone, gone \in {ih.gone, ih.gone \cup before},
             ih' = [ih EXCEPT !.file = H!Image(<<>>), !.synced = 0, !.tail = FALSE,
                      !.mem = MemOf(failed, failed, handle, {}), !.owed = {}, !.gone = gone]
      PROVE  H!IInv'
  <2> DEFINE mem == MemOf(failed, failed, handle, {})
  <2>1. ih' = [ih EXCEPT !.up = ih.up, !.file = H!Image(<<>>), !.synced = 0, !.tail = FALSE,
                      !.dir = ih.dir, !.mem = mem, !.next = ih.next, !.compactions = ih.compactions,
                      !.crashes = ih.crashes, !.gone = gone, !.owed = {}]
    BY <1>0, <1>6 DEF H!TypeOK
  <2>2. /\ mem \in H!Memories /\ mem.failed = failed /\ mem.handle = handle /\ mem.done = {} /\ mem.at = "idle"
        /\ HistoryAnswers(c, mem, gone)
    <3> HIDE DEF MemOf, c, before
    <3> QED
      BY <1>6, <1>11
  <2>3. gone \in SUBSET Nat
    BY <1>0, <1>2, <1>6
  <2> HIDE DEF MemOf, mem, c, before
  <2>4. /\ H!Image(<<>>) \in H!Images /\ H!Image(<<>>).records = <<>> /\ H!Image(<<>>) # H!Absent
        /\ H!Held(H!Image(<<>>)) = {}
    <3>1. <<>> \in Seq(Nat) /\ Len(<<>>) = 0 /\ 1..0 = {}
      OBVIOUS
    <3> QED
      BY <3>1, Holding
  <2>5. Becomes(ih.up, H!Image(<<>>), 0, FALSE, ih.dir, mem, ih.next, ih.compactions, ih.crashes, gone, {})
    BY <1>0, <2>1, <2>2, <2>3, <2>4 DEF Becomes, Shape
  <2>6. ih.dir = H!NoTransaction
    BY <1>6, Known DEF DirBy
  <2>7. DirBy(ih.up, ih.dir, mem)
    BY <1>0, <1>6, <2>2, <2>6 DEF DirBy
  <2>8. AwayBy(ih.up, H!Image(<<>>), ih.dir, mem, {}) /\ OwedBy(H!Image(<<>>), 0, {})
        /\ DoneBy(ih.up, H!Image(<<>>), mem)
    BY <2>2, <2>4 DEF AwayBy, OwedBy, DoneBy
  <2>9. GoneBy(H!Image(<<>>), ih.dir, gone)
    BY <2>4, <2>6 DEF GoneBy, H!NoTransaction, H!NoPlan, H!Absent, H!Held
  <2>10. RecordsBy(mem, ih.next, gone) /\ ClearsBy(mem, ih.next, gone)
    BY <2>2, Answered
  <2>11. Ends(ih.up, H!Image(<<>>), 0, FALSE, ih.dir, mem, ih.next, ih.compactions, ih.crashes, gone, {})
    BY <2>5, <2>7, <2>8, <2>9, <2>10 DEF Ends
  <2> QED
    BY <2>11, Ended
<1>7. \/ ih' = [ih EXCEPT !.mem = refused]
      \/ /\ ~ih.dir.open
         /\ \/ ih' = [ih EXCEPT !.file = H!Image(<<>>), !.synced = 0, !.tail = FALSE,
                      !.mem = MemOf(FALSE, FALSE, TRUE, {}), !.owed = {}, !.gone = ih.gone \cup before]
            \/ ih' = [ih EXCEPT !.file = H!Image(<<>>), !.synced = 0, !.tail = FALSE,
                      !.mem = MemOf(TRUE, TRUE, FALSE, {}), !.owed = {}, !.gone = ih.gone]
  <2> DEFINE Pop == [H!Popped EXCEPT !.mem.clearing[c].at = "rest",
                       !.mem.cleared = IF @ < first.epoch THEN first.epoch ELSE @]
             Ref == [Pop EXCEPT !.mem.failed = @ \/ ~ih.mem.handle,
                                !.mem.blocked = @ \/ ~ih.mem.handle]
             Clr == [Pop EXCEPT !.file = H!Image(<<>>), !.synced = 0, !.tail = FALSE,
                       !.mem.handle = TRUE, !.mem.failed = FALSE, !.mem.blocked = FALSE,
                       !.mem.done = {}, !.owed = {}, !.gone = @ \union before]
             Bro == [Clr EXCEPT !.mem.handle = FALSE, !.mem.failed = TRUE,
                       !.mem.blocked = TRUE, !.gone = ih.gone]
             part == [ih.mem EXCEPT !.queue = Tail(ih.mem.queue), !.clearing = clearing, !.cleared = cleared]
  <2>1. ih' \in {Ref} \cup (IF ih.dir.open THEN {} ELSE {Clr, Bro})
    BY DEF H!DoClear
  <2>2. Pop = [ih EXCEPT !.mem = part]
    BY <1>0 DEF H!Popped, H!TypeOK, H!Memories
  <2> HIDE DEF Pop, cleared, clearing, c, first, before
  <2> HIDE DEF part
  <2>6. Pop.mem = part
    BY <1>0, <2>2 DEF H!TypeOK
  <2>7. Ref = [ih EXCEPT !.mem = [part EXCEPT !.failed = part.failed \/ ~ih.mem.handle,
                                            !.blocked = part.blocked \/ ~ih.mem.handle]]
    BY <1>0, <2>2, <2>6 DEF H!TypeOK
  <2>3. Clr = [ih EXCEPT !.file = H!Image(<<>>), !.synced = 0, !.tail = FALSE, !.owed = {},
                    !.gone = ih.gone \cup before,
                    !.mem = [part EXCEPT !.handle = TRUE, !.failed = FALSE, !.blocked = FALSE, !.done = {}]]
    BY <1>0, <2>2, <2>6 DEF H!TypeOK
  <2> HIDE DEF Clr
  <2>4. Bro = [ih EXCEPT !.file = H!Image(<<>>), !.synced = 0, !.tail = FALSE, !.owed = {},
                    !.gone = ih.gone,
                    !.mem = [[part EXCEPT !.handle = TRUE, !.failed = FALSE, !.blocked = FALSE, !.done = {}]
                               EXCEPT !.handle = FALSE, !.failed = TRUE, !.blocked = TRUE]]
    BY <1>0, <2>3 DEF H!TypeOK
  <2>5. /\ [part EXCEPT !.failed = part.failed \/ ~ih.mem.handle, !.blocked = part.blocked \/ ~ih.mem.handle]
             = refused
        /\ [part EXCEPT !.handle = TRUE, !.failed = FALSE, !.blocked = FALSE, !.done = {}]
             = MemOf(FALSE, FALSE, TRUE, {})
        /\ [[part EXCEPT !.handle = TRUE, !.failed = FALSE, !.blocked = FALSE, !.done = {}]
               EXCEPT !.handle = FALSE, !.failed = TRUE, !.blocked = TRUE]
             = MemOf(TRUE, TRUE, FALSE, {})
    BY <1>0, <1>9, <1>10 DEF Shape, H!Memories, part
  <2> HIDE DEF MemOf, Bro, Ref, refused
  <2> QED
    BY <2>1, <2>3, <2>4, <2>5, <2>7
<1> QED
  BY <1>5, <1>6, <1>7

(* Every rank below the size of a finite set of numbers is some member's.   *)
LEMMA Ranked ==
  ASSUME NEW K \in SUBSET Nat, IsFiniteSet(K), NEW i \in 1..Cardinality(K)
  PROVE  \E r \in K : Cardinality({q \in K : q < r}) = i - 1
<1> DEFINE below(r) == {q \in K : q < r}
           k == Cardinality(K)
           ranks == 0..(k - 1)
           rank == [r \in K |-> Cardinality(below(r))]
<1>1. k \in Nat
  BY FS_CardinalityType
<1>2. ASSUME NEW r \in K PROVE IsFiniteSet(below(r)) /\ Cardinality(below(r)) \in ranks
  <2>1. below(r) \in SUBSET K /\ below(r) # K
    OBVIOUS
  <2>2. IsFiniteSet(below(r)) /\ Cardinality(below(r)) <= k /\ Cardinality(below(r)) # k
    BY <2>1, FS_Subset
  <2>3. Cardinality(below(r)) \in Nat
    BY <2>2, FS_CardinalityType
  <2> HIDE DEF below, k
  <2> QED
    BY <1>1, <2>2, <2>3
<1>3. ASSUME NEW r \in K, NEW s \in K, r < s PROVE Cardinality(below(r)) # Cardinality(below(s))
  <2>1. r \in Nat /\ s \in Nat /\ \A q \in K : q \in Nat
    OBVIOUS
  <2>4. \A q \in K : q < r => q < s
    BY <1>3, <2>1
  <2>5. below(r) \in SUBSET below(s)
    BY <2>4
  <2>6. r \in below(s)
    BY <1>3
  <2>7. ~(r < r)
    BY <2>1
  <2>8. r \notin below(r)
    BY <2>7
  <2>2. IsFiniteSet(below(s))
    BY <1>2
  <2> HIDE DEF below
  <2> QED
    BY <2>2, <2>5, <2>6, <2>8, FS_Subset
<1>4. rank \in [K -> ranks]
  BY <1>2
<1>5. \A r, s \in K : rank[r] = rank[s] => r = s
  <2> SUFFICES ASSUME NEW r \in K, NEW s \in K, r # s PROVE rank[r] # rank[s]
    OBVIOUS
  <2>1. r < s \/ s < r
    OBVIOUS
  <2> HIDE DEF below
  <2> QED
    BY <1>3, <2>1
<1>6. rank \in Injection(K, ranks)
  BY <1>4, <1>5, Fun_IsInj
<1>7. IsFiniteSet(ranks) /\ Cardinality(ranks) = k
  <2>1. 0 \in Int /\ k - 1 \in Int
    BY <1>1
  <2>2. IsFiniteSet(ranks) /\ Cardinality(ranks) = (IF 0 > k - 1 THEN 0 ELSE k - 1 - 0 + 1)
    BY <2>1, FS_Interval
  <2> QED
    BY <1>1, <2>2
<1>8. rank \in Surjection(K, ranks)
  BY <1>6, <1>7, FS_Injection
<1>9. i - 1 \in ranks
  BY <1>1
<1>10. \E r \in K : rank[r] = i - 1
  BY <1>8, <1>9 DEF Surjection
<1> QED
  BY <1>10

LEMMA FiniteImages ==
  ASSUME NEW s \in Seq(Nat)
  PROVE  H!ToSet(s) = {s[i] : i \in 1..Len(s)} /\ H!ToSet(s) \in SUBSET Nat /\ IsFiniteSet(H!ToSet(s))
<1>1. DOMAIN s = 1..Len(s) /\ Len(s) \in Nat /\ s \in [1..Len(s) -> Nat]
  OBVIOUS
<1>2. H!ToSet(s) = {s[i] : i \in 1..Len(s)}
  BY <1>1 DEF H!ToSet
<1>3. s \in Surjection(1..Len(s), H!ToSet(s))
  BY <1>1, <1>2 DEF Surjection
<1>4. IsFiniteSet(1..Len(s))
  BY <1>1, FS_Interval
<1> QED
  BY <1>1, <1>2, <1>3, <1>4, FS_Surjection

(* A compaction keeps records of the file.                                  *)
LEMMA KeptIsOfTheFile ==
  ASSUME H!Records \in Seq(Nat), NEW n
  PROVE  /\ H!Kept(n) \in Seq(Nat)
         /\ \A i \in 1..Len(H!Kept(n)) : H!Kept(n)[i] \in H!ToSet(H!Records)
<1> DEFINE all == H!ToSet(H!Records)
           kept == {r \in all : H!Cardinality({q \in all : q > r}) < n}
           k == H!Cardinality(kept)
           Pick(i) == CHOOSE r \in kept : H!Cardinality({q \in kept : q < r}) = i - 1
<1>1. all \in SUBSET Nat /\ IsFiniteSet(all)
  BY FiniteImages
<1> HIDE DEF all
<1>2. kept \in SUBSET Nat /\ kept \subseteq all
  BY <1>1
<1>3. IsFiniteSet(kept)
  BY <1>1, <1>2, FS_Subset
<1> HIDE DEF kept
<1>4. k = Cardinality(kept) /\ k \in Nat
  BY <1>3, SameSize, FS_CardinalityType
<1>5. ASSUME NEW i \in 1..k PROVE Pick(i) \in kept
  <2>1. \E r \in kept : Cardinality({q \in kept : q < r}) = i - 1
    BY <1>2, <1>3, <1>4, Ranked
  <2>2. \E r \in kept : H!Cardinality({q \in kept : q < r}) = i - 1
    BY <2>1, SameSize
  <2> QED
    BY <2>2
<1>6. H!Kept(n) = [i \in 1..k |-> Pick(i)]
  BY DEF H!Kept, all, kept
<1> HIDE DEF k, Pick
<1>7. H!Kept(n) \in [1..k -> kept] /\ [1..k -> kept] \subseteq [1..k -> Nat]
  BY <1>2, <1>5, <1>6
<1>8. H!Kept(n) \in Seq(Nat) /\ Len(H!Kept(n)) = k
  BY <1>4, <1>7
<1> QED
  BY <1>2, <1>7, <1>8 DEF all

(* A step of the writer or of the open leaves the calls alone.              *)
Silent(mem) ==
  /\ mem.queue = ih.mem.queue /\ mem.taking = ih.mem.taking /\ mem.clearing = ih.mem.clearing
  /\ mem.epoch = ih.mem.epoch /\ mem.cleared = ih.mem.cleared

LEMMA StaySilent ==
  ASSUME H!IInv, NEW mem, Silent(mem)
  PROVE  RecordsBy(mem, ih.next, ih.gone) /\ ClearsBy(mem, ih.next, ih.gone)
BY Known DEF Silent, RecordsBy, ClearsBy, JudgedBy, Awaited

(* A memory in which only the writer has moved.                             *)
MemAt(at, handle, done) == [ih.mem EXCEPT !.at = at, !.handle = handle, !.done = done]

LEMMA WriterMoves ==
  ASSUME H!IInv, NEW at, NEW handle, NEW done, handle \in BOOLEAN, done \in SUBSET Nat,
         at \in {"idle", "plan", "temp", "replace", "stuck", "sync", "cleanup"}
  PROVE  /\ MemAt(at, handle, done) \in H!Memories /\ MemAt(at, handle, done).at = at
         /\ MemAt(at, handle, done).handle = handle /\ MemAt(at, handle, done).done = done
         /\ MemAt(at, handle, done).failed = ih.mem.failed /\ Silent(MemAt(at, handle, done))
<1> DEFINE mem == MemAt(at, handle, done)
<1> USE DEF MemAt
<1>0. Shape
  BY Known
<1>1. mem \in H!Memories
  BY <1>0 DEF Shape, H!Memories
<1>2. mem.at = at /\ mem.handle = handle /\ mem.done = done /\ mem.failed = ih.mem.failed /\ Silent(mem)
  BY <1>0 DEF Shape, H!Memories, Silent
<1> QED
  BY <1>1, <1>2

LEMMA FileThere ==
  ASSUME H!IInv, ih.file # H!Absent
  PROVE  /\ ih.file \in H!Images /\ ih.file.is = "image" /\ ih.file.records \in Seq(Nat)
         /\ Len(ih.file.records) \in Nat /\ H!Records = ih.file.records
         /\ H!Held(ih.file) = {ih.file.records[i] : i \in 1..Len(ih.file.records)}
         /\ H!Held(ih.file) = H!ToSet(H!Records) /\ ih.owed \subseteq H!Held(ih.file)
<1>1. ih.file \in H!Images /\ ih.synced \in Nat
  BY Known DEF Shape
<1>2. /\ ih.file.is = "image" /\ ih.file.records \in Seq(Nat) /\ Len(ih.file.records) \in Nat
      /\ H!Held(ih.file) = {ih.file.records[i] : i \in 1..Len(ih.file.records)}
  BY <1>1, AnImage
<1>3. H!Records = ih.file.records
  BY <1>2 DEF H!Records
<1>4. H!Held(ih.file) = H!ToSet(H!Records)
  BY <1>2, <1>3 DEF H!Held
<1>5. ASSUME NEW id \in ih.owed PROVE id \in H!Held(ih.file)
  <2>1. PICK i \in 1..ih.synced : ih.file.records[i] = id
    BY Known DEF OwedBy
  <2>2. i \in 1..Len(ih.file.records)
    BY <1>1, <1>2, Known DEF OwedBy
  <2> QED
    BY <1>2, <2>1, <2>2
<1> QED
  BY <1>1, <1>2, <1>3, <1>4, <1>5

LEMMA BeginCompactionStep ==
  ASSUME H!IInv, H!BeginCompaction
  PROVE  H!IInv'
<1> DEFINE mem == MemAt("plan", FALSE, ih.mem.done)
<1>0. /\ Shape /\ H!TypeOK /\ ih.up = "up" /\ ih.mem.handle /\ ih.mem.done \in SUBSET Nat
      /\ ih.file # H!Absent
  BY Known DEF H!BeginCompaction, H!Up, Shape, H!Memories, DirBy, AwayBy, H!NoTransaction, H!Absent
<1>1. PICK plan \in {H!NoPlan, H!Torn} :
        ih' = [ih EXCEPT !.mem.at = "plan", !.mem.handle = FALSE, !.compactions = @ + 1,
                         !.dir = [H!NoTransaction EXCEPT !.open = TRUE, !.plan = plan]]
  BY DEF H!BeginCompaction
<1> DEFINE dir == [H!NoTransaction EXCEPT !.open = TRUE, !.plan = plan]
<1>2. /\ dir \in H!Dirs /\ dir.open = TRUE /\ dir.temp = H!Absent /\ dir.backup = H!Absent
      /\ dir.plan.is # "plan"
  <2>1. /\ H!NoTransaction \in H!Dirs /\ H!NoTransaction.temp = H!Absent
        /\ H!NoTransaction.backup = H!Absent
    BY DEF H!Dirs, H!NoTransaction
  <2>2. plan.is # "plan"
    BY DEF H!NoPlan, H!Torn
  <2> QED
    BY <2>1, <2>2 DEF H!Dirs
<1>10. ih' = [ih EXCEPT !.mem.at = "plan", !.mem.handle = FALSE, !.compactions = @ + 1, !.dir = dir]
  BY <1>1
<1> HIDE DEF dir
<1>3. /\ mem \in H!Memories /\ mem.at = "plan" /\ mem.handle = FALSE /\ mem.done = ih.mem.done
      /\ mem.failed = ih.mem.failed /\ Silent(mem)
  <2>1. mem \in H!Memories
    BY <1>0 DEF Shape, H!Memories, MemAt
  <2> QED
    BY <1>0, <2>1 DEF Shape, H!Memories, MemAt, Silent
<1>4. ih' = [ih EXCEPT !.up = ih.up, !.file = ih.file, !.synced = ih.synced, !.tail = ih.tail,
                      !.dir = dir, !.mem = mem, !.next = ih.next, !.compactions = ih.compactions + 1,
                      !.crashes = ih.crashes, !.gone = ih.gone, !.owed = ih.owed]
  <2>1. ih' = [ih EXCEPT !.mem = [ih.mem EXCEPT !.at = "plan", !.handle = FALSE],
                        !.compactions = ih.compactions + 1, !.dir = dir]
    BY <1>0, <1>10 DEF H!TypeOK
  <2>2. [ih.mem EXCEPT !.at = "plan", !.handle = FALSE] = mem
    BY <1>0 DEF Shape, H!Memories, MemAt
  <2> HIDE DEF mem
  <2> QED
    BY <1>0, <2>1, <2>2 DEF H!TypeOK
<1> HIDE DEF mem
<1>5. Becomes(ih.up, ih.file, ih.synced, ih.tail, dir, mem, ih.next, ih.compactions + 1, ih.crashes,
              ih.gone, ih.owed)
  BY <1>0, <1>2, <1>3, <1>4 DEF Becomes, Shape
<1>6. DirBy(ih.up, dir, mem) /\ AwayBy(ih.up, ih.file, dir, mem, ih.owed)
  BY <1>0, <1>2, <1>3 DEF DirBy, AwayBy
<1>7. DoneBy(ih.up, ih.file, mem)
  BY <1>0, <1>3, Known DEF DoneBy
<1>8. GoneBy(ih.file, dir, ih.gone)
  BY <1>2, Known DEF GoneBy, H!Held, H!Absent
<1>9. Ends(ih.up, ih.file, ih.synced, ih.tail, dir, mem, ih.next, ih.compactions + 1, ih.crashes,
           ih.gone, ih.owed)
  BY <1>3, <1>5, <1>6, <1>7, <1>8, StaySilent, Known DEF Ends
<1> QED
  BY <1>9, Ended

LEMMA WritePlanStep ==
  ASSUME H!IInv, H!WritePlan
  PROVE  H!IInv'
<1> DEFINE mem == MemAt("temp", ih.mem.handle, ih.mem.done)
<1>0. /\ Shape /\ H!TypeOK /\ ih.up = "up" /\ ih.mem.handle \in BOOLEAN /\ ~ih.mem.handle
      /\ ih.mem.done \in SUBSET Nat /\ ih.file # H!Absent /\ ih.dir \in H!Dirs /\ ih.dir.open
      /\ ih.mem.at = "plan"
  BY Known DEF H!WritePlan, H!Up, Shape, H!Memories, DirBy, AwayBy
<1>1. PICK n \in 0..Len(H!Records) :
        ih' = [ih EXCEPT !.mem.at = "temp", !.dir.plan = H!Plan(H!Image(H!Records), H!Image(H!Kept(n))),
                         !.dir.temp = H!Torn]
  BY DEF H!WritePlan
<1> DEFINE new  == H!Image(H!Kept(n))
           plan == H!Plan(H!Image(H!Records), new)
           dir  == [ih.dir EXCEPT !.plan = plan, !.temp = H!Torn]
<1>2. H!Records \in Seq(Nat) /\ H!Held(ih.file) = H!ToSet(H!Records)
  BY <1>0, FileThere
<1>3. H!Kept(n) \in Seq(Nat) /\ \A i \in 1..Len(H!Kept(n)) : H!Kept(n)[i] \in H!ToSet(H!Records)
  BY <1>2, KeptIsOfTheFile
<1>4. new \in H!Images /\ H!Image(H!Records) \in H!Images /\ H!Held(new) \subseteq H!Held(ih.file)
  <2>1. /\ new \in H!Images /\ H!Image(H!Records) \in H!Images
        /\ H!Held(new) = {H!Kept(n)[i] : i \in 1..Len(H!Kept(n))}
    BY <1>2, <1>3, Holding
  <2> HIDE DEF new
  <2> QED
    BY <1>2, <1>3, <2>1
<1> HIDE DEF new
<1>5. plan \in [is : {"plan"}, old : H!Images, new : H!Images] /\ plan.new = new /\ plan.is = "plan"
  BY <1>4 DEF H!Plan
<1> HIDE DEF plan
<1>6. /\ dir \in H!Dirs /\ dir.open = ih.dir.open /\ dir.temp = H!Torn /\ dir.backup = ih.dir.backup
      /\ dir.plan = plan
  BY <1>0, <1>5 DEF H!Dirs
<1>7. /\ mem \in H!Memories /\ mem.at = "temp" /\ mem.handle = ih.mem.handle /\ mem.done = ih.mem.done
      /\ mem.failed = ih.mem.failed /\ Silent(mem)
  <2>1. ih.mem.handle \in BOOLEAN /\ ih.mem.done \in SUBSET Nat
    BY <1>0
  <2> QED
    BY <2>1, WriterMoves
<1>8. ih' = [ih EXCEPT !.up = ih.up, !.file = ih.file, !.synced = ih.synced, !.tail = ih.tail,
                      !.dir = dir, !.mem = mem, !.next = ih.next, !.compactions = ih.compactions,
                      !.crashes = ih.crashes, !.gone = ih.gone, !.owed = ih.owed]
  <2>1. ih' = [ih EXCEPT !.mem.at = "temp", !.dir.plan = plan, !.dir.temp = H!Torn]
    BY <1>1 DEF plan, new
  <2>2. ih' = [ih EXCEPT !.mem = [ih.mem EXCEPT !.at = "temp"], !.dir = dir]
    BY <1>0, <2>1 DEF H!TypeOK
  <2>3. [ih.mem EXCEPT !.at = "temp"] = mem
    BY <1>0 DEF Shape, H!Memories, MemAt
  <2> HIDE DEF dir, mem
  <2> QED
    BY <1>0, <2>2, <2>3 DEF H!TypeOK
<1> HIDE DEF dir, mem
<1>9. Becomes(ih.up, ih.file, ih.synced, ih.tail, dir, mem, ih.next, ih.compactions, ih.crashes,
              ih.gone, ih.owed)
  BY <1>0, <1>6, <1>7, <1>8 DEF Becomes, Shape
<1>10. DirBy(ih.up, dir, mem) /\ AwayBy(ih.up, ih.file, dir, mem, ih.owed)
  BY <1>0, <1>5, <1>6, <1>7 DEF DirBy, AwayBy
<1>11. DoneBy(ih.up, ih.file, mem)
  BY <1>0, <1>7, Known DEF DoneBy
<1>12. GoneBy(ih.file, dir, ih.gone)
  BY <1>4, <1>5, <1>6, Known DEF GoneBy, H!Held, H!Torn
<1>13. Ends(ih.up, ih.file, ih.synced, ih.tail, dir, mem, ih.next, ih.compactions, ih.crashes,
           ih.gone, ih.owed)
  BY <1>7, <1>9, <1>10, <1>11, <1>12, StaySilent, Known DEF Ends
<1> QED
  BY <1>13, Ended

LEMMA WriteTempStep ==
  ASSUME H!IInv, H!WriteTemp
  PROVE  H!IInv'
<1> DEFINE mem == MemAt("replace", ih.mem.handle, ih.mem.done)
           new == ih.dir.plan.new
           dir == [ih.dir EXCEPT !.temp = new]
<1>0. /\ Shape /\ H!TypeOK /\ ih.up = "up" /\ ih.mem.handle \in BOOLEAN /\ ih.mem.handle # TRUE
      /\ ih.mem.done \in SUBSET Nat /\ ih.file # H!Absent /\ ih.dir \in H!Dirs /\ ih.dir.open
      /\ ih.mem.at = "temp" /\ ih.dir.plan.is = "plan"
  BY Known DEF H!WriteTemp, H!Up, Shape, H!Memories, DirBy, AwayBy
<1>1. new \in H!Images
  <2>1. ih.dir.plan \in {H!NoPlan, H!Torn} \cup [is : {"plan"}, old : H!Images, new : H!Images]
    BY <1>0 DEF H!Dirs
  <2> QED
    BY <1>0, <2>1 DEF H!NoPlan, H!Torn
<1> HIDE DEF new
<1>2. new.is = "image"
  BY <1>1 DEF H!Images
<1>3. /\ dir \in H!Dirs /\ dir.open = ih.dir.open /\ dir.temp = new /\ dir.backup = ih.dir.backup
      /\ dir.plan = ih.dir.plan
  BY <1>0, <1>1 DEF H!Dirs
<1>4. /\ mem \in H!Memories /\ mem.at = "replace" /\ mem.handle = ih.mem.handle /\ mem.done = ih.mem.done
      /\ mem.failed = ih.mem.failed /\ Silent(mem)
  <2>1. ih.mem.handle \in BOOLEAN /\ ih.mem.done \in SUBSET Nat
    BY <1>0
  <2> QED
    BY <2>1, WriterMoves
<1>5. ih' = [ih EXCEPT !.up = ih.up, !.file = ih.file, !.synced = ih.synced, !.tail = ih.tail,
                      !.dir = dir, !.mem = mem, !.next = ih.next, !.compactions = ih.compactions,
                      !.crashes = ih.crashes, !.gone = ih.gone, !.owed = ih.owed]
  <2>1. ih' = [ih EXCEPT !.mem = [ih.mem EXCEPT !.at = "replace"], !.dir = dir]
    BY <1>0 DEF H!WriteTemp, H!TypeOK, new
  <2>2. [ih.mem EXCEPT !.at = "replace"] = mem
    BY <1>0 DEF Shape, H!Memories, MemAt
  <2> HIDE DEF dir, mem
  <2> QED
    BY <1>0, <2>1, <2>2 DEF H!TypeOK
<1> HIDE DEF dir, mem
<1>6. Becomes(ih.up, ih.file, ih.synced, ih.tail, dir, mem, ih.next, ih.compactions, ih.crashes,
              ih.gone, ih.owed)
  BY <1>0, <1>3, <1>4, <1>5 DEF Becomes, Shape
<1>7. DirBy(ih.up, dir, mem) /\ AwayBy(ih.up, ih.file, dir, mem, ih.owed)
  BY <1>0, <1>2, <1>3, <1>4 DEF DirBy, AwayBy
<1>8. DoneBy(ih.up, ih.file, mem)
  BY <1>0, <1>4, Known DEF DoneBy
<1>9. GoneBy(ih.file, dir, ih.gone)
  BY <1>0, <1>3, Known DEF GoneBy, new
<1>10. Ends(ih.up, ih.file, ih.synced, ih.tail, dir, mem, ih.next, ih.compactions, ih.crashes,
           ih.gone, ih.owed)
  BY <1>4, <1>6, <1>7, <1>8, <1>9, StaySilent, Known DEF Ends
<1> QED
  BY <1>10, Ended

(* The rest of a step that leaves the calls alone.                          *)
LEMMA Settles ==
  ASSUME H!IInv, NEW up, NEW file, NEW synced, NEW tail, NEW dir, NEW mem, NEW crashes, NEW owed,
         Becomes(up, file, synced, tail, dir, mem, ih.next, ih.compactions, crashes, ih.gone, owed),
         Silent(mem), DirBy(up, dir, mem), AwayBy(up, file, dir, mem, owed),
         OwedBy(file, synced, owed), DoneBy(up, file, mem), GoneBy(file, dir, ih.gone)
  PROVE  H!IInv'
<1>1. Ends(up, file, synced, tail, dir, mem, ih.next, ih.compactions, crashes, ih.gone, owed)
  BY StaySilent DEF Ends
<1> QED
  BY <1>1, Ended

LEMMA ReplaceStep ==
  ASSUME H!IInv, H!Replace
  PROVE  H!IInv'
<1> DEFINE new     == ih.dir.temp
           retired == H!ToSet(H!Records) \ H!ToSet(new.records)
           away    == [ih.dir EXCEPT !.backup = ih.file]
           done    == [ih.dir EXCEPT !.backup = ih.file, !.temp = H!Absent]
           stuck   == MemAt("stuck", ih.mem.handle, ih.mem.done)
           sync    == MemAt("sync", ih.mem.handle, ih.mem.done \ retired)
           moved   == [ih EXCEPT !.file = H!Absent, !.dir.backup = ih.file, !.synced = 0, !.mem.at = "stuck"]
<1>0. /\ Shape /\ H!TypeOK /\ ih.up = "up" /\ ih.mem.handle \in BOOLEAN /\ ih.mem.handle # TRUE
      /\ ih.mem.done \in SUBSET Nat /\ ih.file # H!Absent /\ ih.dir \in H!Dirs /\ ih.dir.open
      /\ ih.mem.at = "replace" /\ ih.dir.temp.is = "image" /\ ih.owed \in SUBSET Nat
  BY Known DEF H!Replace, H!Up, Shape, H!Memories, DirBy, AwayBy
<1>1. new \in H!Images
  <2>1. ih.dir.temp \in {H!Absent, H!Torn} \cup H!Images
    BY <1>0 DEF H!Dirs
  <2> QED
    BY <1>0, <2>1 DEF H!Absent, H!Torn
<1>2. /\ new # H!Absent /\ new.records \in Seq(Nat) /\ Len(new.records) \in Nat /\ H!Held(new) = H!ToSet(new.records)
      /\ H!Held(new) = {new.records[i] : i \in 1..Len(new.records)}
  BY <1>1, AnImage DEF H!Held
<1>3. /\ ih.file \in H!Images /\ ih.file.is = "image" /\ H!Held(ih.file) = H!ToSet(H!Records)
      /\ ih.owed \subseteq H!Held(ih.file)
  BY <1>0, FileThere
<1>4. GoneBy(ih.file, ih.dir, ih.gone) /\ H!Held(H!Absent) = {}
  BY Known DEF H!Held, H!Absent
<1>5. moved = [ih EXCEPT !.file = H!Absent, !.dir = away, !.synced = 0, !.mem = stuck]
  <2>1. moved = [ih EXCEPT !.file = H!Absent, !.dir = away, !.synced = 0,
                           !.mem = [ih.mem EXCEPT !.at = "stuck"]]
    BY <1>0 DEF H!TypeOK
  <2>2. [ih.mem EXCEPT !.at = "stuck"] = stuck
    BY <1>0 DEF Shape, H!Memories, MemAt
  <2> HIDE DEF away, stuck, moved
  <2> QED
    BY <2>1, <2>2
<1>6. \/ ih' = moved
      \/ ih' = [moved EXCEPT !.file = new, !.dir.temp = H!Absent, !.mem.at = "sync",
                  !.synced = Len(new.records), !.owed = @ \ retired, !.mem.done = @ \ retired]
  BY DEF H!Replace
<1> HIDE DEF moved
<1>7. CASE ih' = moved
  <2>1. ih' = [ih EXCEPT !.up = ih.up, !.file = H!Absent, !.synced = 0, !.tail = ih.tail,
                      !.dir = away, !.mem = stuck, !.next = ih.next, !.compactions = ih.compactions,
                      !.crashes = ih.crashes, !.gone = ih.gone, !.owed = ih.owed]
    <3> HIDE DEF away, stuck
    <3> QED
      BY <1>0, <1>5, <1>7 DEF H!TypeOK
  <2>2. /\ away \in H!Dirs /\ away.open = ih.dir.open /\ away.temp = ih.dir.temp /\ away.backup = ih.file
        /\ away.plan = ih.dir.plan
    BY <1>0, <1>3 DEF H!Dirs
  <2>3. /\ stuck \in H!Memories /\ stuck.at = "stuck" /\ stuck.handle = ih.mem.handle
        /\ stuck.failed = ih.mem.failed /\ Silent(stuck)
    <3>1. ih.mem.handle \in BOOLEAN /\ ih.mem.done \in SUBSET Nat
      BY <1>0
    <3> QED
      BY <3>1, WriterMoves
  <2> HIDE DEF away, stuck
  <2>4. Becomes(ih.up, H!Absent, 0, ih.tail, away, stuck, ih.next, ih.compactions, ih.crashes,
                ih.gone, ih.owed)
    BY <1>0, <2>1, <2>2, <2>3 DEF Becomes, Shape
  <2>5. DirBy(ih.up, away, stuck) /\ AwayBy(ih.up, H!Absent, away, stuck, ih.owed)
    BY <1>0, <1>3, <2>2, <2>3 DEF DirBy, AwayBy
  <2>6. OwedBy(H!Absent, 0, ih.owed) /\ DoneBy(ih.up, H!Absent, stuck)
    BY <1>0, <2>3 DEF OwedBy, DoneBy
  <2>7. GoneBy(H!Absent, away, ih.gone)
    BY <1>4, <2>2 DEF GoneBy
  <2> QED
    BY <2>3, <2>4, <2>5, <2>6, <2>7, Settles
<1>8. CASE ih' = [moved EXCEPT !.file = new, !.dir.temp = H!Absent, !.mem.at = "sync",
                  !.synced = Len(new.records), !.owed = @ \ retired, !.mem.done = @ \ retired]
  <2> DEFINE owed == ih.owed \ retired
             synced == Len(new.records)
  <2>1. ih' = [ih EXCEPT !.up = ih.up, !.file = new, !.synced = synced, !.tail = ih.tail,
                      !.dir = done, !.mem = sync, !.next = ih.next, !.compactions = ih.compactions,
                      !.crashes = ih.crashes, !.gone = ih.gone, !.owed = owed]
    <3>0. /\ moved = [moved EXCEPT !.file = moved.file] /\ {"file", "dir", "mem", "synced", "owed"} \subseteq DOMAIN moved
          /\ "temp" \in DOMAIN moved.dir /\ {"at", "done"} \subseteq DOMAIN moved.mem
      <4> HIDE DEF away, stuck
      <4>1. moved.dir = away /\ moved.mem = stuck /\ DOMAIN moved = DOMAIN ih
        BY <1>0, <1>5 DEF H!TypeOK
      <4>2. {"file", "dir", "mem", "synced", "owed"} \subseteq DOMAIN ih
        BY <1>0 DEF H!TypeOK
      <4>3. "temp" \in DOMAIN away
        BY <1>0 DEF H!Dirs, away
      <4>4. {"at", "done"} \subseteq DOMAIN stuck
        BY <1>0 DEF Shape, H!Memories, MemAt, stuck
      <4>5. moved = [moved EXCEPT !.file = moved.file]
        BY <1>0, <1>5 DEF H!TypeOK
      <4> QED
        BY <4>1, <4>2, <4>3, <4>4, <4>5
    <3>1. ih' = [moved EXCEPT !.file = new, !.dir = [moved.dir EXCEPT !.temp = H!Absent],
                    !.mem = [moved.mem EXCEPT !.at = "sync", !.done = moved.mem.done \ retired],
                    !.synced = synced, !.owed = moved.owed \ retired]
      <4>1. ih' = [moved EXCEPT !.file = new, !.dir.temp = H!Absent, !.mem.at = "sync",
                  !.synced = synced, !.owed = @ \ retired, !.mem.done = @ \ retired]
        BY <1>8
      <4> HIDE DEF away, stuck, done, sync, synced, retired, new
      <4> QED
        BY <3>0, <4>1
    <3>2. moved.dir = away /\ moved.mem = stuck /\ moved.owed = ih.owed
      BY <1>0, <1>5 DEF H!TypeOK
    <3>3. [away EXCEPT !.temp = H!Absent] = done
      BY <1>0 DEF H!Dirs
    <3>4. [stuck EXCEPT !.at = "sync", !.done = stuck.done \ retired] = sync
      BY <1>0 DEF Shape, H!Memories, MemAt
    <3> HIDE DEF away, stuck, done, sync, synced, retired, new
    <3> QED
      BY <1>0, <1>5, <3>1, <3>2, <3>3, <3>4 DEF H!TypeOK
  <2>2. /\ done \in H!Dirs /\ done.open = ih.dir.open /\ done.temp = H!Absent /\ done.backup = ih.file
        /\ done.plan = ih.dir.plan
    BY <1>0, <1>3 DEF H!Dirs
  <2>3. /\ sync \in H!Memories /\ sync.at = "sync" /\ sync.handle = ih.mem.handle
        /\ sync.done = ih.mem.done \ retired /\ sync.failed = ih.mem.failed /\ Silent(sync)
    <3>1. ih.mem.handle \in BOOLEAN /\ ih.mem.done \ retired \in SUBSET Nat
      BY <1>0
    <3> HIDE DEF retired
    <3> QED
      BY <3>1, WriterMoves
  <2>4. owed \subseteq H!Held(new) /\ owed \in SUBSET Nat
    BY <1>0, <1>2, <1>3
  <2>5. ~ih.mem.failed => ih.mem.done \ retired \subseteq H!Held(new)
    <3>1. ~ih.mem.failed => ih.mem.done \subseteq H!ToSet(H!Records)
      BY <1>0, <1>3, Known DEF DoneBy
    <3> QED
      BY <1>2, <3>1
  <2>6. synced \in Nat /\ OwedBy(new, synced, owed)
    BY <1>2, <2>4 DEF OwedBy
  <2>7. DoneBy(ih.up, new, sync)
    BY <1>0, <2>3, <2>5 DEF DoneBy
  <2>8. H!Held(new) \cap ih.gone = {}
    BY <1>4 DEF GoneBy
  <2> HIDE DEF done, sync, owed, synced, new, retired
  <2>9. Becomes(ih.up, new, synced, ih.tail, done, sync, ih.next, ih.compactions, ih.crashes,
                ih.gone, owed)
    BY <1>0, <1>1, <2>1, <2>2, <2>3, <2>4, <2>6 DEF Becomes, Shape
  <2>10. DirBy(ih.up, done, sync) /\ AwayBy(ih.up, new, done, sync, owed)
    BY <1>0, <1>2, <2>2, <2>3 DEF DirBy, AwayBy
  <2>11. GoneBy(new, done, ih.gone)
    BY <1>4, <2>2, <2>8 DEF GoneBy
  <2> QED
    BY <2>3, <2>6, <2>7, <2>9, <2>10, <2>11, Settles
<1> QED
  BY <1>6, <1>7, <1>8

LEMMA SyncStep ==
  ASSUME H!IInv, H!SyncCanonical
  PROVE  H!IInv'
<1> DEFINE mem == MemAt("cleanup", ih.mem.handle, ih.mem.done)
           synced == Len(H!Records)
<1>0. /\ Shape /\ H!TypeOK /\ ih.up = "up" /\ ih.mem.handle \in BOOLEAN /\ ih.mem.at = "sync"
      /\ ih.mem.done \in SUBSET Nat /\ ih.file # H!Absent
  BY Known DEF H!SyncCanonical, H!Up, Shape, H!Memories, AwayBy
<1>1. /\ ih.file.records \in Seq(Nat) /\ Len(ih.file.records) \in Nat /\ H!Records = ih.file.records
      /\ H!Held(ih.file) = {ih.file.records[i] : i \in 1..Len(ih.file.records)}
      /\ ih.owed \subseteq H!Held(ih.file)
  BY <1>0, FileThere
<1>2. ih.mem.handle # TRUE
  BY <1>0, Known DEF DirBy
<1>3. /\ mem \in H!Memories /\ mem.at = "cleanup" /\ mem.handle = ih.mem.handle /\ mem.done = ih.mem.done
      /\ mem.failed = ih.mem.failed /\ Silent(mem)
  <2>1. ih.mem.handle \in BOOLEAN /\ ih.mem.done \in SUBSET Nat
    BY <1>0
  <2> QED
    BY <2>1, WriterMoves
<1>4. ih' = [ih EXCEPT !.up = ih.up, !.file = ih.file, !.synced = synced, !.tail = ih.tail,
                      !.dir = ih.dir, !.mem = mem, !.next = ih.next, !.compactions = ih.compactions,
                      !.crashes = ih.crashes, !.gone = ih.gone, !.owed = ih.owed]
  <2>1. ih' = [ih EXCEPT !.mem = [ih.mem EXCEPT !.at = "cleanup"], !.synced = synced]
    BY <1>0 DEF H!SyncCanonical, H!TypeOK
  <2>2. [ih.mem EXCEPT !.at = "cleanup"] = mem
    BY <1>0 DEF Shape, H!Memories, MemAt
  <2> HIDE DEF synced, mem
  <2> QED
    BY <1>0, <2>1, <2>2 DEF H!TypeOK
<1>5. synced \in Nat /\ OwedBy(ih.file, synced, ih.owed)
  BY <1>1 DEF OwedBy
<1> HIDE DEF synced, mem
<1>6. Becomes(ih.up, ih.file, synced, ih.tail, ih.dir, mem, ih.next, ih.compactions, ih.crashes,
              ih.gone, ih.owed)
  BY <1>0, <1>3, <1>4, <1>5 DEF Becomes, Shape
<1>7. DirBy(ih.up, ih.dir, mem) /\ AwayBy(ih.up, ih.file, ih.dir, mem, ih.owed) /\ DoneBy(ih.up, ih.file, mem)
  BY <1>0, <1>2, <1>3, Known DEF DirBy, AwayBy, DoneBy
<1> QED
  BY <1>3, <1>5, <1>6, <1>7, Known, Settles

(* Clearing a transaction away only ever makes it smaller.                  *)
LEMMA Sweeps ==
  ASSUME H!IInv
  PROVE  /\ H!Swept(ih.dir) \in H!Dirs
         /\ ~H!Swept(ih.dir).open => H!Swept(ih.dir) = H!NoTransaction
         /\ H!Swept(ih.dir).temp \in {ih.dir.temp, H!Absent}
         /\ H!Swept(ih.dir).backup \in {ih.dir.backup, H!Absent}
         /\ H!Swept(ih.dir).plan.is = "plan" => H!Swept(ih.dir).plan = ih.dir.plan
<1> DEFINE dir == H!Swept(ih.dir)
<1>0. ih.dir \in H!Dirs /\ (~ih.dir.open => ih.dir = H!NoTransaction)
  BY Known DEF Shape, DirBy
<1>1. /\ H!NoTransaction \in H!Dirs /\ H!NoTransaction.temp = H!Absent /\ H!NoTransaction.backup = H!Absent
      /\ H!NoTransaction.plan = H!NoPlan /\ H!NoPlan.is # "plan" /\ H!NoTransaction.open = FALSE
  BY DEF H!Dirs, H!NoTransaction, H!NoPlan
<1>2. CASE dir = [ih.dir EXCEPT !.backup = H!Absent] /\ ih.dir.backup # H!Absent
  <2>1. /\ dir \in H!Dirs /\ dir.open = ih.dir.open /\ dir.temp = ih.dir.temp /\ dir.backup = H!Absent
        /\ dir.plan = ih.dir.plan
    BY <1>0, <1>2 DEF H!Dirs
  <2> QED
    BY <1>0, <1>1, <1>2, <2>1
<1>3. CASE dir = [ih.dir EXCEPT !.temp = H!Absent] /\ ih.dir.temp # H!Absent
  <2>1. /\ dir \in H!Dirs /\ dir.open = ih.dir.open /\ dir.temp = H!Absent /\ dir.backup = ih.dir.backup
        /\ dir.plan = ih.dir.plan
    BY <1>0, <1>3 DEF H!Dirs
  <2> QED
    BY <1>0, <1>1, <1>3, <2>1
<1>4. CASE dir = [ih.dir EXCEPT !.plan = H!NoPlan] /\ ih.dir.plan # H!NoPlan
  <2>1. /\ dir \in H!Dirs /\ dir.open = ih.dir.open /\ dir.temp = ih.dir.temp /\ dir.backup = ih.dir.backup
        /\ dir.plan = H!NoPlan
    BY <1>0, <1>4 DEF H!Dirs
  <2> QED
    BY <1>0, <1>1, <1>4, <2>1
<1>5. CASE dir = H!NoTransaction
  BY <1>1, <1>5
<1>6. \/ dir = [ih.dir EXCEPT !.backup = H!Absent] /\ ih.dir.backup # H!Absent
      \/ dir = [ih.dir EXCEPT !.temp = H!Absent] /\ ih.dir.temp # H!Absent
      \/ dir = [ih.dir EXCEPT !.plan = H!NoPlan] /\ ih.dir.plan # H!NoPlan
      \/ dir = H!NoTransaction
  BY DEF H!Swept
<1> QED
  BY <1>2, <1>3, <1>4, <1>5, <1>6

LEMMA SweptIsClear ==
  ASSUME H!IInv PROVE GoneBy(ih.file, H!Swept(ih.dir), ih.gone)
<1>1. H!Held(H!Absent) = {}
  BY DEF H!Held, H!Absent
<1>2. GoneBy(ih.file, ih.dir, ih.gone)
  BY Known
<1> QED
  BY <1>1, <1>2, Sweeps DEF GoneBy

LEMMA SweepSteps ==
  ASSUME H!IInv, H!Sweep \/ H!SweepAtOpen
  PROVE  H!IInv'
<1> DEFINE dir == H!Swept(ih.dir)
           up  == IF ih.up = "cleanup" /\ dir.open # TRUE THEN "repair" ELSE ih.up
<1>0. /\ Shape /\ H!TypeOK /\ ih.file # H!Absent /\ ih.mem.handle \in BOOLEAN
      /\ ih.up \in {"up", "cleanup"}
      /\ ih.up = "up" => /\ ih.mem.at = "cleanup"
                         /\ ih.mem.handle # TRUE
  BY Known DEF H!Sweep, H!SweepAtOpen, H!Up, Shape, H!Memories, AwayBy, DirBy
<1>1. /\ dir \in H!Dirs /\ (~dir.open => dir = H!NoTransaction) /\ GoneBy(ih.file, dir, ih.gone)
      /\ dir.open \in BOOLEAN
  <2>1. dir \in H!Dirs /\ (~dir.open => dir = H!NoTransaction) /\ GoneBy(ih.file, dir, ih.gone)
    BY Sweeps, SweptIsClear
  <2> QED
    BY <2>1 DEF H!Dirs
<1>2. ih' = [ih EXCEPT !.dir = dir, !.up = up]
  <2>1. CASE H!Sweep
    <3>1. ih' = [ih EXCEPT !.dir = dir] /\ up = ih.up
      BY <2>1 DEF H!Sweep, H!Up
    <3> HIDE DEF dir, up
    <3> QED
      BY <1>0, <3>1 DEF H!TypeOK
  <2>2. CASE H!SweepAtOpen
    <3>1. ih' = [ih EXCEPT !.dir = dir, !.up = IF dir.open THEN ih.up ELSE "repair"] /\ ih.up = "cleanup"
      BY <1>0, <2>2 DEF H!SweepAtOpen, H!TypeOK
    <3>2. up = IF dir.open THEN ih.up ELSE "repair"
      BY <1>1, <3>1
    <3> QED
      BY <3>1, <3>2
  <2> QED
    BY <2>1, <2>2
<1>3. /\ up \in {"up", "cleanup", "repair"} /\ (up = "up" <=> ih.up = "up")
      /\ up = "repair" => ~dir.open
  BY <1>0, <1>1
<1> HIDE DEF dir, up
<1>4. ih' = [ih EXCEPT !.up = up, !.file = ih.file, !.synced = ih.synced, !.tail = ih.tail,
                      !.dir = dir, !.mem = ih.mem, !.next = ih.next, !.compactions = ih.compactions,
                      !.crashes = ih.crashes, !.gone = ih.gone, !.owed = ih.owed]
  BY <1>0, <1>2 DEF H!TypeOK
<1>5. Becomes(up, ih.file, ih.synced, ih.tail, dir, ih.mem, ih.next, ih.compactions, ih.crashes,
              ih.gone, ih.owed)
  BY <1>0, <1>1, <1>3, <1>4 DEF Becomes, Shape
<1>6. Silent(ih.mem)
  BY DEF Silent
<1>7. DirBy(up, dir, ih.mem) /\ AwayBy(up, ih.file, dir, ih.mem, ih.owed) /\ DoneBy(up, ih.file, ih.mem)
  BY <1>0, <1>1, <1>3, Known DEF DirBy, AwayBy, DoneBy
<1> QED
  BY <1>1, <1>5, <1>6, <1>7, Known, Settles

LEMMA ReopenStep ==
  ASSUME H!IInv, H!Reopen
  PROVE  H!IInv'
<1>0. /\ Shape /\ H!TypeOK /\ ih.up = "up" /\ ih.mem.at = "cleanup" /\ ~ih.dir.open
      /\ ih.mem.done \in SUBSET Nat /\ ih.file # H!Absent
  BY Known DEF H!Reopen, H!Up, Shape, H!Memories, AwayBy
<1> DEFINE mem == MemAt("idle", TRUE, ih.mem.done)
<1>3. /\ mem \in H!Memories /\ mem.at = "idle" /\ mem.handle = TRUE /\ mem.done = ih.mem.done
      /\ mem.failed = ih.mem.failed /\ Silent(mem)
  <2>1. mem \in H!Memories
    BY <1>0 DEF Shape, H!Memories, MemAt
  <2> QED
    BY <1>0, <2>1 DEF Shape, H!Memories, MemAt, Silent
<1>4. ih' = [ih EXCEPT !.up = ih.up, !.file = ih.file, !.synced = ih.synced, !.tail = ih.tail,
                      !.dir = ih.dir, !.mem = mem, !.next = ih.next, !.compactions = ih.compactions,
                      !.crashes = ih.crashes, !.gone = ih.gone, !.owed = ih.owed]
  <2>1. ih' = [ih EXCEPT !.mem = [ih.mem EXCEPT !.at = "idle", !.handle = TRUE]]
    BY <1>0 DEF H!Reopen, H!TypeOK
  <2>2. [ih.mem EXCEPT !.at = "idle", !.handle = TRUE] = mem
    BY <1>0 DEF Shape, H!Memories, MemAt
  <2> HIDE DEF mem
  <2> QED
    BY <1>0, <2>1, <2>2 DEF H!TypeOK
<1> HIDE DEF mem
<1>6. Becomes(ih.up, ih.file, ih.synced, ih.tail, ih.dir, mem, ih.next, ih.compactions, ih.crashes,
              ih.gone, ih.owed)
  BY <1>0, <1>3, <1>4 DEF Becomes, Shape
<1>7. DirBy(ih.up, ih.dir, mem) /\ AwayBy(ih.up, ih.file, ih.dir, mem, ih.owed) /\ DoneBy(ih.up, ih.file, mem)
  BY <1>0, <1>3, Known DEF DirBy, AwayBy, DoneBy
<1> QED
  BY <1>3, <1>6, <1>7, Known, Settles

LEMMA CompactionFailsStep ==
  ASSUME H!IInv, H!CompactionFails
  PROVE  H!IInv'
<1>0. /\ Shape /\ H!TypeOK /\ ih.up = "up" /\ ih.dir.open /\ ih.mem.handle \in BOOLEAN
      /\ ih.mem.done \in SUBSET Nat /\ ih.mem.handle # TRUE
  BY Known DEF H!CompactionFails, H!Up, Shape, H!Memories, DirBy
<1> DEFINE mem == MemAt("idle", ih.mem.handle, ih.mem.done)
<1>3. /\ mem \in H!Memories /\ mem.at = "idle" /\ mem.handle = ih.mem.handle /\ mem.done = ih.mem.done
      /\ mem.failed = ih.mem.failed /\ Silent(mem)
  <2>1. ih.mem.handle \in BOOLEAN /\ ih.mem.done \in SUBSET Nat
    BY <1>0
  <2> QED
    BY <2>1, WriterMoves
<1>4. ih' = [ih EXCEPT !.up = ih.up, !.file = ih.file, !.synced = ih.synced, !.tail = ih.tail,
                      !.dir = ih.dir, !.mem = mem, !.next = ih.next, !.compactions = ih.compactions,
                      !.crashes = ih.crashes, !.gone = ih.gone, !.owed = ih.owed]
  <2>1. ih' = [ih EXCEPT !.mem = [ih.mem EXCEPT !.at = "idle"]]
    BY <1>0 DEF H!CompactionFails, H!TypeOK
  <2>2. [ih.mem EXCEPT !.at = "idle"] = mem
    BY <1>0 DEF Shape, H!Memories, MemAt
  <2> HIDE DEF mem
  <2> QED
    BY <1>0, <2>1, <2>2 DEF H!TypeOK
<1> HIDE DEF mem
<1>6. Becomes(ih.up, ih.file, ih.synced, ih.tail, ih.dir, mem, ih.next, ih.compactions, ih.crashes,
              ih.gone, ih.owed)
  BY <1>0, <1>3, <1>4 DEF Becomes, Shape
<1>7. DirBy(ih.up, ih.dir, mem) /\ AwayBy(ih.up, ih.file, ih.dir, mem, ih.owed) /\ DoneBy(ih.up, ih.file, mem)
  BY <1>0, <1>3, Known DEF DirBy, AwayBy, DoneBy
<1> QED
  BY <1>3, <1>6, <1>7, Known, Settles

(* The service starts with nothing on its way.                              *)
LEMMA Restarts ==
  ASSUME H!IInv
  PROVE  /\ H!Started \in H!Memories /\ H!Started.handle = TRUE /\ H!Started.at = "idle"
         /\ H!Started.done = {}
         /\ RecordsBy(H!Started, ih.next, ih.gone) /\ ClearsBy(H!Started, ih.next, ih.gone)
<1>1. H!Started \in H!Memories
  <2>1. [w \in Writers |-> [id |-> 0, epoch |-> 0]] \in [Writers -> [id : Nat, epoch : Nat]]
    OBVIOUS
  <2>2. [c \in Clearers |-> [at |-> "rest", epoch |-> 0, before |-> {}]]
          \in [Clearers -> [at : {"rest", "send", "wait"}, epoch : Nat, before : SUBSET Nat]]
    OBVIOUS
  <2>3. <<>> \in Seq(H!Commands)
    OBVIOUS
  <2> QED
    BY <2>1, <2>2, <2>3 DEF H!Started, H!Memories
<1>2. /\ H!Started.handle = TRUE /\ H!Started.at = "idle" /\ H!Started.done = {} /\ H!Started.queue = <<>>
      /\ \A w \in Writers : H!Started.taking[w].id = 0
      /\ \A c \in Clearers : H!Started.clearing[c].at = "rest"
  BY DEF H!Started
<1>3. ih.next > 0 /\ \A id \in ih.gone : id < ih.next
  BY Known DEF ClearsBy
<1>4. Len(H!Started.queue) = 0
  BY <1>2
<1> HIDE DEF H!Started
<1>5. RecordsBy(H!Started, ih.next, ih.gone) /\ ClearsBy(H!Started, ih.next, ih.gone)
  BY <1>2, <1>3, <1>4 DEF RecordsBy, ClearsBy
<1> QED
  BY <1>1, <1>2, <1>5

(* What a crash leaves of the file begins with all that was synced.         *)
LEMMA CrashStep ==
  ASSUME H!IInv, H!Crash
  PROVE  H!IInv'
<1>0. /\ Shape /\ H!TypeOK /\ ih.synced \in Nat /\ ih.crashes \in Nat /\ ih.tail \in BOOLEAN
      /\ ih.dir \in H!Dirs
  BY Known DEF Shape
<1>1. PICK n \in ih.synced..Len(H!Records), more \in BOOLEAN :
        ih' = [ih EXCEPT !.up = "down", !.crashes = @ + 1, !.mem = H!Started,
                 !.file = IF @.is = "image" THEN H!Image(SubSeq(@.records, 1, n)) ELSE @,
                 !.tail = (@ \/ more) /\ ~ih.dir.open /\ ih.file.is = "image"]
  BY DEF H!Crash
<1> DEFINE file == IF ih.file.is = "image" THEN H!Image(SubSeq(ih.file.records, 1, n)) ELSE ih.file
           tail == (ih.tail \/ more) /\ ~ih.dir.open /\ ih.file.is = "image"
           mem  == H!Started
<1>2. tail \in BOOLEAN
  OBVIOUS
<1>3. /\ mem \in H!Memories /\ RecordsBy(mem, ih.next, ih.gone) /\ ClearsBy(mem, ih.next, ih.gone)
  BY Restarts
<1>4. /\ file \in {H!Absent} \cup H!Images
      /\ file = H!Absent => ih.file = H!Absent
      /\ H!Held(file) \subseteq H!Held(ih.file)
      /\ OwedBy(file, ih.synced, ih.owed)
  <2>1. CASE ih.file = H!Absent
    <3>1. file = H!Absent
      BY <2>1 DEF H!Absent
    <3> QED
      BY <2>1, <3>1 DEF OwedBy
  <2>2. CASE ih.file # H!Absent
    <3>1. /\ ih.file.is = "image" /\ ih.file.records \in Seq(Nat) /\ Len(ih.file.records) \in Nat
          /\ H!Records = ih.file.records
          /\ H!Held(ih.file) = {ih.file.records[i] : i \in 1..Len(ih.file.records)}
      BY <2>2, FileThere
    <3> DEFINE s == SubSeq(ih.file.records, 1, n)
    <3>2. n \in Nat /\ ih.synced <= n /\ n <= Len(ih.file.records)
      BY <1>0, <3>1
    <3>3. s \in Seq(Nat) /\ Len(s) = n /\ \A i \in 1..n : s[i] = ih.file.records[i]
      BY <3>1, <3>2, FirstOf
    <3>4. file = H!Image(s)
      BY <3>1
    <3> HIDE DEF s, file
    <3>5. /\ file \in H!Images /\ file.records = s /\ file # H!Absent
          /\ H!Held(file) = {s[i] : i \in 1..Len(s)}
      BY <3>3, <3>4, Holding
    <3>6. H!Held(file) \subseteq H!Held(ih.file)
      BY <3>1, <3>2, <3>3, <3>5
    <3>7. ASSUME NEW id \in ih.owed PROVE \E i \in 1..ih.synced : file.records[i] = id
      <4>1. PICK i \in 1..ih.synced : ih.file.records[i] = id
        BY <2>2, Known DEF OwedBy
      <4>2. i \in 1..n
        BY <1>0, <3>2
      <4> QED
        BY <3>3, <3>5, <4>1, <4>2
    <3>8. OwedBy(file, ih.synced, ih.owed)
      BY <3>2, <3>3, <3>5, <3>7 DEF OwedBy
    <3> QED
      BY <2>2, <3>5, <3>6, <3>8
  <2> QED
    BY <2>1, <2>2
<1>5. ih' = [ih EXCEPT !.up = "down", !.crashes = ih.crashes + 1, !.mem = mem, !.file = file, !.tail = tail]
  BY <1>0, <1>1 DEF H!TypeOK
<1> HIDE DEF mem, file, tail
<1>6. ih' = [ih EXCEPT !.up = "down", !.file = file, !.synced = ih.synced, !.tail = tail,
                      !.dir = ih.dir, !.mem = mem, !.next = ih.next, !.compactions = ih.compactions,
                      !.crashes = ih.crashes + 1, !.gone = ih.gone, !.owed = ih.owed]
  BY <1>0, <1>5 DEF H!TypeOK
<1>7. Becomes("down", file, ih.synced, tail, ih.dir, mem, ih.next, ih.compactions, ih.crashes + 1,
              ih.gone, ih.owed)
  BY <1>0, <1>2, <1>3, <1>4, <1>6 DEF Becomes, Shape
<1>8. /\ DirBy("down", ih.dir, mem) /\ AwayBy("down", file, ih.dir, mem, ih.owed) /\ DoneBy("down", file, mem)
  BY <1>4, Known DEF DirBy, AwayBy, DoneBy
<1>9. GoneBy(file, ih.dir, ih.gone)
  BY <1>4, Known DEF GoneBy
<1>10. Ends("down", file, ih.synced, tail, ih.dir, mem, ih.next, ih.compactions, ih.crashes + 1,
            ih.gone, ih.owed)
  BY <1>3, <1>4, <1>7, <1>8, <1>9 DEF Ends
<1> QED
  BY <1>10, Ended

LEMMA OpenStep ==
  ASSUME H!IInv, H!Open
  PROVE  H!IInv'
<1>0. Shape /\ H!TypeOK
  BY Known
<1> DEFINE up == IF ih.dir.open THEN "recover" ELSE "repair"
<1>1. ih' = [ih EXCEPT !.up = up, !.file = ih.file, !.synced = ih.synced, !.tail = ih.tail,
                      !.dir = ih.dir, !.mem = ih.mem, !.next = ih.next, !.compactions = ih.compactions,
                      !.crashes = ih.crashes, !.gone = ih.gone, !.owed = ih.owed]
  BY <1>0 DEF H!Open, H!TypeOK
<1>2. up \in {"recover", "repair"} /\ (up = "repair" => ~ih.dir.open)
  OBVIOUS
<1> HIDE DEF up
<1>3. Becomes(up, ih.file, ih.synced, ih.tail, ih.dir, ih.mem, ih.next, ih.compactions, ih.crashes,
              ih.gone, ih.owed)
  BY <1>0, <1>1, <1>2 DEF Becomes, Shape
<1>4. DirBy(up, ih.dir, ih.mem) /\ DoneBy(up, ih.file, ih.mem)
  BY <1>2, Known DEF DirBy, DoneBy
<1>5. AwayBy(up, ih.file, ih.dir, ih.mem, ih.owed)
  <2>1. ih.file = H!Absent => ih.dir.open
    BY Known DEF AwayBy, DirBy, H!NoTransaction, H!Absent
  <2> QED
    BY <1>2, <2>1, Known DEF AwayBy
<1>6. Silent(ih.mem)
  BY DEF Silent
<1> QED
  BY <1>3, <1>4, <1>5, <1>6, Known, Settles

(* The recovery takes back what the flushes promised.                       *)
LEMMA RecoverStep ==
  ASSUME H!IInv, H!Recover
  PROVE  H!IInv'
<1>0. Shape /\ H!TypeOK /\ ih.up = "recover" /\ ih.dir \in H!Dirs /\ ih.owed \in SUBSET Nat
  BY Known DEF H!Recover, Shape
<1>1. Silent(ih.mem)
  BY DEF Silent
<1>2. CASE ih' = [ih EXCEPT !.up = "refused"]
  <2>1. ih' = [ih EXCEPT !.up = "refused", !.file = ih.file, !.synced = ih.synced, !.tail = ih.tail,
                      !.dir = ih.dir, !.mem = ih.mem, !.next = ih.next, !.compactions = ih.compactions,
                      !.crashes = ih.crashes, !.gone = ih.gone, !.owed = ih.owed]
    BY <1>0, <1>2 DEF H!TypeOK
  <2>2. Becomes("refused", ih.file, ih.synced, ih.tail, ih.dir, ih.mem, ih.next, ih.compactions, ih.crashes,
                ih.gone, ih.owed)
    BY <1>0, <2>1 DEF Becomes, Shape
  <2>3. /\ DirBy("refused", ih.dir, ih.mem) /\ DoneBy("refused", ih.file, ih.mem)
        /\ AwayBy("refused", ih.file, ih.dir, ih.mem, ih.owed)
    BY Known DEF DirBy, DoneBy, AwayBy
  <2> QED
    BY <1>1, <2>2, <2>3, Known, Settles
<1>3. CASE ih' = [ih EXCEPT !.up = "cleanup", !.file = H!Chosen,
                   !.dir.backup = IF ih.file = H!Absent THEN H!Absent ELSE @,
                   !.synced = Len(H!Chosen.records)]
  <2> DEFINE file   == H!Chosen
             dir    == [ih.dir EXCEPT !.backup = IF ih.file = H!Absent THEN H!Absent ELSE ih.dir.backup]
             synced == Len(file.records)
  <2>1. file \in H!Images /\ ih.owed \subseteq H!Held(file) /\ file \in {ih.file, ih.dir.backup}
    <3>1. CASE ih.file = H!Absent
      <4>1. /\ ih.dir.backup.is = "image" /\ ih.owed \subseteq H!Held(ih.dir.backup)
            /\ ih.dir.backup \in {H!Absent} \cup H!Images
        BY <1>0, <3>1, Known DEF AwayBy, H!Dirs
      <4>2. ih.dir.backup \in H!Images
        BY <4>1 DEF H!Absent
      <4>3. file = ih.dir.backup
        BY <3>1 DEF H!Chosen, H!Absent
      <4> QED
        BY <4>1, <4>2, <4>3
    <3>2. CASE ih.file # H!Absent
      <4>1. ih.file \in H!Images /\ ih.file.is = "image" /\ ih.owed \subseteq H!Held(ih.file)
        BY <3>2, FileThere
      <4>2. file = ih.file
        BY <4>1 DEF H!Chosen
      <4> QED
        BY <4>1, <4>2
    <3> QED
      BY <3>1, <3>2
  <2>2. ih' = [ih EXCEPT !.up = "cleanup", !.file = file, !.dir = dir, !.synced = synced]
    <3> HIDE DEF H!Chosen
    <3> QED
      BY <1>0, <1>3 DEF H!TypeOK
  <2>3. /\ dir \in H!Dirs /\ dir.open = ih.dir.open /\ dir.temp = ih.dir.temp /\ dir.plan = ih.dir.plan
        /\ dir.backup \in {H!Absent, ih.dir.backup}
    <3>1. (IF ih.file = H!Absent THEN H!Absent ELSE ih.dir.backup) \in {H!Absent} \cup H!Images
      BY <1>0 DEF H!Dirs
    <3> QED
      BY <1>0, <3>1 DEF H!Dirs
  <2>4. ~dir.open => dir = H!NoTransaction
    <3>1. ~ih.dir.open => /\ ih.dir = H!NoTransaction
                          /\ ih.file # H!Absent
      BY Known DEF DirBy, AwayBy, H!NoTransaction, H!Absent
    <3>2. ih.file # H!Absent => dir = ih.dir
      BY <1>0 DEF H!Dirs
    <3> QED
      BY <2>3, <3>1, <3>2
  <2> HIDE DEF file, dir, H!Chosen
  <2>5. /\ file # H!Absent /\ synced \in Nat /\ H!Held(file) = {file.records[i] : i \in 1..Len(file.records)}
    BY <2>1, AnImage
  <2>6. OwedBy(file, synced, ih.owed)
    BY <2>1, <2>5 DEF OwedBy
  <2> HIDE DEF synced
  <2>7. GoneBy(file, dir, ih.gone)
    <3>1. H!Held(H!Absent) = {}
      BY DEF H!Held, H!Absent
    <3>2. GoneBy(ih.file, ih.dir, ih.gone)
      BY Known
    <3> QED
      BY <2>1, <2>3, <3>1, <3>2 DEF GoneBy
  <2>8. ih' = [ih EXCEPT !.up = "cleanup", !.file = file, !.synced = synced, !.tail = ih.tail,
                      !.dir = dir, !.mem = ih.mem, !.next = ih.next, !.compactions = ih.compactions,
                      !.crashes = ih.crashes, !.gone = ih.gone, !.owed = ih.owed]
    BY <1>0, <2>2 DEF H!TypeOK
  <2>9. Becomes("cleanup", file, synced, ih.tail, dir, ih.mem, ih.next, ih.compactions, ih.crashes,
                ih.gone, ih.owed)
    BY <1>0, <2>1, <2>3, <2>5, <2>8 DEF Becomes, Shape
  <2>10. DirBy("cleanup", dir, ih.mem) /\ AwayBy("cleanup", file, dir, ih.mem, ih.owed)
         /\ DoneBy("cleanup", file, ih.mem)
    BY <2>4, <2>5 DEF DirBy, AwayBy, DoneBy
  <2> QED
    BY <1>1, <2>6, <2>7, <2>9, <2>10, Settles
<1> QED
  BY <1>2, <1>3 DEF H!Recover

LEMMA RepairStep ==
  ASSUME H!IInv, H!Repair
  PROVE  H!IInv'
<1> DEFINE mem == H!Started
<1>0. Shape /\ H!TypeOK /\ ih.file # H!Absent /\ ih.up = "repair" /\ ih.dir.open # TRUE
  BY Known DEF H!Repair, AwayBy, DirBy
<1>1. /\ mem \in H!Memories /\ mem.handle = TRUE /\ mem.at = "idle" /\ mem.done = {}
      /\ RecordsBy(mem, ih.next, ih.gone) /\ ClearsBy(mem, ih.next, ih.gone)
  BY Restarts
<1>2. ih' = [ih EXCEPT !.up = "up", !.tail = FALSE, !.mem = mem]
  BY DEF H!Repair
<1> HIDE DEF mem
<1>3. ih' = [ih EXCEPT !.up = "up", !.file = ih.file, !.synced = ih.synced, !.tail = FALSE,
                      !.dir = ih.dir, !.mem = mem, !.next = ih.next, !.compactions = ih.compactions,
                      !.crashes = ih.crashes, !.gone = ih.gone, !.owed = ih.owed]
  BY <1>0, <1>2 DEF H!TypeOK
<1>4. Becomes("up", ih.file, ih.synced, FALSE, ih.dir, mem, ih.next, ih.compactions, ih.crashes,
              ih.gone, ih.owed)
  BY <1>0, <1>1, <1>3 DEF Becomes, Shape
<1>5. DirBy("up", ih.dir, mem) /\ AwayBy("up", ih.file, ih.dir, mem, ih.owed) /\ DoneBy("up", ih.file, mem)
  BY <1>0, <1>1, Known DEF DirBy, AwayBy, DoneBy
<1>6. Ends("up", ih.file, ih.synced, FALSE, ih.dir, mem, ih.next, ih.compactions, ih.crashes,
           ih.gone, ih.owed)
  BY <1>1, <1>4, <1>5, Known DEF Ends
<1> QED
  BY <1>6, Ended

LEMMA HistoryNext == H!IInv /\ [H!Next]_ih => H!IInv'
<1> SUFFICES ASSUME H!IInv, [H!Next]_ih PROVE H!IInv'
  OBVIOUS
<1>1. CASE \E w \in Writers : H!Take(w) \/ H!Enqueue(w)
  BY <1>1, TakeStep, EnqueueStep
<1>2. CASE (\E c \in Clearers : H!SendClear(c)) \/ H!SendFlush
  BY <1>2, SendSteps
<1>3. CASE \E c \in Clearers : H!BeginClear(c)
  BY <1>3, BeginClearStep
<1>4. CASE H!SkipAppend \/ H!DoAppend \/ H!DoFlush \/ H!DoClear
  BY <1>4, SkipStep, AppendStep, FlushStep, ClearStep
<1>5. CASE H!Compaction
  BY <1>5, BeginCompactionStep, WritePlanStep, WriteTempStep, ReplaceStep, SyncStep, SweepSteps,
     ReopenStep, CompactionFailsStep DEF H!Compaction
<1>6. CASE H!Crash \/ H!Open \/ H!Recover \/ H!SweepAtOpen \/ H!Repair
  BY <1>6, CrashStep, OpenStep, RecoverStep, SweepSteps, RepairStep
<1>7. CASE UNCHANGED ih
  <2>1. SameDisk /\ SameCalls /\ (H!TypeOK => H!TypeOK')
    BY <1>7 DEF SameDisk, SameCalls, H!TypeOK
  <2> QED
    BY <2>1, DiskFrame, CallsFrame, Together
<1> QED
  BY <1>1, <1>2, <1>3, <1>4, <1>5, <1>6, <1>7 DEF H!Next

(* What every step of the history keeps: of its file and the transaction of  *)
(* a compaction, of the queue with its epochs, of who waits for what.       *)
THEOREM HistoryInvariant == H!Spec => []H!IInv
BY HistoryInit, HistoryNext, PTL DEF H!Spec

(* What was taken before a clear that was acknowledged is in none of the    *)
(* files: the writer skips what is queued behind the epoch of a clear.      *)
THEOREM ClearIsFinal == H!Spec => []ClearedStaysCleared
BY HistoryInvariant, HistoryShown, PTL DEF ClearedStaysCleared

(* What a flush has answered for is kept by every compaction and by the     *)
(* recovery of one that was cut off.                                        *)
THEOREM FlushIsKept == H!Spec => []FlushedSurvives
BY HistoryInvariant, HistoryShown, PTL DEF FlushedSurvives
=============================================================================
