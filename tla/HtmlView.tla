------------------------------ MODULE HtmlView ------------------------------
(***************************************************************************)
(* The HTML view of the reading pane (crate litehtml-view-d2d) and the     *)
(* Reader that feeds it: the widget on the UI thread, the render worker on *)
(* its own, the two channels and the wake between them, the image fetcher  *)
(* they share, and the selection over the text runs of the frame on screen.*)
(*                                                                         *)
(* litehtml is external.  A document is its text runs in order, its images *)
(* and its fonts; a layout puts the runs on lines.  One character is one   *)
(* unit wide, one line one unit high, and 0 is no link and no break.       *)
(* Scrolling is left out: points are points of the document.               *)
(***************************************************************************)
EXTENDS Naturals, Integers, Sequences, FiniteSets

CONSTANTS
  Documents,   \* name -> [runs, data, remote, fonts, margin]
  Senders,     \* the documents whose sender is on the always-load list at first
  FirstPage,   \* the notice the pane begins with
  MaxLoads,    \* bound: pages loaded, resizes, image choices, renders that fail
  MaxInputs_,  \* bound: mouse and keyboard
  MaxFontKeys  \* bound: the font keys whose cached font is kept track of

Pages == DOMAIN Documents

ASSUME HtmlAssumption ==
  /\ FirstPage \in Pages /\ Senders \subseteq Pages
  /\ MaxLoads \in Nat /\ MaxInputs_ \in Nat /\ MaxFontKeys \in Nat

NoFrame == [id |-> 0, page |-> FirstPage, width |-> 0, images |-> {}, fonts |-> <<>>, base |-> 0]
NoCaret == [run |-> 0, ch |-> 0]
NoText == [from |-> NoCaret, head |-> NoCaret]

VARIABLES
  page,        \* HtmlWidget.html, the Reader's content
  frame,       \* the frame on screen; id 0 is none
  textSel,     \* Selection; NoText is none
  ui,          \* [submitted, requested, reset, stale, failed]: the widget's flags
  window,      \* the width of the window
  paintDue,    \* the window is invalid
  pointer,     \* [dragging, moved, clicks, shift]
  painter,     \* Painter.fonts: the font each of the first MaxFontKeys keys was resolved to
  choice,      \* [view, trusted]: View > Load remote images, trusted senders
  fetcher,     \* an ImageFetcher is installed; Reader.remote_images
  jobs, out, wake,  \* the channels and the posted Msg::Frame
  worker,      \* [at, job, passes, pending, resetNext]; at "gone" never started
  engine,      \* the container: [requested, images, fonts]
  refused,     \* history: remote images last asked for without a fetcher
  budget       \* counters: [loads, inputs]

uiVars == <<page, frame, textSel, ui, window, pointer, painter, choice, fetcher, paintDue>>
workerVars == <<worker, engine, refused>>
htmlVars == <<uiVars, jobs, out, wake, workerVars, budget>>

-----------------------------------------------------------------------------
(* Layout (litehtml) and the text-run table *)

Blank(r) == \A i \in DOMAIN r.text : r.text[i] = "space"

(* At width 1 a line ends at every space, at width 2 only where it must. *)
StartsLine(runs, w, i) ==
  i > 1 /\ ~Blank(runs[i]) /\
  (\/ runs[i].block # runs[i - 1].block \/ runs[i].breaks > 0 \/ (w = 1 /\ Blank(runs[i - 1])))

LineOf(doc, w, i) ==
  Cardinality({j \in 1..i : StartsLine(doc.runs, w, j)})
    + doc.margin * (doc.runs[i].block - 1)

(* TextRunTable::collect; a space that a line ends on may have no box. *)
Collect(p, w) ==
  LET doc == Documents[p]
      on(i) == {j \in 1..(i - 1) : LineOf(doc, w, j) = LineOf(doc, w, i)}
      width[k \in 0..Len(doc.runs)] == IF k = 0 THEN 0 ELSE width[k - 1] + Len(doc.runs[k].text)
      left(i) == IF on(i) = {} THEN 0 ELSE width[i - 1] - width[(CHOOSE j \in on(i) : \A k \in on(i) : j <= k) - 1]
      laid == [i \in 1..Len(doc.runs) |-> [doc.runs[i] EXCEPT !.line = LineOf(doc, w, i), !.left = left(i)]] IN
  SelectSeq(laid, LAMBDA r : ~(r.soft /\ w = 1))

Tables == [p \in Pages, w \in 1..2 |-> Collect(p, w)]
Table(p, w) == Tables[p, w]

Right(r) == r.left + Len(r.text)

(* text_signature *)
TextSignature(f) == LET t == Table(f.page, f.width) IN [i \in DOMAIN t |-> t[i].text]

-----------------------------------------------------------------------------
(* selection.rs: pure geometry over a table t *)

Readable(t) == {i \in DOMAIN t : ~Blank(t[i])}
Gap(lo, x, hi) == IF x < lo THEN lo - x ELSE IF x > hi THEN x - hi ELSE 0
Distance(r, x, y) == <<Gap(r.line, y, r.line), Gap(r.left, x, Right(r))>>
Nearer(a, b) == a[1] < b[1] \/ (a[1] = b[1] /\ a[2] < b[2])

(* nearest_run: same line first, the first of equals *)
NearestRun(t, x, y) ==
  CHOOSE i \in Readable(t) : \A j \in Readable(t) :
    Nearer(Distance(t[i], x, y), Distance(t[j], x, y)) \/ (Distance(t[i], x, y) = Distance(t[j], x, y) /\ i <= j)

(* Painter::caret_at; the character boundary is DirectWrite's. *)
CaretAt(t, x, y) ==
  LET i == NearestRun(t, x, y)
      ch == IF x <= t[i].left THEN 0 ELSE IF x >= Right(t[i]) THEN Len(t[i].text) ELSE x - t[i].left IN
  [run |-> i, ch |-> ch]

Span(r, a, s, b) == [from |-> [run |-> r, ch |-> a], head |-> [run |-> s, ch |-> b]]

(* word_at_pos: the stretch of characters of one class *)
WordAt(t, at) ==
  LET text == t[at.run].text
      i == IF at.ch < Len(text) THEN at.ch + 1 ELSE Len(text)
      same(j) == \A k \in (IF j < i THEN j..i ELSE i..j) : text[k] = text[i]
      word == {j \in DOMAIN text : same(j)}
      first == CHOOSE j \in word : \A k \in word : j <= k
      last == CHOOSE j \in word : \A k \in word : j >= k IN
  Span(at.run, first - 1, at.run, last)

(* block_at_pos *)
BlockAt(t, at) ==
  LET b == {i \in DOMAIN t : \A k \in (IF i < at.run THEN i..at.run ELSE at.run..i) : t[k].block = t[at.run].block}
      first == CHOOSE j \in b : \A k \in b : j <= k
      last == CHOOSE j \in b : \A k \in b : j >= k IN
  Span(first, 0, last, Len(t[last].text))

(* select_all: from the first readable run to the last *)
Everything(t) ==
  LET r == Readable(t) IN
  IF r = {} THEN NoText
  ELSE LET first == CHOOSE j \in r : \A k \in r : j <= k
           last == CHOOSE j \in r : \A k \in r : j >= k IN
       Span(first, 0, last, Len(t[last].text))

Before_(a, b) == a.run < b.run \/ (a.run = b.run /\ a.ch <= b.ch)
Start(s) == IF Before_(s.from, s.head) THEN s.from ELSE s.head
End(s) == IF Before_(s.from, s.head) THEN s.head ELSE s.from

(* The part of run i that s covers. *)
Piece(t, s, i) ==
  SubSeq(t[i].text, (IF i = Start(s).run THEN Start(s).ch ELSE 0) + 1,
                    IF i = End(s).run THEN End(s).ch ELSE Len(t[i].text))

(* Mutant of Separator: a word on a new line begins a new line of the copy. *)
SeparatorPerLine(prev, next, sawSpace) ==
  IF prev.line = next.line THEN IF sawSpace \/ next.left - Right(prev) > 1 THEN "space" ELSE "none" ELSE "newline"

(* separator *)
Separator(prev, next, sawSpace) ==
  IF prev.line = next.line THEN IF sawSpace \/ next.left - Right(prev) > 1 THEN "space" ELSE "none"
  ELSE IF next.block # prev.block
  THEN IF next.line - prev.line > 1 \/ next.breaks >= 2 THEN "paragraph" ELSE "newline"
  ELSE CASE next.breaks = 0 -> "space" [] next.breaks = 1 -> "newline" [] OTHER -> "paragraph"

(* selection_text: each word with what goes before it *)
SelectionText(t, s) ==
  LET words == {i \in Start(s).run..End(s).run : i \in Readable(t) /\ Piece(t, s, i) # <<>>}
      earlier(i) == {j \in words : j < i}
      prev(i) == CHOOSE j \in earlier(i) : \A k \in earlier(i) : k <= j
      spaced(i) == \E k \in (prev(i) + 1)..(i - 1) : Piece(t, s, k) # <<>> IN
  [i \in words |-> <<IF earlier(i) = {} THEN "none" ELSE Separator(t[prev(i)], t[i], spaced(i)), Piece(t, s, i)>>]

-----------------------------------------------------------------------------
(* The Reader and the widget: loading *)

Shown == Table(frame.page, frame.width)
HasFrame == frame.id # 0
HasText == HasFrame /\ Readable(Shown) # {}

(* HtmlWidget::load and the invalidate after it *)
Load(p) ==
  /\ page' = p /\ frame' = NoFrame /\ textSel' = NoText
  /\ ui' = [ui EXCEPT !.failed = FALSE, !.reset = TRUE, !.stale = TRUE]
  /\ paintDue' = TRUE
  /\ UNCHANGED <<window, pointer, painter, jobs, out, wake, workerVars>>

Step == budget.loads < MaxLoads /\ budget' = [budget EXCEPT !.loads = @ + 1]

Allowed(p, c) == c.view \/ p \in c.trusted

(* allow_images_for, then show_message: the fetcher is set, the page loaded. *)
ShowMessage(p) ==
  /\ Step /\ fetcher' = Allowed(p, choice) /\ Load(p) /\ UNCHANGED choice

(* View > Load remote images, "Always load from" and Stop: the same page is
   loaded again if that changes what it may fetch. *)
ChooseImages(c) ==
  /\ Step /\ c # choice /\ choice' = c
  /\ fetcher' = Allowed(page, c)
  /\ IF fetcher' = fetcher
     THEN UNCHANGED <<page, frame, textSel, ui, paintDue, window, pointer, painter, jobs, out, wake, workerVars>>
     ELSE Load(page)

(* A change of palette or of View > Original colours renders the page again. *)
Recolour == Step /\ Load(page) /\ UNCHANGED <<choice, fetcher>>

Resize(w) ==
  /\ Step /\ w # window /\ window' = w /\ paintDue' = TRUE
  /\ UNCHANGED <<page, frame, textSel, ui, pointer, painter, choice, fetcher, jobs, out, wake, workerVars>>

-----------------------------------------------------------------------------
(* Painting *)

(* poll: a new layout of the same text keeps the carets. *)
KeepsSelection(old, new) == old.id # 0 /\ TextSignature(old) = TextSignature(new)

(* Painter::font: a key is resolved once. *)
Resolve(f) ==
  [k \in DOMAIN painter |-> IF painter[k] = "none" /\ f.id # 0 /\ k > f.base /\ k <= Len(f.fonts) THEN f.fonts[k] ELSE painter[k]]

(* submit: the page as it is now, under the next id. *)
JobFor(id) == [id |-> id, page |-> page, width |-> window, reset |-> ui.reset]

(* paint_d2d: submit if the page or the width is new, take what the worker
   has finished, paint. *)
Paint_ ==
  LET submits == ui.stale \/ window # ui.requested
      id == IF submits THEN ui.submitted + 1 ELSE ui.submitted
      mine == {k \in DOMAIN out : out[k].id = id}
      frames == {out[k] : k \in {k \in mine : out[k].kind = "frame"}} IN
  /\ paintDue /\ paintDue' = FALSE
  /\ jobs' = IF submits /\ worker.at # "gone" THEN Append(jobs, JobFor(id)) ELSE jobs
  /\ out' = <<>>
  /\ ui' = [submitted |-> id, requested |-> window, reset |-> ui.reset /\ ~submits, stale |-> FALSE,
            failed |-> ui.failed \/ worker.at = "gone" \/ (mine # {} /\ frames = {})]
  /\ \E f \in IF frames = {} THEN {frame} ELSE {o.frame : o \in frames} :
       /\ frame' = f
       /\ textSel' = IF f = frame \/ KeepsSelection(frame, f) THEN textSel ELSE NoText
       /\ painter' = Resolve(f)
  /\ UNCHANGED <<page, window, pointer, choice, fetcher, wake, workerVars, budget>>

(* Msg::Frame *)
FrameReady ==
  /\ wake /\ wake' = FALSE /\ paintDue' = TRUE
  /\ UNCHANGED <<page, frame, textSel, ui, window, pointer, painter, choice, fetcher, jobs, out, workerVars, budget>>

-----------------------------------------------------------------------------
(* Mouse and keyboard *)

Touch == budget.inputs < MaxInputs_ /\ budget' = [budget EXCEPT !.inputs = @ + 1]
OnlyPointer == UNCHANGED <<page, frame, ui, window, painter, choice, fetcher, jobs, out, wake, workerVars>>
Clicks(again) == IF again THEN (pointer.clicks % 3) + 1 ELSE 1

MouseDown_(x, y, again) ==
  /\ Touch
  /\ pointer' = [pointer EXCEPT !.clicks = Clicks(again), !.dragging = TRUE, !.moved = FALSE]
  /\ textSel' = IF ~HasText THEN textSel
            ELSE LET at == CaretAt(Shown, x, y) IN
                 [from |-> IF pointer.shift /\ textSel # NoText THEN textSel.from ELSE at, head |-> at]
  /\ paintDue' = TRUE /\ OnlyPointer

(* mouse_move past the slop while dragging *)
Drag(x, y) ==
  /\ pointer.dragging /\ pointer' = [pointer EXCEPT !.moved = TRUE] /\ UNCHANGED budget
  /\ textSel' = IF textSel # NoText /\ HasText THEN [textSel EXCEPT !.head = CaretAt(Shown, x, y)] ELSE textSel
  /\ paintDue' = TRUE /\ OnlyPointer

DoubleClick(x, y, again) ==
  /\ Touch /\ pointer' = [pointer EXCEPT !.clicks = Clicks(again), !.dragging = FALSE]
  /\ textSel' = IF ~HasText THEN textSel
            ELSE LET at == CaretAt(Shown, x, y) IN IF Clicks(again) >= 3 THEN BlockAt(Shown, at) ELSE WordAt(Shown, at)
  /\ paintDue' = TRUE /\ OnlyPointer

(* href_at *)
LinkAt(x, y) == HasFrame /\ \E i \in DOMAIN Shown :
  Shown[i].href # 0 /\ Shown[i].line = y /\ Shown[i].left <= x /\ x < Right(Shown[i])

(* A clean single click on a link reports it and drops the selection. *)
MouseUp(x, y) ==
  /\ pointer.dragging \/ pointer.moved
  /\ pointer' = [pointer EXCEPT !.dragging = FALSE, !.moved = FALSE]
  /\ textSel' = IF ~pointer.moved /\ pointer.clicks = 1 /\ LinkAt(x, y) THEN NoText ELSE textSel
  /\ UNCHANGED <<paintDue, budget>> /\ OnlyPointer

CaptureChanged ==
  /\ pointer.dragging /\ pointer' = [pointer EXCEPT !.dragging = FALSE]
  /\ UNCHANGED <<textSel, paintDue, budget>> /\ OnlyPointer

KeyShift == Touch /\ pointer' = [pointer EXCEPT !.shift = ~@] /\ UNCHANGED <<textSel, paintDue>> /\ OnlyPointer

SelectAll_ ==
  /\ Touch /\ textSel' = IF HasFrame THEN Everything(Shown) ELSE textSel
  /\ paintDue' = TRUE /\ UNCHANGED pointer /\ OnlyPointer

-----------------------------------------------------------------------------
(* The render worker *)

(* Mutant of NewestJob: only the survivor's own flag counts. *)
NewestJobAlone(queue) == queue[Len(queue)]

(* newest_job: a dropped job's reset_images passes to the survivor. *)
NewestJob(queue) ==
  [queue[Len(queue)] EXCEPT !.reset = \E k \in DOMAIN queue : queue[k].reset]

(* run: everything queued, the newest only; render: images asked for before
   are forgotten if the job or an abandoned one says so. *)
TakeJob ==
  LET job == NewestJob(jobs) IN
  /\ worker.at = "idle" /\ jobs # <<>> /\ jobs' = <<>>
  /\ worker' = [at |-> "pass", job |-> job, passes |-> 0, pending |-> {}, resetNext |-> worker.resetNext /\ job.reset]
  /\ engine' = IF job.reset \/ worker.resetNext THEN [engine EXCEPT !.requested = {}] ELSE engine
  /\ UNCHANGED <<uiVars, out, wake, refused, budget>>

Superseded(job) == ui.submitted # job.id

Idle(resetNext) == [worker EXCEPT !.at = "idle", !.resetNext = resetNext]

(* emit_frame, Engine::frame, take_frame: the fonts go with the frame. *)
EmitFrame(e, base) ==
  LET f == [id |-> worker.job.id, page |-> worker.job.page, width |-> worker.job.width,
            images |-> e.images, fonts |-> e.fonts, base |-> base] IN
  /\ out' = Append(out, [id |-> f.id, kind |-> "frame", frame |-> f]) /\ wake' = TRUE
  /\ engine' = [e EXCEPT !.fonts = <<>>]
  /\ worker' = Idle(worker.resetNext)

Images(p) == Documents[p].data \union Documents[p].remote

(* One pass: an abandoned job makes the next one forget the images. *)
Abandon ==
  /\ worker.at = "pass" /\ Superseded(worker.job)
  /\ worker' = Idle(TRUE) /\ UNCHANGED <<uiVars, jobs, out, wake, engine, refused, budget>>

(* draw_pass records the page; load_image asks once for an image it lacks. *)
DrawPass ==
  LET p == worker.job.page
      need == Images(p) \ (engine.images \union engine.requested)
      drawn == [engine EXCEPT !.requested = @ \union need, !.fonts = @ \o Documents[p].fonts]
      last == worker.passes + 1 = 2 IN
  /\ worker.at = "pass" /\ ~Superseded(worker.job)
  /\ IF need = {} \/ last
     THEN EmitFrame(drawn, Len(engine.fonts))
     ELSE /\ worker' = [worker EXCEPT !.at = "fetch", !.passes = @ + 1, !.pending = need]
          /\ engine' = drawn /\ UNCHANGED <<out, wake>>
  /\ UNCHANGED <<uiVars, jobs, refused, budget>>

(* The page cannot be parsed. *)
DrawFails ==
  /\ worker.at = "pass" /\ ~Superseded(worker.job)
  /\ Step
  /\ out' = Append(out, [id |-> worker.job.id, kind |-> "failed", frame |-> NoFrame]) /\ wake' = TRUE
  /\ worker' = Idle(worker.resetNext) /\ UNCHANGED <<uiVars, jobs, engine, refused>>

(* The images of the pass: data: URIs are decoded, the others fetched if
   there is a fetcher now, which may fail. *)
Fetch_(got) ==
  LET p == worker.job.page
      loaded == (worker.pending \intersect Documents[p].data) \union got IN
  /\ worker.at = "fetch"
  /\ got \subseteq worker.pending \intersect Documents[p].remote
  /\ got # {} => fetcher
  /\ refused' = IF fetcher THEN refused \ worker.pending
                ELSE refused \union (worker.pending \intersect Documents[p].remote)
  /\ IF loaded = {}
     THEN EmitFrame(engine, Len(engine.fonts) - Len(Documents[p].fonts))
     ELSE /\ worker' = [worker EXCEPT !.at = "pass"] /\ engine' = [engine EXCEPT !.images = @ \union loaded]
          /\ UNCHANGED <<out, wake>>
  /\ UNCHANGED <<uiVars, jobs, budget>>

-----------------------------------------------------------------------------
HtmlInit ==
  /\ page = FirstPage /\ frame = NoFrame /\ textSel = NoText /\ window = 2 /\ paintDue = TRUE
  /\ ui = [submitted |-> 0, requested |-> 0, reset |-> TRUE, stale |-> TRUE, failed |-> FALSE]
  /\ pointer = [dragging |-> FALSE, moved |-> FALSE, clicks |-> 0, shift |-> FALSE]
  /\ painter = [k \in 1..MaxFontKeys |-> "none"]
  /\ choice = [view |-> FALSE, trusted |-> Senders] /\ fetcher = FALSE
  /\ jobs = <<>> /\ out = <<>> /\ wake = FALSE
  /\ \E at \in {"idle", "gone"} :
       worker = [at |-> at, passes |-> 0, pending |-> {}, resetNext |-> FALSE,
                 job |-> [id |-> 0, page |-> FirstPage, width |-> 0, reset |-> FALSE]]
  /\ engine = [requested |-> {}, images |-> {}, fonts |-> <<>>]
  /\ refused = {} /\ budget = [loads |-> 0, inputs |-> 0]

Points == {<<0, 0>>, <<4, 1>>}

HtmlNext ==
  \/ \E p \in Pages \ {FirstPage} : ShowMessage(p)
  \/ \E v \in BOOLEAN : ChooseImages([choice EXCEPT !.view = v])
  \/ page # FirstPage /\ ChooseImages([choice EXCEPT !.trusted = (@ \ {page}) \union ({page} \ @)])
  \/ Recolour \/ Paint_ \/ FrameReady \/ CaptureChanged \/ KeyShift \/ SelectAll_
  \/ \E w \in {1, 2} : Resize(w)
  \/ \E at \in Points : Drag(at[1], at[2]) \/ MouseUp(at[1], at[2])
       \/ \E again \in BOOLEAN : MouseDown_(at[1], at[2], again) \/ DoubleClick(at[1], at[2], again)
  \/ TakeJob \/ Abandon \/ DrawPass \/ DrawFails
  \/ \E got \in SUBSET UNION {Documents[p].remote : p \in Pages} : Fetch_(got)

HtmlSpec == HtmlInit /\ [][HtmlNext]_htmlVars

-----------------------------------------------------------------------------
(* Type invariant: a frame is of a job that was submitted, and the engine holds
   images of known pages only. *)
HtmlTypeOK ==
  /\ page \in Pages /\ frame.page \in Pages /\ frame.id <= ui.submitted
  /\ worker.at \in {"idle", "gone", "pass", "fetch"} /\ pointer.clicks \in 0..3
  /\ Len(out) <= ui.submitted /\ engine.images \subseteq UNION {Images(p) : p \in Pages}

(* Once nothing is queued, rendering, posted or waiting to be painted, the
   view shows the newest page at the window's width with every embedded image
   of it, unless the render failed, and no remote image that may be fetched
   was last asked for while it might not: no job, wake, image or reset is lost
   to a resize or a load in the middle of a render (submit, poll, newest_job,
   render). *)
SettlesOnNewest ==
  (worker.at = "idle" /\ jobs = <<>> /\ ~paintDue /\ ~wake /\ ~ui.failed) =>
    /\ HasFrame /\ frame.id = ui.submitted /\ frame.page = page /\ frame.width = window
    /\ Documents[page].data \subseteq frame.images
    /\ fetcher => Documents[page].remote \intersect refused \subseteq frame.images

(* The carets of a selection are in the text on screen, whichever frame
   replaced the one they were made in (poll, load, selection_rects). *)
CaretsInText ==
  textSel # NoText => /\ HasFrame
                  /\ \A c \in {textSel.from, textSel.head} : c.run \in DOMAIN Shown /\ c.ch <= Len(Shown[c.run].text)

(* A new layout of the same page that keeps the selection copies the same
   text: wrapped lines are joined again (selection_text, separator). *)
CopyIgnoresLayout ==
  [][(HasFrame /\ HasFrame' /\ textSel # NoText /\ textSel' = textSel /\ frame'.page = frame.page)
       => SelectionText(Shown', textSel) = SelectionText(Shown, textSel)]_<<frame, textSel>>

(* Text is painted in the font it was laid out in (Painter::new: "so painted
   widths match measured widths"). *)
PaintsItsFonts ==
  HasFrame => \A k \in (frame.base + 1)..Len(frame.fonts) : (k \in DOMAIN painter /\ painter[k] # "none") => painter[k] = frame.fonts[k]
=============================================================================
