----------------------------- MODULE MessageList -----------------------------
(***************************************************************************)
(* The owner-drawn message list: its view state (state.rs, selection.rs),  *)
(* mouse and keyboard (message_list/widget.rs), scrolling and painting,    *)
(* and the edits the application makes to its rows (message_list/rows.rs). *)
(*                                                                         *)
(* Rows are numbered from 1; no row is 0.  Lengths are whole pixels.       *)
(***************************************************************************)
EXTENDS Naturals, Integers, Sequences, FiniteSets

CONSTANTS
  RowHeight, Viewport,
  MaxRows,      \* bound: rows at once
  MaxMessages,  \* bound: messages ever shown
  MaxInputs     \* bound: inputs and edits

ASSUME ListAssumption ==
  /\ RowHeight \in Nat \ {0} /\ Viewport \in Nat \ {0} /\ RowHeight <= Viewport
  /\ MaxRows \in Nat /\ MaxMessages \in Nat /\ MaxInputs \in Nat

VARIABLES
  list,         \* the message of each row
  selected, anchor, focus,   \* Selection
  scroll,       \* ViewState.scroll, and the host's offset
  ctrl, shift,  \* the modifiers as the widget tracks them
  keys,         \* the modifiers that are down
  focused,       \* the list has the keyboard focus
  hover,        \* the row under the pointer
  shown,        \* rows drawn as selected
  dirty,        \* rows to be painted again
  owed,         \* history: rows that changed without being invalidated
  ghost,        \* history: Ctrl+A in an empty list put the focus where no row is
  inputs, fresh \* counters

listVars == <<list, selected, anchor, focus, scroll, ctrl, shift, keys, focused, hover, shown, dirty, owed, ghost, inputs, fresh>>

Rows == 1..Len(list)
AllRows == 1..(MaxRows + 1)
Smaller(a, b) == IF a < b THEN a ELSE b
Larger(a, b) == IF a > b THEN a ELSE b

-----------------------------------------------------------------------------
(* state.rs *)

MaxScroll(len) == Larger(0, len * RowHeight - Viewport)
ClampScroll(y, len) == Larger(0, Smaller(y, MaxScroll(len)))

(* visible_range *)
VisibleRange(y, len) ==
  IF len = 0 THEN {}
  ELSE LET top == ClampScroll(y, len)
           first == top \div RowHeight + 1
           last == (top + Viewport + RowHeight - 1) \div RowHeight IN
       first..Larger(first, Smaller(last, len))

(* scroll_for_row *)
ScrollForRow(row, y) ==
  LET top == (row - 1) * RowHeight IN
  IF top < y THEN top ELSE IF top + RowHeight > y + Viewport THEN top + RowHeight - Viewport ELSE y

-----------------------------------------------------------------------------
(* selection.rs *)

Range_(a, b) == Smaller(a, b)..Larger(a, b)
Anchor(row) == IF anchor # 0 THEN anchor ELSE IF focus # 0 THEN focus ELSE row

Click(row) == selected' = {row} /\ anchor' = row /\ focus' = row
CtrlClick(row) ==
  /\ selected' = IF row \in selected THEN selected \ {row} ELSE selected \union {row}
  /\ anchor' = row /\ focus' = row
ShiftClick(row) == selected' = Range_(Anchor(row), row) /\ focus' = row /\ UNCHANGED anchor

(* move_focus *)
MoveFocus(row, isCtrl, isShift) ==
  IF isCtrl THEN focus' = row /\ UNCHANGED <<selected, anchor>>
  ELSE IF isShift THEN ShiftClick(row) ELSE Click(row)

(* nav_target *)
NavTarget(key, page) ==
  LET last == Len(list)
      from(row, none) == IF focus = 0 THEN none ELSE row IN
  Smaller(last, CASE key = "HOME" -> 1 [] key = "END" -> last
    [] key = "UP" -> from(Larger(1, focus - 1), last)
    [] key = "DOWN" -> from(focus + 1, 1)
    [] key = "PAGE_UP" -> from(Larger(1, focus - page), last)
    [] OTHER -> from(focus + page, 1))

(* Selection::insert *)
Inserted(row, at, count) == IF row >= at THEN row + count ELSE row

(* Selection::remove; 0 for a row that is gone. *)
Removed(row, at, count) == IF row >= at + count THEN row - count ELSE IF row < at THEN row ELSE 0

-----------------------------------------------------------------------------
(* Repainting *)

(* Mutant of ChangedRows: a row that leaves the selection is not among them. *)
ChangedRowsEntering(before, after, f, g) == ((after \ before) \union {f, g}) \ {0}

(* dirty.rs: rows that entered or left the selection, and both focus rows. *)
ChangedRows(before, after, f, g) == ((before \ after) \union (after \ before) \union {f, g}) \ {0}

Touched == dirty' = dirty \union ChangedRows(selected, selected', focus, focus') /\ UNCHANGED owed
Invalidate == dirty' = AllRows /\ owed' = {}

(* paint_d2d: the offset is clamped, the visible dirty rows are drawn; the
   others were not on screen. *)
Paint ==
  /\ dirty # {}
  /\ scroll' = ClampScroll(scroll, Len(list))
  /\ shown' = (shown \ dirty) \union (selected \intersect dirty)
  /\ dirty' = {}
  /\ UNCHANGED <<list, selected, anchor, focus, ctrl, shift, keys, focused, hover, owed, ghost, inputs, fresh>>

Input_ == inputs < MaxInputs /\ inputs' = inputs + 1
ViewStays == UNCHANGED <<list, fresh>>
KeysStay == UNCHANGED <<ctrl, shift, keys>>

-----------------------------------------------------------------------------
(* Mouse; a row is hit when it is on screen *)

Hit(row) == row \in VisibleRange(scroll, Len(list))

(* cx.focus: the list gets the keyboard focus, and repaints all of itself. *)
Focused == focused' = TRUE

MouseDown(row) ==
  /\ Input_ /\ Hit(row) /\ Focused
  /\ IF ctrl THEN CtrlClick(row) ELSE IF shift THEN ShiftClick(row) ELSE Click(row)
  /\ IF focused THEN Touched ELSE Invalidate
  /\ ViewStays /\ KeysStay /\ UNCHANGED <<scroll, hover, shown, ghost>>

(* A right-click selects the row unless it is in the selection; nothing is
   invalidated for it. *)
ContextMenu(row) ==
  /\ Input_ /\ Hit(row) /\ Focused
  /\ IF row \in selected THEN UNCHANGED <<selected, anchor, focus>> ELSE Click(row)
  /\ IF focused THEN UNCHANGED dirty /\ owed' = owed \union ChangedRows(selected, selected', 0, 0) ELSE Invalidate
  /\ ViewStays /\ KeysStay /\ UNCHANGED <<scroll, hover, shown, ghost>>

(* A click on a star, or Tab: SetFocus; the star's flag is the application's. *)
TakeFocus ==
  /\ Input_ /\ ~focused /\ Focused /\ Invalidate
  /\ ViewStays /\ KeysStay /\ UNCHANGED <<selected, anchor, focus, scroll, hover, shown, ghost>>

(* mouse_move: the row left and the row entered are painted; 0 is the blank
   below a short list. *)
MouseMove(row) ==
  /\ row # hover /\ (Hit(row) \/ (row = 0 /\ Len(list) * RowHeight < Viewport)) /\ hover' = row
  /\ dirty' = dirty \union ({hover, row} \ {0}) /\ owed' = owed \ dirty'
  /\ ViewStays /\ KeysStay /\ UNCHANGED <<selected, anchor, focus, scroll, focused, shown, ghost, inputs>>

MouseLeave ==
  /\ hover # 0 /\ hover' = 0 /\ Invalidate
  /\ ViewStays /\ KeysStay /\ UNCHANGED <<selected, anchor, focus, scroll, focused, shown, ghost, inputs>>

-----------------------------------------------------------------------------
(* Keyboard *)

(* A modifier goes down or up; the widget hears of it while it has the focus. *)
Press(k) ==
  /\ Input_ /\ keys' = IF k \in keys THEN keys \ {k} ELSE keys \union {k}
  /\ ctrl' = IF focused /\ k = "ctrl" THEN k \in keys' ELSE ctrl
  /\ shift' = IF focused /\ k = "shift" THEN k \in keys' ELSE shift
  /\ ViewStays /\ UNCHANGED <<selected, anchor, focus, scroll, focused, hover, shown, dirty, owed, ghost>>

(* KillFocus: the tracked modifiers stay as they are. *)
LoseFocus ==
  /\ Input_ /\ focused /\ focused' = FALSE /\ Invalidate
  /\ ViewStays /\ KeysStay /\ UNCHANGED <<selected, anchor, focus, scroll, hover, shown, ghost>>

(* The host's on_scroll: clamp, and repaint all. *)
ScrollTo(y, len) == scroll' = ClampScroll(y, len)

(* key: a navigation key moves the focus and brings it into view. *)
Navigate(key) ==
  /\ Input_ /\ focused /\ list # <<>>
  /\ MoveFocus(NavTarget(key, Larger(1, Viewport \div RowHeight)), "ctrl" \in keys, "shift" \in keys)
  /\ ScrollTo(ScrollForRow(focus', scroll), Len(list))
  /\ IF scroll' = scroll THEN Touched ELSE Invalidate
  /\ ViewStays /\ KeysStay /\ UNCHANGED <<focused, hover, shown, ghost>>

(* Ctrl+A: the focus goes to the first row, also when there is none. *)
SelectAll ==
  /\ Input_ /\ focused /\ "ctrl" \in keys
  /\ selected' = Rows /\ anchor' = 1 /\ focus' = 1 /\ Invalidate
  /\ ghost' = (ghost \/ list = <<>>)
  /\ ViewStays /\ KeysStay /\ UNCHANGED <<scroll, focused, hover, shown>>

(* The wheel or the thumb. *)
Scroll(y) ==
  /\ Input_ /\ ScrollTo(y, Len(list)) /\ scroll' # scroll /\ Invalidate
  /\ ViewStays /\ KeysStay /\ UNCHANGED <<selected, anchor, focus, focused, hover, shown, ghost>>

-----------------------------------------------------------------------------
(* The application edits the model *)

(* set_rows: another mailbox. *)
SetRows(n) ==
  /\ Input_ /\ fresh + n <= MaxMessages /\ fresh' = fresh + n
  /\ list' = [i \in 1..n |-> fresh + i] /\ scroll' = 0
  /\ selected' = {} /\ anchor' = 0 /\ focus' = 0 /\ ghost' = FALSE
  /\ Invalidate /\ KeysStay /\ UNCHANGED <<focused, hover, shown>>

(* extend_rows: an older page below. *)
ExtendRows ==
  /\ Input_ /\ fresh < MaxMessages /\ Len(list) < MaxRows /\ fresh' = fresh + 1
  /\ list' = Append(list, fresh') /\ Invalidate
  /\ KeysStay /\ UNCHANGED <<selected, anchor, focus, scroll, focused, hover, shown, ghost>>

(* ViewState::insert *)
InsertScroll(at, count) == IF scroll > 0 /\ (at - 1) * RowHeight <= scroll THEN scroll + count * RowHeight ELSE scroll

(* insert_rows: new mail, anywhere in the list. *)
InsertRows(at, count) ==
  /\ Input_ /\ fresh + count <= MaxMessages /\ Len(list) + count <= MaxRows /\ fresh' = fresh + count
  /\ list' = [i \in 1..(Len(list) + count) |->
       IF i < at THEN list[i] ELSE IF i < at + count THEN fresh + i - at + 1 ELSE list[i - count]]
  /\ selected' = {Inserted(r, at, count) : r \in selected}
  /\ anchor' = IF anchor = 0 THEN 0 ELSE Inserted(anchor, at, count)
  /\ focus' = IF focus = 0 THEN 0 ELSE Inserted(focus, at, count)
  /\ ScrollTo(InsertScroll(at, count), Len(list'))
  /\ Invalidate /\ KeysStay /\ UNCHANGED <<focused, hover, shown, ghost>>

(* ViewState::remove *)
RemoveScroll(at, count) ==
  LET firstVisible == scroll \div RowHeight + 1 IN
  Larger(0, scroll - Larger(0, Smaller(at + count, firstVisible) - at) * RowHeight)

(* remove_rows: messages that were moved or deleted. *)
RemoveRows(at, count) ==
  /\ Input_ /\ at + count - 1 <= Len(list)
  /\ list' = [i \in 1..(Len(list) - count) |-> IF i < at THEN list[i] ELSE list[i + count]]
  /\ selected' = {Removed(r, at, count) : r \in selected} \ {0}
  /\ anchor' = Removed(anchor, at, count) /\ focus' = Removed(focus, at, count)
  /\ ScrollTo(RemoveScroll(at, count), Len(list'))
  /\ Invalidate /\ KeysStay /\ UNCHANGED <<focused, hover, shown, ghost, fresh>>

(* set_selection: rows in bounds only; the first has the focus. *)
SetSelection(rs) ==
  LET kept == rs \intersect Rows
      first == IF kept = {} THEN 0 ELSE CHOOSE r \in kept : \A q \in kept : r <= q IN
  /\ Input_ /\ selected' = kept /\ anchor' = first /\ focus' = first /\ Invalidate
  /\ ViewStays /\ KeysStay /\ UNCHANGED <<scroll, focused, hover, shown, ghost>>

ListInit ==
  /\ list = <<>> /\ selected = {} /\ anchor = 0 /\ focus = 0 /\ scroll = 0
  /\ ctrl = FALSE /\ shift = FALSE /\ keys = {} /\ focused \in BOOLEAN /\ hover = 0
  /\ shown = {} /\ dirty = {} /\ owed = {} /\ ghost = FALSE /\ inputs = 0 /\ fresh = 0

ListNext ==
  \/ \E row \in Rows : MouseDown(row) \/ ContextMenu(row) \/ MouseMove(row)
  \/ MouseMove(0) \/ MouseLeave \/ TakeFocus \/ LoseFocus \/ SelectAll \/ Paint \/ ExtendRows
  \/ \E k \in {"ctrl", "shift"} : Press(k)
  \/ \E key \in {"HOME", "END", "UP", "DOWN", "PAGE_UP", "PAGE_DOWN"} : Navigate(key)
  \/ \E y \in 0..(MaxRows * RowHeight) : Scroll(y)
  \/ \E n \in 0..MaxRows : SetRows(n)
  \/ \E at \in 1..(Len(list) + 1) : InsertRows(at, 1)
  \/ \E at \in Rows, count \in 1..2 : RemoveRows(at, count)
  \/ \E rs \in {{}, {2}, {1, MaxRows + 1}} : SetSelection(rs)

ListSpec == ListInit /\ [][ListNext]_listVars

-----------------------------------------------------------------------------
(* Type invariant: the list and its scroll offset stay within their bounds, and
   only rows there can be are marked for painting. *)
ListTypeOK ==
  /\ Len(list) <= MaxRows /\ scroll \in 0..MaxScroll(MaxRows) /\ dirty \subseteq AllRows
  /\ hover \in 0..MaxRows /\ keys \subseteq {"ctrl", "shift"}

(* The selection, its anchor and the focus are rows of the list after any
   input and edit, except that Ctrl+A in an empty list leaves anchor and focus
   past its end (select_all, insert, remove, replace). *)
SelectionInBounds ==
  /\ selected \subseteq Rows
  /\ ghost \/ (anchor \in {0} \union Rows /\ focus \in {0} \union Rows)

(* A row on screen is drawn as selected exactly when it is, or will be painted
   again, whatever rectangle was invalidated; the one exception is a
   right-click in a list that has the focus (changed_rows, invalidate_rows). *)
PaintedIsCurrent ==
  \A r \in VisibleRange(scroll, Len(list)) : r \in dirty \union owed \/ (r \in shown <=> r \in selected)

(* Row r of a window that begins at y. *)
InView(r, y) == (r - 1) * RowHeight >= y /\ r * RowHeight <= y + Viewport

(* A key always leaves the row it moved to wholly in view; and an edit leaves
   the messages of a scrolled window where they are: the first message in it
   is at the same height, unless it was removed or the list got too short
   (scroll_for_row, ViewState::insert and remove). *)
ViewKeepsPlace ==
  [][/\ (focus' # focus /\ scroll' # scroll /\ list' = list) => InView(focus', scroll')
     /\ (list' # list /\ scroll > 0) =>
          LET first == scroll \div RowHeight + 1 IN
          \A r \in 1..Len(list') :
            (first <= Len(list) /\ list'[r] = list[first] /\ scroll' > 0 /\ scroll' < MaxScroll(Len(list'))) =>
              (r - 1) * RowHeight - scroll' = (first - 1) * RowHeight - scroll]_<<list, focus, scroll>>
=============================================================================
