---------------------------- MODULE BrowserTarget ----------------------------
(***************************************************************************)
(* Which element of a page a target names: as the browser backend resolves *)
(* it when it acts, and as the safety policy resolves it when it decides   *)
(* whether the user has to be asked.  A page shows elements in document    *)
(* order; an element's label is the sequence of its words.                 *)
(***************************************************************************)
EXTENDS Integers, Sequences

CONSTANTS
  SensitiveWords,  \* a label with one of them is consequential
  VisualWords,     \* a target with one of them is named by how it looks
  NoElement

Nth(found, i)      == IF i < Len(found) THEN found[i + 1] ELSE NoElement
Elements(shown)    == {shown[i] : i \in DOMAIN shown}

IsLink(e)     == e.tag = "a"
IsControl(e)  == e.tag = "button"
IsVideo(e)    == e.tag = "video" \/ "video" \in Elements(e.label)
IsSearch(e)   == e.tag = "input" /\ "search" \in Elements(e.label)

Within(t, label) ==
  \E i \in 0 .. Len(label) - Len(t) : SubSeq(label, i + 1, i + Len(t)) = t

\* _element_score: the whole label, a part of it, or its words in any order.
Score(e, t) ==
  IF t = <<>> THEN 0
  ELSE IF e.label = t THEN 100
  ELSE IF Within(t, e.label) THEN 70
  ELSE IF Elements(t) \subseteq Elements(e.label) THEN 45 ELSE 0

\* The first of the elements with the best score, if any has one.
Best(shown, t) ==
  LET better(i, j) == Score(shown[i], t) > Score(shown[j], t)
      best == {i \in DOMAIN shown : /\ Score(shown[i], t) > 0
                                    /\ \A j \in DOMAIN shown : ~better(j, i)}
  IN  IF best = {} THEN NoElement ELSE shown[CHOOSE i \in best : \A j \in best : i <= j]

\* resolve_element, for a kind.
Candidates(shown, kind) ==
  LET videos == SelectSeq(shown, IsVideo)
      links  == SelectSeq(shown, IsLink)
  IN  CASE kind = "video"  -> IF videos # <<>> THEN videos ELSE links
        [] kind = "result" -> links
        [] kind = "button" -> SelectSeq(shown, IsControl)
        [] kind = "search" -> SelectSeq(shown, IsSearch)

\* resolve_element: the element a target names among those that were observed.
Resolved(shown, target) ==
  CASE target.by = "id"   -> target.element
    [] target.by = "kind" -> Nth(Candidates(shown, target.kind), target.index)
    [] target.by = "text" -> Best(shown, target.text)

\* BrowserSafetyPolicy._descriptor: the element whose label is examined.
Examined(shown, target) ==
  LET holds(e) == target.text # <<>> /\ Within(target.text, e.label)
  IN  CASE target.by = "id"   -> IF target.element \in Elements(shown) THEN target.element ELSE NoElement
        [] target.by = "kind" -> Nth(CASE target.kind \in {"video", "result"} -> SelectSeq(shown, IsLink)
                                       [] target.kind = "button" -> SelectSeq(shown, IsControl)
                                       [] OTHER -> shown, target.index)
        [] target.by = "text" -> Nth(SelectSeq(shown, holds), 0)

Visual(target) == target.by = "text" /\ Elements(target.text) \cap VisualWords # {}

Sensitive(words) == Elements(words) \cap SensitiveWords # {}

\* require_confirmation: the label examined and the words of the target itself.
NeedsApproval(shown, ask) ==
  LET e == Examined(shown, ask.target)
  IN  /\ ~ask.confirmed
      /\ ask.act \in {"click", "type", "download"}
      /\ \/ ask.act = "download"
         \/ ask.target.by = "text" /\ Sensitive(ask.target.text)
         \/ e # NoElement /\ (Sensitive(e.label) \/ (ask.act = "type" /\ e.secret))

=============================================================================
