------------------------------ MODULE UiCarousel ------------------------------
(***************************************************************************)
(* The carousel of the UI kit (frontend/components/ui/carousel.tsx) above  *)
(* the library that scrolls it (embla, taken as it is used: it reports     *)
(* every move as "select", and a change of its slides as "reInit").  No    *)
(* page mounts it.  Every short sequence of events is explored by          *)
(* Scrolled.                                                               *)
(***************************************************************************)
LOCAL INSTANCE Integers

MaxEvents == 4    \* bound: length of the sequences explored
MaxSlides == 3    \* bound

\* at: the slide the library is on; ready: whether api is there; the flags
\* are what the component has last been told.
Mounted(loop, slides) ==
    [loop |-> loop, slides |-> slides, at |-> 1, ready |-> FALSE,
     canScrollPrev |-> FALSE, canScrollNext |-> FALSE]

\* The library: where it can go, and where it is after its slides changed.
LibraryCan(c, step) ==
    c.slides > 1 /\ (c.loop \/ c.at + step \in 1..c.slides)

LibraryAt(c, step) ==
    IF ~LibraryCan(c, step) THEN c.at ELSE ((c.at + step - 1) % c.slides) + 1

\* onSelect.
OnSelect(c) ==
    [c EXCEPT !.canScrollPrev = LibraryCan(c, -1), !.canScrollNext = LibraryCan(c, 1)]

\* The effect that subscribes once api is there, and the two events.
ApiReady(c) == OnSelect([c EXCEPT !.ready = TRUE])

Select(c, at) == IF c.ready /\ at # c.at THEN OnSelect([c EXCEPT !.at = at]) ELSE c

ReInit(c, slides) ==
    LET changed == [c EXCEPT !.slides = slides, !.at = IF @ > slides THEN slides ELSE @]
    IN  IF c.ready THEN OnSelect(changed) ELSE changed

\* scrollPrev and scrollNext: nothing happens before api is there.
Scroll(c, step) == IF c.ready THEN Select(c, LibraryAt(c, step)) ELSE c

\* CarouselPrevious and CarouselNext.
Previous(c) == [disabled |-> ~c.canScrollPrev, click |-> Scroll(c, -1)]
NextButton(c) == [disabled |-> ~c.canScrollNext, click |-> Scroll(c, 1)]

\* handleKeyDown: the two horizontal arrows, whatever the orientation.
ArrowDown(c, key) ==
    CASE key = "ArrowLeft" -> Scroll(c, -1) [] key = "ArrowRight" -> Scroll(c, 1) [] OTHER -> c

Events(c) ==
    {ApiReady(c)} \cup {ArrowDown(c, key) : key \in {"ArrowLeft", "ArrowRight", "ArrowUp"}}
        \cup {b.click : b \in {d \in {Previous(c), NextButton(c)} : ~d.disabled}}
        \cup {Select(c, at) : at \in 1..c.slides}
        \cup {ReInit(c, slides) : slides \in 1..MaxSlides}

\* What n events may lead to.
Scrolled[n \in 0..MaxEvents] ==
    IF n = 0 THEN {Mounted(loop, slides) : loop \in BOOLEAN, slides \in 1..MaxSlides}
    ELSE UNION {Events(c) : c \in Scrolled[n - 1]}

\* A button is usable exactly when it leads to another slide, also after slides
\* came or went while the carousel was shown.
ASSUME ButtonsLeadSomewhere ==
    \A c \in Scrolled[MaxEvents] : \A b \in {Previous(c), NextButton(c)} :
        ~b.disabled <=> b.click.at # c.at
=============================================================================
