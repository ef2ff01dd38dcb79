---------------------------- MODULE TidyInterface ----------------------------
(***************************************************************************)
(* The compositor (window_manager/tidy_interface.cc and opengl_visitor.cc):*)
(* a tree of actors under a stage, animations of their fields, textures    *)
(* that show X windows, and Draw(), called by a timer, which draws a frame *)
(* only if something was marked dirty since the last one.  A frame is      *)
(* drawn in two passes: opaque actors front to back, then the others back  *)
(* to front.  The position, scale and size of an actor are set and         *)
(* animated as its opacity is, and are left out with its colour.           *)
(***************************************************************************)
EXTENDS Naturals, Sequences, SequencesExt, FiniteSets

CONSTANTS Groups,      \* ContainerActors
          Quads,       \* QuadActors
          Textures,    \* TexturePixmapActors
          Stage, None,
          Opacities,   \* of actors: 0 invisible, 1 translucent, 2 opaque (> 0.999)
          Durations,   \* of animations, 0 for none
          MaxTidySteps \* bound on the calls and events

VARIABLE tidy

TidyContainers == Groups \cup {Stage}
TidyLeaves == Quads \cup Textures
TidyActors == Groups \cup TidyLeaves

\* Actor::Actor(), TexturePixmapActor::TexturePixmapActor().
NewActor ==
  [parent |-> None, opacity |-> 2, visible |-> TRUE, isOpaque |-> TRUE,
   animations |-> <<>>, window |-> FALSE, pixmap |-> None, live |-> TRUE]

\* TidyInterface::TidyInterface().  The one X window that textures show: its content,
\* whether it has an alpha channel, damage that was reported and not subtracted, and the
\* events on their way.  History: "raced" says that the window was drawn
\* to between the two requests of a refresh.
NewTidy(alpha) ==
  [actor |-> [a \in TidyActors |-> NewActor], children |-> [c \in TidyContainers |-> <<>>],
   dirty |-> TRUE, now |-> 0, frame |-> {}, passes |-> <<>>, texture |-> None,
   xwin |-> [alpha |-> alpha, content |-> 0, damaged |-> FALSE, alive |-> TRUE],
   events |-> <<>>, refreshing |-> None, raced |-> FALSE, steps |-> 0]

set_dirty(t) == [t EXCEPT !.dirty = TRUE]

-----------------------------------------------------------------------------
(* The tree. *)

Live(t, a) == t.actor[a].live

\* ContainerActor::AddActor(): on top of the other children.
AddActor(t, c, a) ==
  set_dirty([t EXCEPT !.actor[a].parent = c, !.children[c] = <<a>> \o @])

Index(seq, a) == CHOOSE i \in DOMAIN seq : seq[i] = a

\* vector::erase() of what std::find() finds, if anything.
Erase(seq, a) == IF Contains(seq, a) THEN RemoveAt(seq, Index(seq, a)) ELSE seq

\* Mutant: the frame is not drawn again.
RemoveActorClean(t, c, a) == [t EXCEPT !.children[c] = Erase(@, a)]

\* ContainerActor::RemoveActor().
RemoveActor(t, c, a) ==
  IF ~Contains(t.children[c], a) THEN t
  ELSE set_dirty([t EXCEPT !.children[c] = Erase(@, a)])

\* ContainerActor::RaiseChild() on the list of children: NULL for the top.
RaiseChild(seq, child, above) ==
  LET others == Erase(seq, child) IN
  IF child = above \/ ~Contains(seq, child) \/ (above # None /\ ~Contains(seq, above)) THEN seq
  ELSE IF above = None THEN <<child>> \o others
  ELSE InsertAt(others, Index(others, above), child)

\* ContainerActor::LowerChild(): NULL for the bottom.
LowerChild(seq, child, below) ==
  LET others == Erase(seq, child) IN
  IF child = below \/ ~Contains(seq, child) \/ (below # None /\ ~Contains(seq, below)) THEN seq
  ELSE IF below = None THEN Append(others, child)
  ELSE InsertAt(others, Index(others, below) + 1, child)

\* Actor::Raise(), Lower(), RaiseToTop(), LowerToBottom(): an actor without a parent
\* would fail the CHECK.
Raise(t, a, other) ==
  set_dirty([t EXCEPT !.children[t.actor[a].parent] = RaiseChild(@, a, other)])

Lower(t, a, other) ==
  set_dirty([t EXCEPT !.children[t.actor[a].parent] = LowerChild(@, a, other)])

SetVisibility(t, a, shown) == set_dirty([t EXCEPT !.actor[a].visible = shown])

-----------------------------------------------------------------------------
(* Animations. *)

\* AnimateFloat() and AnimateInt(): at once, or from the value of now on.
SetOpacity(t, a, value, duration) ==
  IF duration = 0 THEN set_dirty([t EXCEPT !.actor[a].opacity = value])
  ELSE [t EXCEPT !.actor[a].animations =
          Append(@, [start |-> t.actor[a].opacity, end |-> value, time |-> t.now + duration])]

\* FloatAnimation::Eval(), IntAnimation::Eval(): halfway there is a value in between.
Eval(actor, animation, now) ==
  [actor EXCEPT !.opacity =
     IF now >= animation.time THEN animation.end ELSE (animation.start + animation.end) \div 2]

\* Actor::Update(): every animation in the order they were started; those that are
\* done are removed.
UpdateActor(actor, now) ==
  LET evaluated == FoldLeft(LAMBDA b, animation : Eval(b, animation, now), actor, actor.animations)
  IN  [evaluated EXCEPT !.animations = SelectSeq(@, LAMBDA n : now < n.time)]

\* What is under the stage, ContainerActor::Update()'s order left out.
InTree(t) ==
  {a \in TidyActors : \/ Contains(t.children[Stage], a)
                      \/ \E g \in Groups : Contains(t.children[Stage], g) /\ Contains(t.children[g], a)}

UpdateTree(t) ==
  [t EXCEPT !.actor = [a \in TidyActors |-> IF a \in InTree(t) THEN UpdateActor(@[a], t.now) ELSE @[a]],
            !.dirty = @ \/ \E a \in InTree(t) : t.actor[a].animations # <<>>]

-----------------------------------------------------------------------------
(* Textures and their windows. *)

\* StartMonitoringWindowForChanges() and StopMonitoringWindowForChanges().
StartMonitoring(t, a) == [t EXCEPT !.texture = a]

StopMonitoring(t) == [t EXCEPT !.texture = None]

\* DestroyPixmap(): OpenGlPixmapData::~OpenGlPixmapData() ends the damage reports.
DestroyPixmap(t, a) ==
  [t EXCEPT !.actor[a].pixmap = None,
            !.xwin.damaged = IF t.actor[a].pixmap = None THEN @ ELSE FALSE,
            !.refreshing = IF @ = a THEN None ELSE @]

\* Mutant: the window is forgotten and still monitored.
ResetUnmonitored(t, a) == set_dirty(DestroyPixmap([t EXCEPT !.actor[a].window = FALSE], a))

\* TexturePixmapActor::Reset().
Reset(t, a) ==
  LET u == IF t.actor[a].window THEN StopMonitoring(t) ELSE t
  IN  set_dirty(DestroyPixmap([u EXCEPT !.actor[a].window = FALSE], a))

\* TexturePixmapActor::SetTexturePixmapWindow().
SetTexturePixmapWindow(t, a) ==
  set_dirty(StartMonitoring([Reset(t, a) EXCEPT !.actor[a].window = TRUE], a))

\* OpenGlPixmapData::BindToPixmap(): a new pixmap and its damage reports; without a
\* window, or if the server gives no pixmap, nothing is drawn.
BindToPixmap(t, a) ==
  IF ~t.actor[a].window \/ ~t.xwin.alive THEN t
  ELSE set_dirty([t EXCEPT !.actor[a].pixmap = t.xwin.content, !.xwin.damaged = FALSE])

\* Actor::~Actor(), TexturePixmapActor::~TexturePixmapActor().  The owners destroy the
\* children of a group before the group.
DestroyActor(t, a) ==
  LET u == IF a \in Textures THEN Reset(t, a) ELSE t
      v == IF u.actor[a].parent = None THEN u ELSE RemoveActor(u, u.actor[a].parent, a)
  IN  [v EXCEPT !.actor[a].live = FALSE]

-----------------------------------------------------------------------------
(* Drawing. *)

IsVisible(t, a) == t.actor[a].visible /\ t.actor[a].opacity > 0

\* LayerVisitor: the flags of the coming frame, from the pixmaps bound in earlier ones.
Layered(t) ==
  [t EXCEPT !.actor = [a \in TidyActors |->
     IF a \notin InTree(t) THEN @[a]
     ELSE [@[a] EXCEPT !.isOpaque = /\ t.actor[a].opacity = 2
                                    /\ t.actor[a].pixmap = None \/ ~t.xwin.alpha]]]

\* OpenGlDrawVisitor::VisitTexturePixmap(): an actor whose pixmap cannot be bound is
\* skipped.
Drawable(t, a) == a \in Quads \/ t.actor[a].pixmap # None \/ (t.actor[a].window /\ t.xwin.alive)

DrawQuads(t, seq) == SelectSeq(seq, LAMBDA a : Drawable(t, a))

\* VisitContainer() of the first pass: visible and opaque children, front to back.
OpaqueChildren(t, seq) == SelectSeq(seq, LAMBDA a : IsVisible(t, a) /\ t.actor[a].isOpaque)

\* The first pass.
OpaquePass(t) ==
  LET visit(a) == IF a \in Groups THEN DrawQuads(t, OpaqueChildren(t, t.children[a]))
                  ELSE DrawQuads(t, <<a>>)
      visible == OpaqueChildren(t, t.children[Stage])
  IN  FlattenSeq([i \in DOMAIN visible |-> visit(visible[i])])

\* Mutant: what an opaque parent holds is not looked at.
TransparentChildrenOnly(t, seq, ancestorOpaque) ==
  SelectSeq(Reverse(seq), LAMBDA a : IsVisible(t, a) /\ (~ancestorOpaque \/ ~t.actor[a].isOpaque))

\* VisitContainer() of the second pass: back to front, what is translucent, what has a
\* translucent ancestor, and what has children.
TransparentChildren(t, seq, ancestorOpaque) ==
  SelectSeq(Reverse(seq), LAMBDA a :
    /\ IsVisible(t, a)
    /\ ~ancestorOpaque \/ ~t.actor[a].isOpaque \/ (a \in Groups /\ t.children[a] # <<>>))

\* The second pass.
TransparentPass(t) ==
  LET visit(a) == IF a \in Groups
                  THEN DrawQuads(t, TransparentChildren(t, t.children[a], t.actor[a].opacity = 2))
                  ELSE DrawQuads(t, <<a>>)
      visible == TransparentChildren(t, t.children[Stage], TRUE)
  IN  FlattenSeq([i \in DOMAIN visible |-> visit(visible[i])])

\* OpenGlDrawVisitor::VisitStage(): the passes, which bind pixmaps as they go.
VisitStage(t) ==
  LET layered == Layered(t)
      passes == <<OpaquePass(layered), TransparentPass(layered)>>
      drawn == Range(passes[1]) \cup Range(passes[2])
      unbound == {a \in drawn \cap Textures : t.actor[a].pixmap = None}
      bound == FoldLeft(BindToPixmap, layered, SetToSeq(unbound))
  IN  [bound EXCEPT !.passes = passes]

\* What the screen should show: every actor that is visible with all of its ancestors.
Shown(t) == {a \in InTree(t) \cap TidyLeaves :
               /\ IsVisible(t, a) /\ (a \in Quads \/ t.actor[a].pixmap # None)
               /\ t.actor[a].parent # Stage => IsVisible(t, t.actor[a].parent)}

Picture(t) ==
  {[actor |-> a, at |-> Index(t.children[t.actor[a].parent], a),
    opacity |-> t.actor[a].opacity, pixmap |-> t.actor[a].pixmap] : a \in Shown(t)}

\* TidyInterface::Draw(): dirty_ is reset after the visit, whatever that marked.
DrawFrame(t, now) ==
  LET u == UpdateTree([t EXCEPT !.now = now])
      v == VisitStage(u)
  IN  IF u.dirty THEN [v EXCEPT !.frame = Picture(v), !.dirty = FALSE] ELSE u

\* A group with a quad, as a Shadow makes, above a window's texture.
TidyInit ==
  \E alpha \in BOOLEAN, g \in Groups, q \in Quads, a \in Textures :
    tidy = AddActor(AddActor(AddActor(NewTidy(alpha), Stage, a), Stage, g), g, q)

-----------------------------------------------------------------------------
(* Calls of the window manager, events and the timer. *)

Step(t) == tidy.steps < MaxTidySteps /\ tidy' = [t EXCEPT !.steps = @ + 1]

CallOnActor(a) ==
  /\ Live(tidy, a)
  /\ \/ /\ tidy.actor[a].parent = None
        /\ \E c \in {Stage} \cup (IF a \in Groups THEN {} ELSE {g \in Groups : Live(tidy, g)}) :
             Step(AddActor(tidy, c, a))
     \/ /\ tidy.actor[a].parent # None
        /\ \E b \in {None} \cup {c \in TidyActors : Live(tidy, c)} :
             Step(Raise(tidy, a, b)) \/ Step(Lower(tidy, a, b))
     \/ \E shown \in BOOLEAN : Step(SetVisibility(tidy, a, shown))
     \/ \E v \in Opacities, d \in Durations : Step(SetOpacity(tidy, a, v, d))
     \/ /\ a \in Textures /\ tidy.texture \in {None, a} /\ tidy.xwin.alive
        /\ Step(SetTexturePixmapWindow(tidy, a))
     \/ /\ a \in Groups => tidy.children[a] = <<>>
        /\ Step(DestroyActor(tidy, a))

\* HandleWindowConfigured(), HandleWindowDestroyed(), and HandleWindowDamaged(), which
\* RefreshPixmap() makes in two requests.
HandleWindowEvent ==
  /\ tidy.events # <<>> /\ tidy.refreshing = None
  /\ LET a == tidy.texture
         t == [tidy EXCEPT !.events = Tail(@)]
     IN tidy' = CASE a = None -> t
                  [] a # None /\ Head(tidy.events) = "configured" -> set_dirty(DestroyPixmap(t, a))
                  [] a # None /\ Head(tidy.events) = "destroyed" -> Reset(t, a)
                  [] a # None /\ Head(tidy.events) = "damaged" ->
                       IF t.actor[a].pixmap = None THEN set_dirty(t)
                       ELSE [t EXCEPT !.actor[a].pixmap = t.xwin.content, !.refreshing = a]

\* OpenGlPixmapData::Refresh() subtracts the damage after it has bound the image.
RefreshEnds ==
  /\ tidy.refreshing # None
  /\ tidy' = set_dirty([tidy EXCEPT !.refreshing = None, !.xwin.damaged = FALSE])

\* The client draws; damage is reported once until it is subtracted.
ClientDraws ==
  /\ tidy.xwin.alive
  /\ Step([tidy EXCEPT !.xwin.content = @ + 1,
             !.raced = @ \/ tidy.refreshing # None,
             !.xwin.damaged = @ \/ (tidy.texture # None /\ tidy.actor[tidy.texture].pixmap # None),
             !.events = IF \/ tidy.texture = None \/ tidy.actor[tidy.texture].pixmap = None
                           \/ tidy.xwin.damaged THEN @ ELSE Append(@, "damaged")])

\* The client resizes its window, which gets a new pixmap, or destroys it.
ClientConfigures ==
  /\ tidy.xwin.alive
  /\ Step([tidy EXCEPT !.xwin.content = @ + 1,
                       !.events = IF tidy.texture = None THEN @ ELSE Append(@, "configured")])

ClientDestroys ==
  /\ tidy.xwin.alive
  /\ Step([tidy EXCEPT !.xwin.alive = FALSE,
                       !.events = IF tidy.texture = None THEN @ ELSE Append(@, "destroyed")])

\* DrawInterface(), every 20 ms.
Draw == tidy.refreshing = None /\ Step(DrawFrame(tidy, tidy.now + 1))

TidyNext ==
  \/ tidy.refreshing = None /\ \E a \in TidyActors : CallOnActor(a)
  \/ HandleWindowEvent \/ RefreshEnds \/ ClientDraws \/ ClientConfigures \/ ClientDestroys \/ Draw

-----------------------------------------------------------------------------
\* While dirty_ is not set the screen shows what the tree holds now.
CleanIsDrawn ==
  ~tidy.dirty /\ tidy.refreshing = None => tidy.frame = Picture(tidy)

\* How far down an actor is: the place of its group on the stage, and that in the group.
Below(t, a, b) ==
  LET group(x) == IF t.actor[x].parent = Stage THEN x ELSE t.actor[x].parent
      at(x) == Index(t.children[Stage], group(x))
      within(x) == Index(t.children[t.actor[x].parent], x)
  IN  at(a) > at(b) \/ (group(a) = group(b) /\ within(a) > within(b))

\* The two passes of a frame draw every actor that is visible once, translucent or not,
\* in a translucent group or not, and of those that are blended the lower ones first.
DrawnOnceInOrder ==
  tidy.passes # <<>> =>
    LET blended == tidy.passes[2] IN
    /\ IsInjective(tidy.passes[1] \o blended)
    /\ ~tidy.dirty =>
         /\ {r.actor : r \in tidy.frame} = Range(tidy.passes[1] \o blended)
         /\ \A i, j \in DOMAIN blended : i < j => Below(tidy, blended[i], blended[j])

\* The window manager's events reach the texture that shows the window, and a texture
\* whose events have been handled shows what the client drew, unless the client drew
\* between the two requests of a refresh.
TexturesCurrent ==
  /\ \A a \in Textures : tidy.actor[a].window <=> tidy.texture = a
  /\ \A a \in Textures :
       tidy.actor[a].pixmap # None /\ tidy.events = <<>> /\ ~tidy.raced =>
         tidy.actor[a].pixmap = tidy.xwin.content

\* After a frame the screen shows the actors that are visible, each once and in order,
\* with the textures of their windows.
SceneIsDrawn == CleanIsDrawn /\ DrawnOnceInOrder /\ TexturesCurrent

-----------------------------------------------------------------------------
(* Stacking (window_manager/stacking_manager.cc and the stacking calls of  *)
(* window.cc and panel.cc): every window is stacked twice, as an X window, *)
(* which gets the clicks, and as an actor with a shadow, which is what the *)
(* user sees.  Reference points at the top of every layer divide both      *)
(* orders.  X requests go to another process, and do nothing if either of  *)
(* the windows is gone.                                                    *)

CONSTANTS Layers,         \* 1 is the top one; nothing but actors goes into the last
          StackedWindows, \* client windows
          MaxStackSteps   \* bound on the calls

VARIABLE stack

LayerActor(l) == <<"layer", l>>
WindowActor(w) == <<"window", w>>
ShadowGroup(w) == <<"shadow", w>>

\* The layers are numbered from the top, and None is none of the actors.
ASSUME LayersAssumption ==
  /\ IsFiniteSet(Layers) /\ Layers = 1..Cardinality(Layers)
  /\ \A l \in Layers : None # LayerActor(l)
  /\ \A w \in StackedWindows : None # WindowActor(w)

\* StackingManager::StackingManager(): from the bottom to the top.  "layer" is where a
\* window was last stacked, 0 for nowhere; "loose" are the windows that were stacked
\* relative to one that was gone, or to a loose one, and "over" those that were stacked
\* over an owner.
StackInit ==
  stack = [actors |-> [l \in Layers |-> LayerActor(l)], xids |-> [l \in Layers |-> LayerActor(l)],
           layer |-> [w \in StackedWindows |-> 0], known |-> {}, loose |-> {}, over |-> {},
           steps |-> 0]

\* XConnection::StackWindow(), in the server: right above or below the sibling.
XStackWindow(s, w, sibling, above) ==
  LET x == WindowActor(w) IN
  IF ~Contains(s.xids, x) \/ ~Contains(s.xids, sibling) THEN [s EXCEPT !.loose = @ \cup {w}]
  ELSE [s EXCEPT !.xids = IF above THEN RaiseChild(@, x, sibling) ELSE LowerChild(@, x, sibling),
                 !.loose = IF \E v \in @ \ {w} : sibling = WindowActor(v) THEN @ \cup {w} ELSE @ \ {w}]

\* The shadow in StackCompositedAbove() and StackCompositedBelow().
StackShadow(s, w, reference, above) ==
  [s EXCEPT !.actors = IF reference = None THEN LowerChild(@, ShadowGroup(w), WindowActor(w))
                       ELSE IF above THEN RaiseChild(@, ShadowGroup(w), reference)
                       ELSE LowerChild(@, ShadowGroup(w), reference)]

\* Window::StackCompositedAbove().
StackCompositedAbove(s, w, actor, reference) ==
  StackShadow([s EXCEPT !.actors = RaiseChild(@, WindowActor(w), actor)], w, reference, TRUE)

\* Window::StackCompositedBelow().
StackCompositedBelow(s, w, actor, reference) ==
  StackShadow([s EXCEPT !.actors = LowerChild(@, WindowActor(w), actor)], w, reference, TRUE)

In(s, w, l) == [s EXCEPT !.layer[w] = l, !.over = @ \ {w}]

\* Mutant: the shadow is left where it was.
AtTopWithoutShadow(s, w, l) ==
  XStackWindow(In([s EXCEPT !.actors = LowerChild(@, WindowActor(w), LayerActor(l))], w, l),
               w, LayerActor(l), FALSE)

\* StackWindowAtTopOfLayer(): the shadow goes to the bottom of the layer.
StackWindowAtTopOfLayer(s, w, l) ==
  XStackWindow(StackCompositedBelow(In(s, w, l), w, LayerActor(l), LayerActor(l + 1)),
               w, LayerActor(l), FALSE)

\* Mutant: the X window always goes above its sibling.
RelativeAlwaysAbove(s, w, sibling, above, l) ==
  LET t == In(s, w, l)
      u == IF above THEN StackCompositedAbove(t, w, WindowActor(sibling), LayerActor(l + 1))
           ELSE StackCompositedBelow(t, w, WindowActor(sibling), LayerActor(l + 1))
  IN  XStackWindow(u, w, WindowActor(sibling), TRUE)

\* StackWindowRelativeToOtherWindow().
StackWindowRelativeToOtherWindow(s, w, sibling, above, l) ==
  LET t == In(s, w, l)
      u == IF above THEN StackCompositedAbove(t, w, WindowActor(sibling), LayerActor(l + 1))
           ELSE StackCompositedBelow(t, w, WindowActor(sibling), LayerActor(l + 1))
  IN  XStackWindow(u, w, WindowActor(sibling), above)

\* ToplevelWindow::ApplyStackingForTransientWindow(): with the shadow over the owner.
StackTransient(s, w, owner) ==
  [StackCompositedAbove(XStackWindow(In(s, w, s.layer[owner]), w, WindowActor(owner), TRUE),
                        w, WindowActor(owner), None) EXCEPT !.over = @ \cup {w}]

\* Panel::StackAtTopOfLayer() of a content and a titlebar window.
StackPanelAtTopOfLayer(s, content, titlebar, l) ==
  StackWindowAtTopOfLayer(StackWindowAtTopOfLayer(s, content, l), titlebar, l)

\* Panel::StackAbovePanel().
StackAbovePanel(s, content, titlebar, sibling, l) ==
  StackWindowRelativeToOtherWindow(
    StackWindowRelativeToOtherWindow(s, titlebar, sibling, TRUE, l), content, titlebar, FALSE, l)

-----------------------------------------------------------------------------
StackStep(s) == stack.steps < MaxStackSteps /\ stack' = [s EXCEPT !.steps = @ + 1]

\* A client creates a window: on top of both orders.
WindowCreated(w) ==
  /\ w \notin stack.known
  /\ StackStep([stack EXCEPT !.known = @ \cup {w}, !.xids = <<WindowActor(w)>> \o @,
                             !.actors = <<ShadowGroup(w), WindowActor(w)>> \o @])

\* The server destroys it; the window manager hears of it later.
WindowDies(w) ==
  /\ Contains(stack.xids, WindowActor(w))
  /\ StackStep([stack EXCEPT !.xids = Erase(@, WindowActor(w))])

\* Window::~Window().
WindowForgotten(w) ==
  /\ w \in stack.known /\ ~Contains(stack.xids, WindowActor(w))
  /\ StackStep([stack EXCEPT !.known = @ \ {w}, !.layer[w] = 0, !.over = @ \ {w}, !.loose = @ \ {w},
       !.actors = Erase(Erase(@, WindowActor(w)), ShadowGroup(w))])

ManagedLayers == {l \in Layers : l + 1 \in Layers}
Stacked == {w \in stack.known : stack.layer[w] # 0}

StackNext ==
  \/ \E w \in StackedWindows : WindowCreated(w) \/ WindowDies(w) \/ WindowForgotten(w)
  \/ \E w \in stack.known :
       \/ \E l \in ManagedLayers : StackStep(StackWindowAtTopOfLayer(stack, w, l))
       \/ \E s \in Stacked \ {w}, above \in BOOLEAN :
            StackStep(StackWindowRelativeToOtherWindow(stack, w, s, above, stack.layer[s]))
       \/ \E s \in Stacked \ {w} : StackStep(StackTransient(stack, w, s))
       \/ \E v \in stack.known \ {w} :
            \/ \E l \in ManagedLayers : StackStep(StackPanelAtTopOfLayer(stack, w, v, l))
            \/ \E s \in Stacked \ {w, v} : StackStep(StackAbovePanel(stack, w, v, s, stack.layer[s]))

-----------------------------------------------------------------------------
\* One item of an order is above another: both are there.
Above(seq, a, b) == \E i, j \in DOMAIN seq : i < j /\ seq[i] = a /\ seq[j] = b

\* Clicks go to the window the user sees: nothing is stacked twice, the windows and the
\* layers are in the same order in the X server as on the stage, except for a window that
\* was stacked relative to one that was gone (and those next to it), and both orders keep a
\* window within its layer.
LayersAgree ==
  LET settled == {WindowActor(w) : w \in Stacked \ stack.loose} \cup {LayerActor(l) : l \in Layers}
      inServer == {a \in settled : Contains(stack.xids, a)}
  IN  /\ IsInjective(stack.xids) /\ IsInjective(stack.actors)
      /\ \A a, b \in inServer : Above(stack.xids, a, b) <=> Above(stack.actors, a, b)
      /\ \A w \in Stacked :
           /\ Above(stack.actors, LayerActor(stack.layer[w]), WindowActor(w))
           /\ Above(stack.actors, WindowActor(w), LayerActor(stack.layer[w] + 1))

\* "Its shadow will be stacked at the bottom of the layer so as to not appear above the
\* windows' siblings": no window's shadow is above its own window or, unless it was put
\* over its owner, above another window of its layer.
ShadowsBelow ==
  \A w \in Stacked :
    /\ Above(stack.actors, ShadowGroup(w), LayerActor(stack.layer[w] + 1))
    /\ \A v \in Stacked :
         v = w \/ (stack.layer[v] = stack.layer[w] /\ w \notin stack.over) =>
           Above(stack.actors, WindowActor(v), ShadowGroup(w))

\* X windows and actors, shadows among them, are stacked in the order of the layers.
StackedInLayers == LayersAgree /\ ShadowsBelow
=============================================================================
