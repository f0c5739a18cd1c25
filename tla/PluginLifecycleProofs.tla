------------------------ MODULE PluginLifecycleProofs ------------------------
(***************************************************************************)
(* Proofs about PluginLifecycle, for any plugins, threads, calls of the    *)
(* host and of plugins, outcomes of resolution and pinned libraries: first *)
(* the lives of the plugins, then what becomes of remote commands.         *)
(***************************************************************************)
EXTENDS PluginLifecycle, SequenceTheorems, FiniteSetTheorems, TLAPS

-----------------------------------------------------------------------------
(* Stacks.                                                                 *)

Stacks == [Threads -> Seq(Frame)]

\* What becomes of the frames when thread t calls, returns, goes on in a loop, or
\* calls from a loop.
LEMMA PushStack ==
    ASSUME stack \in Stacks, NEW t \in Threads, NEW f \in Frame, Push(t, f)
    PROVE  /\ stack' \in Stacks
           /\ Len(stack'[t]) = Len(stack[t]) + 1
           /\ \A i \in 1 .. Len(stack[t]) : stack'[t][i] = stack[t][i]
           /\ stack'[t][Len(stack[t]) + 1] = f
           /\ \A u \in Threads \ {t} : stack'[u] = stack[u]
<1>1. stack[t] \in Seq(Frame)
      BY DEF Stacks
<1>2. stack'[t] = Append(stack[t], f) /\ \A u \in Threads \ {t} : stack'[u] = stack[u]
      BY DEF Push, Stacks
<1>3. Append(stack[t], f) \in Seq(Frame)
      BY <1>1
<1>4. stack' \in Stacks
      BY <1>3 DEF Push, Stacks
<1> QED BY <1>1, <1>2, <1>4

LEMMA ReturnStack ==
    ASSUME stack \in Stacks, NEW t \in Threads, stack[t] # <<>>, Return(t)
    PROVE  /\ stack' \in Stacks
           /\ Len(stack[t]) \in Nat \ {0}
           /\ Len(stack'[t]) = Len(stack[t]) - 1
           /\ \A i \in 1 .. Len(stack[t]) - 1 : stack'[t][i] = stack[t][i]
           /\ \A u \in Threads \ {t} : stack'[u] = stack[u]
<1>1. stack[t] \in Seq(Frame) /\ Len(stack[t]) \in Nat \ {0}
      BY DEF Stacks
<1>2. stack'[t] = Front(stack[t]) /\ \A u \in Threads \ {t} : stack'[u] = stack[u]
      BY DEF Return, Stacks
<1>3. /\ Front(stack[t]) \in Seq(Frame)
      /\ Len(Front(stack[t])) = Len(stack[t]) - 1
      /\ \A i \in 1 .. Len(stack[t]) - 1 : Front(stack[t])[i] = stack[t][i]
      BY <1>1 DEF Front
<1>4. stack' \in Stacks
      BY <1>3 DEF Return, Stacks
<1> QED BY <1>1, <1>2, <1>3, <1>4

LEMMA TopFrame ==
    ASSUME stack \in Stacks, NEW t \in Threads, stack[t] # <<>>
    PROVE  /\ Len(stack[t]) \in Nat \ {0}
           /\ Top(t) = stack[t][Len(stack[t])]
           /\ Top(t) \in Frame
BY DEF Stacks, Top, Last

LEMMA GotoStack ==
    ASSUME stack \in Stacks, NEW t \in Threads, stack[t] # <<>>,
           NEW at, NEW next \in Nat, Goto(t, at, next),
           [Top(t) EXCEPT !.at = at, !.next = next] \in Frame
    PROVE  /\ stack' \in Stacks
           /\ Len(stack'[t]) = Len(stack[t])
           /\ \A i \in 1 .. Len(stack[t]) - 1 : stack'[t][i] = stack[t][i]
           /\ stack'[t][Len(stack[t])] = [Top(t) EXCEPT !.at = at, !.next = next]
           /\ \A u \in Threads \ {t} : stack'[u] = stack[u]
<1> DEFINE s == stack[t]  g == [Top(t) EXCEPT !.at = at, !.next = next]
<1>1. s \in Seq(Frame) /\ Len(s) \in Nat \ {0}
      BY DEF Stacks
<1>2. stack'[t] = Append(Front(s), g) /\ \A u \in Threads \ {t} : stack'[u] = stack[u]
      BY DEF Goto, Stacks, Top
<1> HIDE DEF g
<1>3. /\ Front(s) \in Seq(Frame)
      /\ Len(Front(s)) = Len(s) - 1
      /\ \A i \in 1 .. Len(s) - 1 : Front(s)[i] = s[i]
      BY <1>1 DEF Front
<1>4. g \in Frame
      BY DEF g
<1>5. /\ Append(Front(s), g) \in Seq(Frame)
      /\ Len(Append(Front(s), g)) = Len(s)
      /\ \A i \in 1 .. Len(s) - 1 : Append(Front(s), g)[i] = s[i]
      /\ Append(Front(s), g)[Len(s)] = g
      BY <1>1, <1>3, <1>4
<1>6. stack' \in Stacks
      BY <1>5 DEF Goto, Stacks, Top, g
<1> QED BY <1>2, <1>5, <1>6 DEF g

LEMMA ConcatTwo ==
    ASSUME NEW S, NEW s \in Seq(S), NEW g \in S, NEW f \in S
    PROVE  s \o <<g, f>> = Append(Append(s, g), f)
<1>1. <<g, f>> = Append(<<g>>, f)
      OBVIOUS
<1>2. s \o Append(<<g>>, f) = Append(s \o <<g>>, f)
      OBVIOUS
<1>3. s \o <<g>> = Append(s, g)
      BY AppendIsConcat
<1> QED BY <1>1, <1>2, <1>3

LEMMA PushFromLoopStack ==
    ASSUME stack \in Stacks, NEW t \in Threads, stack[t] # <<>>,
           NEW f \in Frame, NEW next \in Nat, PushFromLoop(t, next, f)
    PROVE  /\ stack' \in Stacks
           /\ Len(stack'[t]) = Len(stack[t]) + 1
           /\ \A i \in 1 .. Len(stack[t]) - 1 : stack'[t][i] = stack[t][i]
           /\ stack'[t][Len(stack[t])] = [Top(t) EXCEPT !.next = next]
           /\ stack'[t][Len(stack[t]) + 1] = f
           /\ \A u \in Threads \ {t} : stack'[u] = stack[u]
<1> DEFINE s == stack[t]  g == [Top(t) EXCEPT !.next = next]
<1>1. s \in Seq(Frame) /\ Len(s) \in Nat \ {0}
      BY DEF Stacks
<1>2. stack'[t] = Front(s) \o <<g, f>> /\ \A u \in Threads \ {t} : stack'[u] = stack[u]
      BY DEF PushFromLoop, Stacks, Top
<1>4. g \in Frame
      BY TopFrame DEF Frame
<1> HIDE DEF g
<1>3. /\ Front(s) \in Seq(Frame)
      /\ Len(Front(s)) = Len(s) - 1
      /\ \A i \in 1 .. Len(s) - 1 : Front(s)[i] = s[i]
      BY <1>1 DEF Front
<1>5. stack'[t] = Append(Append(Front(s), g), f)
      BY <1>2, <1>3, <1>4, ConcatTwo
<1>6. /\ Append(Front(s), g) \in Seq(Frame)
      /\ Len(Append(Front(s), g)) = Len(s)
      /\ \A i \in 1 .. Len(s) - 1 : Append(Front(s), g)[i] = s[i]
      /\ Append(Front(s), g)[Len(s)] = g
      BY <1>1, <1>3, <1>4
<1>7. stack'[t] \in Seq(Frame)
      BY <1>5, <1>6
<1>8. stack' \in Stacks
      BY <1>7 DEF PushFromLoop, Stacks
<1>9. /\ Len(stack'[t]) = Len(s) + 1
      /\ \A i \in 1 .. Len(s) - 1 : stack'[t][i] = s[i]
      /\ stack'[t][Len(s)] = g
      /\ stack'[t][Len(s) + 1] = f
  <2> DEFINE r == Append(Front(s), g)
  <2>1. Len(Append(r, f)) = Len(r) + 1 /\ Append(r, f)[Len(r) + 1] = f
        BY <1>6
  <2>2. \A i \in 1 .. Len(r) : Append(r, f)[i] = r[i]
        BY <1>6
  <2> HIDE DEF r
  <2> QED BY <1>1, <1>5, <1>6, <2>1, <2>2 DEF r
<1> QED BY <1>2, <1>8, <1>9 DEF g

-----------------------------------------------------------------------------
(* How frames are nested, and who holds the lock.                          *)

FrameOK(f) ==
    \/ /\ f.call = "loadPlugins"
       /\ f.at \in {"enter", "resolve", "load", "initialize", "ready", "pending"}
    \/ f.call = "shutdownPlugins" /\ f.at \in {"enter", "notify", "unload"}
    \/ f.call = "dispatch" /\ f.at = "pass"
    \/ f.call = "callback" /\ f.at \in Callbacks

\* Callback f was made by the loop of frame low, which has moved on.
MadeBy(low, f) ==
    \/ /\ f.at = "initialize"
       /\ low.call = "loadPlugins" /\ low.at = "initialize" /\ low.next = f.next + 1
    \/ /\ f.at = "pluginsInitialized"
       /\ low.call = "loadPlugins" /\ low.at = "ready" /\ low.next = f.next - 1
    \/ /\ f.at = "aboutToShutdown"
       /\ low.call = "shutdownPlugins" /\ low.at = "notify" /\ low.next = f.next - 1
    \/ /\ f.at = "remoteCommand"
       /\ low.call = "dispatch" /\ low.next = f.next + 1 /\ low.command = f.command

Nested(low, f) ==
    \/ f.call = "callback" /\ MadeBy(low, f)
    \/ /\ f.call = "dispatch"
       /\ low.call = "callback" \/ (low.call = "loadPlugins" /\ low.at = "pending")
    \/ f.call \in {"loadPlugins", "shutdownPlugins"} /\ low.call = "callback"

StackOK ==
    \A t \in Threads : \A i \in 1 .. Len(stack[t]) :
        /\ FrameOK(stack[t][i])
        /\ i = 1 => stack[t][i].call # "callback"
        /\ i > 1 => Nested(stack[t][i - 1], stack[t][i])

\* The call of loadPlugins() that loads, its passes under the lock, and the
\* passes of the call of shutdownPlugins() that shuts down.
LoaderFrame(f) == f.call = "loadPlugins" /\ f.at # "enter"

LoadPass(f) == LoaderFrame(f) /\ f.at # "pending"

EndPass(f) == f.call = "shutdownPlugins" /\ f.at # "enter"

Passing(f) == LoadPass(f) \/ EndPass(f)

FlagsOK == loadFinished \/ shutdownFinished => loadStarted

FramesOK ==
    \A t \in Threads : \A i \in 1 .. Len(stack[t]) :
        /\ LoaderFrame(stack[t][i]) => loadStarted /\ ~loadFinished
        /\ Passing(stack[t][i]) => lifecycleMtx = t
        /\ LoadPass(stack[t][i]) => ~shutdownFinished
        /\ EndPass(stack[t][i]) => shutdownFinished
        /\ stack[t][i].call = "dispatch" => loadStarted

\* There is one call that loads, one frame that passes, and no dispatch while it
\* loads.
Exclusive ==
    \A t, u \in Threads : \A i \in 1 .. Len(stack[t]) : \A j \in 1 .. Len(stack[u]) :
        /\ LoaderFrame(stack[t][i]) /\ LoaderFrame(stack[u][j]) => t = u /\ i = j
        /\ Passing(stack[t][i]) /\ Passing(stack[u][j]) => t = u /\ i = j
        /\ stack[t][i].call = "dispatch" => ~LoadPass(stack[u][j])

Discipline == FlagsOK /\ FramesOK /\ Exclusive

Skeleton == stack \in Stacks /\ StackOK /\ Discipline

NoLoadPass == \A t \in Threads : \A i \in 1 .. Len(stack[t]) : ~LoadPass(stack[t][i])

NoEndPass == \A t \in Threads : \A i \in 1 .. Len(stack[t]) : ~EndPass(stack[t][i])

-----------------------------------------------------------------------------
(* What each way to change a stack does to this.                           *)

\* A call is entered, or a command is to be dispatched.
LEMMA PushSkeleton ==
    ASSUME Skeleton, NEW t \in Threads, NEW f \in Frame, Push(t, f),
           UNCHANGED <<flags, lifecycleMtx>>,
           FrameOK(f), f.call # "callback", ~LoaderFrame(f), ~EndPass(f),
           f.call = "dispatch" => loadStarted /\ NoLoadPass,
           stack[t] # <<>> => Nested(Top(t), f)
    PROVE  Skeleton'
<1> DEFINE n == Len(stack[t])
<1>1. /\ stack' \in Stacks
      /\ n \in Nat
      /\ Len(stack'[t]) = n + 1
      /\ \A i \in 1 .. n : stack'[t][i] = stack[t][i]
      /\ stack'[t][n + 1] = f
      /\ \A u \in Threads \ {t} : stack'[u] = stack[u]
      BY PushStack DEF Skeleton, Stacks
<1>2. n > 0 => Nested(stack[t][n], f)
      BY TopFrame DEF Skeleton
<1>3. /\ UNCHANGED <<loadStarted, loadFinished, shutdownFinished>>
      /\ UNCHANGED lifecycleMtx
      BY DEF flags
<1>4. \A u \in Threads : \A i \in 1 .. Len(stack'[u]) :
          \/ i \in 1 .. Len(stack[u]) /\ stack'[u][i] = stack[u][i]
          \/ u = t /\ i = n + 1 /\ stack'[u][i] = f
      BY <1>1
<1>5. StackOK'
      BY <1>1, <1>2, <1>4, SMTT(30) DEF StackOK, Skeleton
<1>6. FramesOK'
      BY <1>3, <1>4 DEF FramesOK, Skeleton, Discipline, Passing, LoadPass, LoaderFrame, EndPass
<1>7. Exclusive'
      BY <1>4 DEF Exclusive, Skeleton, Discipline, Passing, LoadPass, NoLoadPass
<1> QED BY <1>1, <1>3, <1>5, <1>6, <1>7 DEF Skeleton, Discipline, FlagsOK

\* A loop goes on, within a pass or from one pass to the next.
LEMMA GotoSkeleton ==
    ASSUME Skeleton, NEW t \in Threads, stack[t] # <<>>, Top(t).call # "callback",
           NEW at, NEW next \in Nat, Goto(t, at, next),
           [Top(t) EXCEPT !.at = at, !.next = next] \in Frame,
           FrameOK([Top(t) EXCEPT !.at = at, !.next = next]),
           LoaderFrame([Top(t) EXCEPT !.at = at, !.next = next]) => LoaderFrame(Top(t)),
           EndPass([Top(t) EXCEPT !.at = at, !.next = next]) => EndPass(Top(t)),
           LoadPass([Top(t) EXCEPT !.at = at, !.next = next]) => LoadPass(Top(t)),
           UNCHANGED flags,
           \/ UNCHANGED lifecycleMtx
           \/ Passing(Top(t)) /\ ~Passing([Top(t) EXCEPT !.at = at, !.next = next])
    PROVE  Skeleton'
<1> DEFINE n == Len(stack[t])  g == [Top(t) EXCEPT !.at = at, !.next = next]
<1>0. Top(t) = stack[t][n] /\ n \in Nat \ {0} /\ Top(t) \in Frame
      BY TopFrame DEF Skeleton
<1>1. /\ stack' \in Stacks
      /\ Len(stack'[t]) = n
      /\ \A i \in 1 .. n - 1 : stack'[t][i] = stack[t][i]
      /\ stack'[t][n] = g
      /\ \A u \in Threads \ {t} : stack'[u] = stack[u]
      BY GotoStack DEF Skeleton
<1>2. g.call = Top(t).call /\ g.command = Top(t).command
      BY <1>0 DEF Frame
<1>3. /\ FrameOK(g) /\ (LoaderFrame(g) => LoaderFrame(Top(t)))
      /\ (LoadPass(g) => LoadPass(Top(t))) /\ (EndPass(g) => EndPass(Top(t)))
      /\ UNCHANGED lifecycleMtx \/ (Passing(Top(t)) /\ ~Passing(g))
      /\ UNCHANGED <<loadStarted, loadFinished, shutdownFinished>>
      BY DEF flags
<1> HIDE DEF g
<1>4. \A u \in Threads : \A i \in 1 .. Len(stack'[u]) :
          /\ i \in 1 .. Len(stack[u])
          /\ \/ stack'[u][i] = stack[u][i] /\ ~(u = t /\ i = n)
             \/ u = t /\ i = n /\ stack'[u][i] = g
      BY <1>0, <1>1
<1>5. StackOK'
  <2> SUFFICES ASSUME NEW u \in Threads, NEW i \in 1 .. Len(stack'[u])
               PROVE  /\ FrameOK(stack'[u][i])
                      /\ i = 1 => stack'[u][i].call # "callback"
                      /\ i > 1 => Nested(stack'[u][i - 1], stack'[u][i])
      BY DEF StackOK
  <2>1. CASE u # t
        BY <1>1, <2>1 DEF StackOK, Skeleton
  <2>2. CASE u = t /\ i < n
        BY <1>0, <1>1, <2>2 DEF StackOK, Skeleton
  <2>3. CASE u = t /\ i = n
    <3>1. i > 1 => stack'[u][i - 1] = stack[t][n - 1] /\ Nested(stack[t][n - 1], stack[t][n])
          BY <1>0, <1>1, <2>3, SMTT(30) DEF StackOK, Skeleton
    <3> QED BY <1>0, <1>1, <1>2, <1>3, <2>3, <3>1 DEF Nested
  <2> QED BY <1>0, <1>1, <2>1, <2>2, <2>3
<1>6. FramesOK'
      BY <1>0, <1>2, <1>3, <1>4, SMTT(30) DEF FramesOK, Exclusive, Skeleton, Discipline, Passing
<1>7. Exclusive'
      BY <1>0, <1>2, <1>3, <1>4, SMTT(30) DEF Exclusive, Skeleton, Discipline, Passing
<1> QED BY <1>1, <1>3, <1>5, <1>6, <1>7 DEF Skeleton, Discipline, FlagsOK

\* A loop makes a callback.
LEMMA PushFromLoopSkeleton ==
    ASSUME Skeleton, NEW t \in Threads, stack[t] # <<>>, Top(t).call # "callback",
           NEW next \in Nat, NEW f \in Frame, PushFromLoop(t, next, f),
           f.call = "callback", f.at \in Callbacks,
           MadeBy([Top(t) EXCEPT !.next = next], f),
           UNCHANGED <<flags, lifecycleMtx>>
    PROVE  Skeleton'
<1> DEFINE n == Len(stack[t])  g == [Top(t) EXCEPT !.next = next]
<1>0. Top(t) = stack[t][n] /\ n \in Nat \ {0} /\ Top(t) \in Frame
      BY TopFrame DEF Skeleton
<1>1. /\ stack' \in Stacks
      /\ Len(stack'[t]) = n + 1
      /\ \A i \in 1 .. n - 1 : stack'[t][i] = stack[t][i]
      /\ stack'[t][n] = g
      /\ stack'[t][n + 1] = f
      /\ \A u \in Threads \ {t} : stack'[u] = stack[u]
      BY PushFromLoopStack DEF Skeleton
<1>2. g.call = Top(t).call /\ g.at = Top(t).at /\ g.command = Top(t).command
      BY <1>0 DEF Frame
<1>3. /\ MadeBy(g, f)
      /\ UNCHANGED lifecycleMtx
      /\ UNCHANGED <<loadStarted, loadFinished, shutdownFinished>>
      BY DEF flags
<1> HIDE DEF g
<1>4. \A u \in Threads : \A i \in 1 .. Len(stack'[u]) :
          \/ /\ i \in 1 .. Len(stack[u])
             /\ stack'[u][i].call = stack[u][i].call /\ stack'[u][i].at = stack[u][i].at
          \/ u = t /\ i = n + 1 /\ stack'[u][i] = f
      BY <1>0, <1>1, <1>2
<1>5. StackOK'
  <2> SUFFICES ASSUME NEW u \in Threads, NEW i \in 1 .. Len(stack'[u])
               PROVE  /\ FrameOK(stack'[u][i])
                      /\ i = 1 => stack'[u][i].call # "callback"
                      /\ i > 1 => Nested(stack'[u][i - 1], stack'[u][i])
      BY DEF StackOK
  <2>1. CASE u # t
        BY <1>1, <2>1 DEF StackOK, Skeleton
  <2>2. CASE u = t /\ i < n
    <3>1. stack'[u][i] = stack[t][i] /\ (i > 1 => stack'[u][i - 1] = stack[t][i - 1])
          BY <1>0, <1>1, <2>2
    <3>2. i \in 1 .. Len(stack[t])
          BY <1>0, <1>1, <2>2
    <3> QED BY <3>1, <3>2 DEF StackOK, Skeleton
  <2>3. CASE u = t /\ i = n
    <3>1. i > 1 => stack'[u][i - 1] = stack[t][n - 1] /\ Nested(stack[t][n - 1], stack[t][n])
          BY <1>0, <1>1, <2>3 DEF StackOK, Skeleton
    <3>2. FrameOK(stack[t][n])
          BY <1>0 DEF StackOK, Skeleton
    <3> QED BY <1>0, <1>1, <1>2, <1>3, <2>3, <3>1, <3>2 DEF Nested, FrameOK
  <2>4. CASE u = t /\ i = n + 1
        BY <1>0, <1>1, <1>3, <2>4 DEF Nested, FrameOK
  <2> QED BY <1>0, <1>1, <2>1, <2>2, <2>3, <2>4
<1>6. \A u \in Threads : \A i \in 1 .. Len(stack'[u]) :
          \/ /\ i \in 1 .. Len(stack[u])
             /\ stack'[u][i].call = stack[u][i].call
             /\ LoaderFrame(stack'[u][i]) <=> LoaderFrame(stack[u][i])
             /\ LoadPass(stack'[u][i]) <=> LoadPass(stack[u][i])
             /\ EndPass(stack'[u][i]) <=> EndPass(stack[u][i])
          \/ /\ ~LoaderFrame(stack'[u][i]) /\ ~LoadPass(stack'[u][i])
             /\ ~EndPass(stack'[u][i]) /\ stack'[u][i].call = "callback"
      BY <1>4 DEF LoadPass, LoaderFrame, EndPass
<1>7. FramesOK' /\ Exclusive'
  <2>1. FramesOK'
        BY <1>3, <1>6 DEF FramesOK, Skeleton, Discipline, Passing
  <2>2. ASSUME NEW u \in Threads, NEW v \in Threads,
               NEW i \in 1 .. Len(stack'[u]), NEW j \in 1 .. Len(stack'[v])
        PROVE  /\ LoaderFrame(stack'[u][i]) /\ LoaderFrame(stack'[v][j]) => u = v /\ i = j
               /\ Passing(stack'[u][i]) /\ Passing(stack'[v][j]) => u = v /\ i = j
               /\ stack'[u][i].call = "dispatch" => ~LoadPass(stack'[v][j])
    <3>1. CASE i \in 1 .. Len(stack[u]) /\ j \in 1 .. Len(stack[v])
          BY <1>6, <3>1, SMTT(30) DEF Exclusive, Skeleton, Discipline, Passing
    <3>2. CASE i \notin 1 .. Len(stack[u]) \/ j \notin 1 .. Len(stack[v])
          BY <1>6, <3>2 DEF Passing
    <3> QED BY <3>1, <3>2
  <2> QED BY <2>1, <2>2 DEF Exclusive
<1> QED BY <1>1, <1>3, <1>5, <1>7 DEF Skeleton, Discipline, FlagsOK

\* A call or a callback returns.
LEMMA ReturnSkeleton ==
    ASSUME Skeleton, NEW t \in Threads, stack[t] # <<>>, Return(t),
           UNCHANGED <<loadStarted, shutdownFinished>>,
           UNCHANGED loadFinished \/ (LoaderFrame(Top(t)) /\ ~Passing(Top(t))),
           UNCHANGED lifecycleMtx \/ Passing(Top(t))
    PROVE  Skeleton'
<1> DEFINE n == Len(stack[t])
<1>0. Top(t) = stack[t][n] /\ n \in Nat \ {0} /\ Top(t) \in Frame
      BY TopFrame DEF Skeleton
<1>1. /\ stack' \in Stacks
      /\ Len(stack'[t]) = n - 1
      /\ \A i \in 1 .. n - 1 : stack'[t][i] = stack[t][i]
      /\ \A u \in Threads \ {t} : stack'[u] = stack[u]
      BY ReturnStack DEF Skeleton
<1>4. \A u \in Threads : \A i \in 1 .. Len(stack'[u]) :
          /\ i \in 1 .. Len(stack[u]) /\ stack'[u][i] = stack[u][i]
          /\ ~(u = t /\ i = n)
      BY <1>0, <1>1
<1>5. StackOK'
      BY <1>0, <1>1, <1>4 DEF StackOK, Skeleton
<1>6. FramesOK'
      BY <1>0, <1>4 DEF FramesOK, Exclusive, Skeleton, Discipline
<1>7. Exclusive'
      BY <1>0, <1>4 DEF Exclusive, Skeleton, Discipline
<1>8. FlagsOK'
      BY <1>0 DEF FlagsOK, FramesOK, Skeleton, Discipline
<1> QED BY <1>1, <1>5, <1>6, <1>7, <1>8 DEF Skeleton, Discipline

-----------------------------------------------------------------------------
(* The actions keep the nesting and the lock.                              *)

LEMMA TopOK ==
    ASSUME Skeleton, NEW t \in Threads, stack[t] # <<>>
    PROVE  /\ Top(t) \in Frame /\ FrameOK(Top(t))
           /\ LoaderFrame(Top(t)) => loadStarted /\ ~loadFinished
           /\ Passing(Top(t)) => lifecycleMtx = t
           /\ LoadPass(Top(t)) => ~shutdownFinished
           /\ EndPass(Top(t)) => shutdownFinished
           /\ Top(t).call = "dispatch" => loadStarted /\ NoLoadPass
<1>1. Len(stack[t]) \in 1 .. Len(stack[t]) /\ Top(t) = stack[t][Len(stack[t])] /\ Top(t) \in Frame
      BY TopFrame DEF Skeleton
<1>2. FrameOK(Top(t))
      BY <1>1 DEF Skeleton, StackOK
<1>3. Top(t).call = "dispatch" => NoLoadPass
      BY <1>1 DEF Skeleton, Discipline, Exclusive, NoLoadPass
<1> QED BY <1>1, <1>2, <1>3 DEF Skeleton, Discipline, FramesOK

\* If the lock is free no pass is under way.
LEMMA FreeLock ==
    ASSUME Skeleton, lifecycleMtx = NoThread
    PROVE  NoLoadPass /\ NoEndPass
BY ThreadAssumption DEF Skeleton, Discipline, FramesOK, Passing, NoLoadPass, NoEndPass

LEMMA EnvironmentSkeleton ==
    ASSUME TypeOK, Skeleton, NEW t \in Threads, Environment(t)
    PROVE  Skeleton'
<1>1. CASE Call(t)
  <2>1. PICK api \in {"loadPlugins", "shutdownPlugins"} :
            /\ MayCall(t, api)
            /\ Push(t, [call |-> api, at |-> "enter", next |-> 0, command |-> NoCommand])
        BY <1>1 DEF Call
  <2> DEFINE f == [call |-> api, at |-> "enter", next |-> 0, command |-> NoCommand]
  <2>2. f \in Frame /\ FrameOK(f) /\ ~LoaderFrame(f) /\ ~EndPass(f)
        BY DEF Frame, FrameOK, LoaderFrame, EndPass, NoCommand
  <2>3. stack[t] # <<>> => Nested(Top(t), f)
        BY <2>1 DEF MayCall, Nested
  <2>4. UNCHANGED <<flags, lifecycleMtx>>
        BY <1>1 DEF Call
  <2>5. f.call # "callback" /\ f.call # "dispatch"
        OBVIOUS
  <2> HIDE DEF f
  <2> QED BY <2>1, <2>2, <2>3, <2>4, <2>5, PushSkeleton DEF f
<1>2. CASE KeepCommand(t)
      BY <1>2 DEF KeepCommand, Skeleton, Stacks, StackOK, Discipline, FlagsOK, FramesOK,
                  Exclusive, flags
<1>3. CASE PassCommand(t)
  <2> DEFINE f == DispatchFrame(passed + 1)
  <2>1. f \in Frame /\ FrameOK(f) /\ ~LoaderFrame(f) /\ ~EndPass(f) /\ f.call = "dispatch"
        BY DEF DispatchFrame, Frame, FrameOK, LoaderFrame, EndPass, TypeOK
  <2>2. stack[t] # <<>> => Nested(Top(t), f)
        BY <1>3, <2>1 DEF PassCommand, MayCall, Nested
  <2>3. loadStarted /\ NoLoadPass
        BY <1>3 DEF PassCommand, Keeping, Skeleton, Discipline, FlagsOK, FramesOK,
                    NoLoadPass, LoadPass
  <2>4. Push(t, f) /\ UNCHANGED <<flags, lifecycleMtx>>
        BY <1>3 DEF PassCommand
  <2> HIDE DEF f
  <2> QED BY <2>1, <2>2, <2>3, <2>4, PushSkeleton
<1> QED BY <1>1, <1>2, <1>3 DEF Environment

\* A loop of a pass goes on within the pass or with the next one of its call.
LEMMA PassGoesOn ==
    ASSUME Skeleton, NEW t \in Threads, stack[t] # <<>>, Passing(Top(t)),
           NEW at, NEW next \in Nat, Goto(t, at, next),
           \/ LoadPass(Top(t)) /\ at \in {"load", "initialize", "ready"}
           \/ EndPass(Top(t)) /\ at \in {"notify", "unload"},
           UNCHANGED <<flags, lifecycleMtx>>
    PROVE  Skeleton'
<1> DEFINE g == [Top(t) EXCEPT !.at = at, !.next = next]
<1>1. Top(t) \in Frame /\ Top(t).call # "callback"
      BY TopOK DEF Passing, LoadPass, LoaderFrame, EndPass
<1>2. g \in Frame /\ g.call = Top(t).call /\ g.at = at
      BY <1>1 DEF Frame, Callbacks
<1>3. FrameOK(g) /\ (LoaderFrame(g) => LoaderFrame(Top(t))) /\ (LoadPass(g) => LoadPass(Top(t)))
      /\ (EndPass(g) => EndPass(Top(t)))
      BY <1>2 DEF FrameOK, LoadPass, LoaderFrame, EndPass
<1> HIDE DEF g
<1>4. UNCHANGED flags /\ UNCHANGED lifecycleMtx
      OBVIOUS
<1> QED BY <1>1, <1>2, <1>3, <1>4, GotoSkeleton DEF g

\* A loop of a pass makes a callback.
LEMMA PassCallsBack ==
    ASSUME TypeOK, Skeleton, NEW t \in Threads, stack[t] # <<>>, InOrder(t),
           NEW next \in Nat, NEW at, CallBack(t, at, next),
           \/ At(t, "loadPlugins", "initialize") /\ at = "initialize" /\ next = Top(t).next + 1
           \/ At(t, "loadPlugins", "ready") /\ at = "pluginsInitialized" /\ next = Top(t).next - 1
           \/ At(t, "shutdownPlugins", "notify") /\ at = "aboutToShutdown" /\ next = Top(t).next - 1,
           UNCHANGED <<flags, lifecycleMtx>>
    PROVE  Skeleton'
<1> DEFINE f == [call |-> "callback", at |-> at, next |-> Called(t, next), command |-> Top(t).command]
           g == [Top(t) EXCEPT !.next = next]
<1>1. Top(t) \in Frame /\ Top(t).call # "callback"
      BY TopOK DEF At
<1>2. f \in Frame /\ f.call = "callback" /\ f.at \in Callbacks
      BY <1>1 DEF Frame, Called, Callbacks
<1>3. g.call = Top(t).call /\ g.at = Top(t).at /\ g.next = next
      BY <1>1 DEF Frame
<1>4. f.at = at /\ f.next = Top(t).next /\ Top(t).next \in Nat
      BY <1>1 DEF Called, Frame
<1>5. MadeBy(g, f)
      BY <1>3, <1>4 DEF MadeBy, At
<1>6. PushFromLoop(t, next, f)
      BY DEF CallBack
<1> HIDE DEF f
<1> QED BY <1>1, <1>2, <1>5, <1>6, PushFromLoopSkeleton

\* A call that has found nothing in its way takes the lock and begins its passes.
LEMMA StartSkeleton ==
    ASSUME Skeleton, NEW t \in Threads, stack[t] # <<>>, Top(t).at = "enter",
           NEW at, NEW next \in Nat, Goto(t, at, next), Acquire(t),
           UNCHANGED loadFinished, FlagsOK',
           \/ /\ Top(t).call = "loadPlugins" /\ at = "resolve"
              /\ ~loadStarted /\ loadStarted' /\ UNCHANGED shutdownFinished
           \/ /\ Top(t).call = "shutdownPlugins" /\ at = "notify"
              /\ shutdownFinished' /\ UNCHANGED loadStarted
    PROVE  Skeleton'
<1> DEFINE n == Len(stack[t])  g == [Top(t) EXCEPT !.at = at, !.next = next]
<1>0. Top(t) = stack[t][n] /\ n \in Nat \ {0} /\ Top(t) \in Frame
      BY TopFrame DEF Skeleton
<1>2. g \in Frame /\ g.call = Top(t).call /\ g.at = at
      BY <1>0 DEF Frame
<1>1. /\ stack' \in Stacks
      /\ Len(stack'[t]) = n
      /\ \A i \in 1 .. n - 1 : stack'[t][i] = stack[t][i]
      /\ stack'[t][n] = g
      /\ \A u \in Threads \ {t} : stack'[u] = stack[u]
      BY <1>2, GotoStack DEF Skeleton
<1> HIDE DEF g
<1>3. NoLoadPass /\ NoEndPass
      BY FreeLock DEF Acquire
<1>4. \A u \in Threads : \A i \in 1 .. Len(stack'[u]) :
          /\ i \in 1 .. Len(stack[u])
          /\ \/ stack'[u][i] = stack[u][i] /\ ~(u = t /\ i = n)
             \/ u = t /\ i = n /\ stack'[u][i] = g
      BY <1>0, <1>1
<1>5. StackOK'
  <2> SUFFICES ASSUME NEW u \in Threads, NEW i \in 1 .. Len(stack'[u])
               PROVE  /\ FrameOK(stack'[u][i])
                      /\ i = 1 => stack'[u][i].call # "callback"
                      /\ i > 1 => Nested(stack'[u][i - 1], stack'[u][i])
      BY DEF StackOK
  <2>1. CASE u # t
        BY <1>1, <2>1 DEF StackOK, Skeleton
  <2>2. CASE u = t /\ i < n
    <3>1. stack'[u][i] = stack[t][i] /\ (i > 1 => stack'[u][i - 1] = stack[t][i - 1])
          BY <1>0, <1>1, <2>2
    <3>2. i \in 1 .. Len(stack[t])
          BY <1>0, <1>1, <2>2
    <3> QED BY <3>1, <3>2 DEF StackOK, Skeleton
  <2>3. CASE u = t /\ i = n
    <3>1. i > 1 => stack'[u][i - 1] = stack[t][n - 1] /\ Nested(stack[t][n - 1], stack[t][n])
          BY <1>0, <1>1, <2>3 DEF StackOK, Skeleton
    <3>2. FrameOK(g)
          BY <1>2 DEF FrameOK
    <3> QED BY <1>0, <1>1, <1>2, <2>3, <3>1, <3>2 DEF Nested
  <2> QED BY <1>0, <1>1, <2>1, <2>2, <2>3
<1>6. LoaderFrame(g) => ~loadStarted /\ loadStarted'
      BY <1>2 DEF LoaderFrame
<1>7. FramesOK'
  <2> SUFFICES ASSUME NEW u \in Threads, NEW i \in 1 .. Len(stack'[u])
               PROVE  /\ LoaderFrame(stack'[u][i]) => loadStarted' /\ ~loadFinished'
                      /\ Passing(stack'[u][i]) => lifecycleMtx' = u
                      /\ LoadPass(stack'[u][i]) => ~shutdownFinished'
                      /\ EndPass(stack'[u][i]) => shutdownFinished'
                      /\ stack'[u][i].call = "dispatch" => loadStarted'
      BY DEF FramesOK
  <2>1. CASE u = t /\ i = n
        BY <1>0, <1>1, <1>2, <2>1 DEF Skeleton, Discipline, FlagsOK, LoaderFrame, LoadPass,
                                      EndPass, Passing, Acquire
  <2>2. CASE ~(u = t /\ i = n)
        BY <1>3, <1>4, <2>2 DEF Skeleton, Discipline, FramesOK, NoLoadPass, NoEndPass, Passing
  <2> QED BY <2>1, <2>2
<1>8. Exclusive'
  <2> SUFFICES ASSUME NEW u \in Threads, NEW v \in Threads,
                      NEW i \in 1 .. Len(stack'[u]), NEW j \in 1 .. Len(stack'[v])
               PROVE  /\ LoaderFrame(stack'[u][i]) /\ LoaderFrame(stack'[v][j]) => u = v /\ i = j
                      /\ Passing(stack'[u][i]) /\ Passing(stack'[v][j]) => u = v /\ i = j
                      /\ stack'[u][i].call = "dispatch" => ~LoadPass(stack'[v][j])
      BY DEF Exclusive
  <2>1. CASE (u = t /\ i = n) /\ (v = t /\ j = n)
        BY <1>0, <1>1, <1>2, <2>1
  <2>2. CASE (u = t /\ i = n) /\ ~(v = t /\ j = n)
        BY <1>0, <1>2, <1>3, <1>4, <1>6, <2>2 DEF Skeleton, Discipline, FramesOK, NoLoadPass, NoEndPass, Passing
  <2>3. CASE ~(u = t /\ i = n) /\ (v = t /\ j = n)
        BY <1>0, <1>2, <1>3, <1>4, <1>6, <2>3 DEF Skeleton, Discipline, FramesOK, NoLoadPass, NoEndPass, Passing, LoadPass
  <2>4. CASE ~(u = t /\ i = n) /\ ~(v = t /\ j = n)
        BY <1>3, <1>4, <2>4 DEF Skeleton, Discipline, Exclusive, NoLoadPass, NoEndPass, Passing
  <2> QED BY <2>1, <2>2, <2>3, <2>4
<1> QED BY <1>1, <1>5, <1>7, <1>8 DEF Skeleton, Discipline

LEMMA LoadPluginsSkeleton ==
    ASSUME TypeOK, Skeleton, NEW t \in Threads, LoadPlugins(t)
    PROVE  Skeleton'
<1>0. loadOrder \in Seq(Plugins) /\ Len(loadOrder) \in Nat /\ DOMAIN loadOrder = 1 .. Len(loadOrder)
      BY DEF TypeOK
<1>1. CASE LoadAgain(t)
  <2>1. stack[t] # <<>> /\ Return(t)
        BY <1>1 DEF LoadAgain, At
  <2>2. UNCHANGED <<loadStarted, shutdownFinished, loadFinished, lifecycleMtx>>
        BY <1>1 DEF LoadAgain, flags
  <2> QED BY <2>1, <2>2, ReturnSkeleton
<1>2. CASE LoadStart(t)
  <2>1. /\ At(t, "loadPlugins", "enter") /\ Acquire(t) /\ Goto(t, "resolve", 0)
        /\ ~loadStarted /\ loadStarted' /\ UNCHANGED <<shutdownFinished, loadFinished>>
        BY <1>2 DEF LoadStart
  <2>2. FlagsOK'
        BY <2>1 DEF FlagsOK
  <2> QED BY <2>1, <2>2, StartSkeleton DEF At
<1>3. CASE Resolve(t)
  <2>1. At(t, "loadPlugins", "resolve") /\ Goto(t, "load", 1) /\ UNCHANGED <<flags, lifecycleMtx>>
        BY <1>3 DEF Resolve
  <2> QED BY <2>1, PassGoesOn DEF At, Passing, LoadPass, LoaderFrame
<1>4. CASE LoadStep(t)
  <2>1. /\ At(t, "loadPlugins", "load") /\ Goto(t, "load", Top(t).next + 1)
        /\ UNCHANGED <<flags, lifecycleMtx>>
        BY <1>4 DEF LoadStep
  <2>2. Top(t).next + 1 \in Nat
        BY <2>1, TopOK DEF At, Frame
  <2> QED BY <2>1, <2>2, PassGoesOn DEF At, Passing, LoadPass, LoaderFrame
<1>5. CASE LoadPassEnds(t)
  <2>1. /\ At(t, "loadPlugins", "load") /\ Goto(t, "initialize", 1)
        /\ UNCHANGED <<flags, lifecycleMtx>>
        BY <1>5 DEF LoadPassEnds
  <2> QED BY <2>1, PassGoesOn DEF At, Passing, LoadPass, LoaderFrame
<1>6. CASE InitializeStep(t)
  <2>1. At(t, "loadPlugins", "initialize") /\ InOrder(t) /\ UNCHANGED <<flags, lifecycleMtx>>
        BY <1>6 DEF InitializeStep
  <2>2. Top(t).next + 1 \in Nat
        BY <2>1, TopOK DEF At, Frame
  <2>3. \/ Goto(t, "initialize", Top(t).next + 1)
        \/ CallBack(t, "initialize", Top(t).next + 1)
        BY <1>6 DEF InitializeStep
  <2> QED BY <2>1, <2>2, <2>3, PassGoesOn, PassCallsBack DEF At, Passing, LoadPass, LoaderFrame
<1>7. CASE InitializePassEnds(t)
  <2>1. /\ At(t, "loadPlugins", "initialize") /\ Goto(t, "ready", Len(loadOrder))
        /\ UNCHANGED <<flags, lifecycleMtx>>
        BY <1>7 DEF InitializePassEnds
  <2> QED BY <1>0, <2>1, PassGoesOn DEF At, Passing, LoadPass, LoaderFrame
<1>8. CASE ReadyStep(t)
  <2>1. At(t, "loadPlugins", "ready") /\ InOrder(t) /\ UNCHANGED <<flags, lifecycleMtx>>
        BY <1>8 DEF ReadyStep
  <2>2. Top(t).next - 1 \in Nat
        BY <1>0, <2>1 DEF InOrder
  <2>3. \/ Goto(t, "ready", Top(t).next - 1)
        \/ CallBack(t, "pluginsInitialized", Top(t).next - 1)
        BY <1>8 DEF ReadyStep
  <2> QED BY <2>1, <2>2, <2>3, PassGoesOn, PassCallsBack DEF At, Passing, LoadPass, LoaderFrame
<1>9. CASE ReadyPassEnds(t)
  <2> DEFINE g == [Top(t) EXCEPT !.at = "pending", !.next = 0]
  <2>1. /\ At(t, "loadPlugins", "ready") /\ Goto(t, "pending", 0) /\ UNCHANGED flags
        BY <1>9 DEF ReadyPassEnds
  <2>2. Top(t) \in Frame /\ Top(t).call = "loadPlugins" /\ Top(t).at = "ready" /\ stack[t] # <<>>
        BY <2>1, TopOK DEF At
  <2>3. g \in Frame /\ g.call = "loadPlugins" /\ g.at = "pending"
        BY <2>2 DEF Frame
  <2>4. /\ FrameOK(g) /\ LoaderFrame(Top(t)) /\ ~EndPass(g) /\ ~LoadPass(g)
        /\ Passing(Top(t)) /\ ~Passing(g)
        BY <2>2, <2>3 DEF FrameOK, Passing, LoadPass, LoaderFrame, EndPass
  <2> HIDE DEF g
  <2> QED BY <2>1, <2>2, <2>3, <2>4, GotoSkeleton DEF g
<1>10. CASE TakePending(t)
  <2> DEFINE f == DispatchFrame(NextKept)
  <2>1. /\ At(t, "loadPlugins", "pending") /\ Push(t, f) /\ UNCHANGED <<flags, lifecycleMtx>>
        /\ pending # <<>>
        BY <1>10 DEF TakePending
  <2>2. NextKept \in Nat
        BY <2>1, BoundAssumption DEF NextKept, TypeOK
  <2>3. f \in Frame /\ FrameOK(f) /\ ~LoaderFrame(f) /\ ~EndPass(f) /\ f.call = "dispatch"
        BY <2>2 DEF DispatchFrame, Frame, FrameOK, LoaderFrame, EndPass
  <2>4. Nested(Top(t), f)
        BY <2>1, <2>3 DEF At, Nested
  <2>5. loadStarted /\ NoLoadPass
    <3>1. Len(stack[t]) \in 1 .. Len(stack[t]) /\ Top(t) = stack[t][Len(stack[t])]
          BY <2>1, TopFrame DEF Skeleton, At
    <3>2. LoaderFrame(Top(t)) /\ ~LoadPass(Top(t))
          BY <2>1 DEF At, LoaderFrame, LoadPass
    <3> QED BY <3>1, <3>2 DEF Skeleton, Discipline, FramesOK, Exclusive, NoLoadPass, LoadPass
  <2> HIDE DEF f
  <2> QED BY <2>1, <2>3, <2>4, <2>5, PushSkeleton
<1>11. CASE LoadReturn(t)
  <2>1. /\ At(t, "loadPlugins", "pending") /\ Return(t)
        /\ UNCHANGED <<loadStarted, shutdownFinished, lifecycleMtx>>
        BY <1>11 DEF LoadReturn
  <2>2. LoaderFrame(Top(t)) /\ ~Passing(Top(t))
        BY <2>1 DEF At, LoaderFrame, LoadPass, EndPass, Passing
  <2> QED BY <2>1, <2>2, ReturnSkeleton DEF At
<1> QED BY <1>1, <1>2, <1>3, <1>4, <1>5, <1>6, <1>7, <1>8, <1>9, <1>10, <1>11 DEF LoadPlugins

LEMMA DispatchSkeleton ==
    ASSUME TypeOK, Skeleton, NEW t \in Threads, Dispatch(t)
    PROVE  Skeleton'
<1>1. CASE DispatchStep(t)
  <2>0. /\ At(t, "dispatch", "pass") /\ UNCHANGED flags /\ UNCHANGED lifecycleMtx
        /\ Top(t) \in Frame /\ stack[t] # <<>>
        BY <1>1, TopOK DEF DispatchStep, At
  <2> DEFINE i == Top(t).next
             f == [call |-> "callback", at |-> "remoteCommand", next |-> i, command |-> Top(t).command]
             g == [Top(t) EXCEPT !.next = i + 1]
  <2>1. CASE PushFromLoop(t, i + 1, f)
    <3>1. f \in Frame /\ f.call = "callback" /\ f.at \in Callbacks /\ i + 1 \in Nat
          BY <2>0 DEF Frame, Callbacks
    <3>2. g.call = "dispatch" /\ g.next = i + 1 /\ g.command = Top(t).command
          BY <2>0 DEF Frame, At
    <3>3. MadeBy(g, f) /\ Top(t).call # "callback"
          BY <2>0, <3>2 DEF MadeBy, At
    <3> HIDE DEF f
    <3> QED BY <2>0, <2>1, <3>1, <3>3, PushFromLoopSkeleton
  <2>2. CASE Goto(t, "pass", i + 1)
    <3> DEFINE h == [Top(t) EXCEPT !.at = "pass", !.next = i + 1]
    <3>0. i \in Nat /\ i + 1 \in Nat /\ Top(t).call = "dispatch"
          BY <2>0 DEF Frame, At
    <3> HIDE DEF i, f, g
    <3>1. h \in Frame /\ h.call = "dispatch" /\ h.at = "pass" /\ i + 1 \in Nat
          BY <2>0, <3>0 DEF Frame
    <3>2. FrameOK(h) /\ ~LoaderFrame(h) /\ ~EndPass(h) /\ ~LoadPass(h) /\ Top(t).call # "callback"
          BY <2>0, <3>1 DEF FrameOK, LoadPass, LoaderFrame, EndPass, At
    <3> HIDE DEF h
    <3> QED BY <2>0, <2>2, <3>1, <3>2, GotoSkeleton DEF h, i
  <2> QED BY <1>1, <2>1, <2>2 DEF DispatchStep
<1>2. CASE DispatchReturn(t)
  <2>1. stack[t] # <<>> /\ Return(t)
        BY <1>2 DEF DispatchReturn, At
  <2>2. UNCHANGED <<loadStarted, shutdownFinished, loadFinished, lifecycleMtx>>
        BY <1>2 DEF DispatchReturn, flags
  <2> QED BY <2>1, <2>2, ReturnSkeleton
<1> QED BY <1>1, <1>2 DEF Dispatch

LEMMA CallbackReturnSkeleton ==
    ASSUME Skeleton, NEW t \in Threads, CallbackReturn(t)
    PROVE  Skeleton'
<1>1. stack[t] # <<>> /\ Return(t) /\ UNCHANGED <<flags, lifecycleMtx>>
      BY DEF CallbackReturn, CallbackReturns, InitializeReturn, ReadyReturn, HandlerReturn
<1> QED BY <1>1, ReturnSkeleton DEF flags

LEMMA ShutdownPluginsSkeleton ==
    ASSUME TypeOK, Skeleton, NEW t \in Threads, ShutdownPlugins(t)
    PROVE  Skeleton'
<1>0. loadOrder \in Seq(Plugins) /\ Len(loadOrder) \in Nat /\ DOMAIN loadOrder = 1 .. Len(loadOrder)
      BY DEF TypeOK
<1>1. CASE ShutdownAgain(t)
  <2>1. stack[t] # <<>> /\ Return(t)
        BY <1>1 DEF ShutdownAgain, At
  <2>2. UNCHANGED <<loadStarted, shutdownFinished, loadFinished, lifecycleMtx>>
        BY <1>1 DEF ShutdownAgain, flags
  <2> QED BY <2>1, <2>2, ReturnSkeleton
<1>2. CASE ShutdownStart(t)
  <2>1. /\ At(t, "shutdownPlugins", "enter") /\ Acquire(t) /\ Goto(t, "notify", Len(loadOrder))
        /\ loadStarted /\ shutdownFinished' /\ UNCHANGED <<loadStarted, loadFinished>>
        BY <1>2 DEF ShutdownStart, ShutdownLock
  <2>2. FlagsOK'
        BY <2>1 DEF FlagsOK
  <2> QED BY <1>0, <2>1, <2>2, StartSkeleton DEF At
<1>3. CASE NotifyStep(t)
  <2>1. At(t, "shutdownPlugins", "notify") /\ InOrder(t) /\ UNCHANGED <<flags, lifecycleMtx>>
        BY <1>3 DEF NotifyStep
  <2>2. Top(t).next - 1 \in Nat
        BY <1>0, <2>1 DEF InOrder
  <2>3. \/ Goto(t, "notify", Top(t).next - 1)
        \/ CallBack(t, "aboutToShutdown", Top(t).next - 1)
        BY <1>3 DEF NotifyStep
  <2> QED BY <2>1, <2>2, <2>3, PassGoesOn, PassCallsBack DEF At, Passing, EndPass
<1>4. CASE NotifyPassEnds(t)
  <2>1. /\ At(t, "shutdownPlugins", "notify") /\ Goto(t, "unload", Len(loadOrder))
        /\ UNCHANGED <<flags, lifecycleMtx>>
        BY <1>4 DEF NotifyPassEnds
  <2> QED BY <1>0, <2>1, PassGoesOn DEF At, Passing, EndPass
<1>5. CASE UnloadStep(t)
  <2>1. /\ At(t, "shutdownPlugins", "unload") /\ Goto(t, "unload", Top(t).next - 1)
        /\ InOrder(t) /\ UNCHANGED <<flags, lifecycleMtx>>
        BY <1>5 DEF UnloadStep
  <2>2. Top(t).next - 1 \in Nat
        BY <1>0, <2>1 DEF InOrder
  <2> QED BY <2>1, <2>2, PassGoesOn DEF At, Passing, EndPass
<1>6. CASE ShutdownReturn(t)
  <2>1. /\ At(t, "shutdownPlugins", "unload") /\ Return(t) /\ UNCHANGED flags
        BY <1>6 DEF ShutdownReturn
  <2>2. Passing(Top(t))
        BY <2>1 DEF At, EndPass, Passing
  <2> QED BY <2>1, <2>2, ReturnSkeleton DEF At, flags
<1> QED BY <1>1, <1>2, <1>3, <1>4, <1>5, <1>6 DEF ShutdownPlugins

LEMMA NextSkeleton ==
    ASSUME TypeOK, Skeleton, [Next]_vars
    PROVE  Skeleton'
<1>1. CASE UNCHANGED vars
      BY <1>1 DEF vars, flags, Skeleton, StackOK, Discipline, FlagsOK, FramesOK, Exclusive
<1>2. CASE Next
      BY <1>2, EnvironmentSkeleton, LoadPluginsSkeleton, DispatchSkeleton,
         CallbackReturnSkeleton, ShutdownPluginsSkeleton DEF Next, System
<1> QED BY <1>1, <1>2

-----------------------------------------------------------------------------
(* Types.                                                                  *)

\* Nothing has been resolved before loadPlugins() comes to it.
Unresolved == ~loadStarted => loadOrder = <<>>

\* A loop is within one step of loadOrder, a callback is one of a listed plugin.
Bounded(f) ==
    /\ IF f.call = "callback" THEN f.next \in DOMAIN loadOrder ELSE f.next <= Len(loadOrder) + 1
    /\ f.at = "resolve" => loadOrder = <<>>

Positions == \A t \in Threads : \A i \in 1 .. Len(stack[t]) : Bounded(stack[t][i])

\* A callback in the history of a plugin.
Given == [at : Callbacks, command : Nat]

\* The types of everything but the stacks.
Values ==
    /\ loadStarted \in BOOLEAN /\ shutdownFinished \in BOOLEAN
    /\ loadFinished \in BOOLEAN
    /\ lifecycleMtx \in Threads \cup {NoThread}
    /\ pending \in Seq(1 .. MaxCommands)
    /\ loadOrder \in Seq(Plugins)
    /\ required \in [Plugins -> SUBSET Plugins]
    /\ state \in [Plugins -> States]
    /\ error \in [Plugins -> Errors]
    /\ mapped \in [Plugins -> BOOLEAN]
    /\ passed \in 0 .. MaxCommands /\ kept \in 0 .. MaxCommands
    /\ calls \in [Plugins -> Seq(Given)]

Typed == Values /\ Skeleton /\ Positions /\ Unresolved

LEMMA TypedOK == Typed => TypeOK
<1> SUFFICES ASSUME Typed PROVE TypeOK
    OBVIOUS
<1>1. \A t \in Threads : DOMAIN stack[t] = 1 .. Len(stack[t])
      BY DEF Typed, Skeleton, Stacks
<1>2. \A t \in Threads : \A i \in DOMAIN stack[t] :
          IF stack[t][i].call = "callback"
          THEN stack[t][i].next \in DOMAIN loadOrder
          ELSE stack[t][i].next <= Len(loadOrder) + 1
      BY <1>1 DEF Typed, Positions, Bounded
<1>3. stack \in [Threads -> Seq(Frame)]
      BY DEF Typed, Skeleton, Stacks
<1> QED BY <1>2, <1>3 DEF Typed, TypeOK, Values, Given

LEMMA PushPositions ==
    ASSUME stack \in Stacks, Positions, NEW t \in Threads, NEW f \in Frame, Push(t, f),
           Bounded(f), UNCHANGED loadOrder
    PROVE  Positions'
<1>1. \A u \in Threads : \A i \in 1 .. Len(stack'[u]) :
          (i \in 1 .. Len(stack[u]) /\ stack'[u][i] = stack[u][i]) \/ stack'[u][i] = f
  <2>1. Len(stack[t]) \in Nat
        BY DEF Stacks
  <2> QED BY <2>1, PushStack
<1> QED BY <1>1 DEF Positions, Bounded

LEMMA ReturnPositions ==
    ASSUME stack \in Stacks, Positions, NEW t \in Threads, stack[t] # <<>>, Return(t),
           UNCHANGED loadOrder
    PROVE  Positions'
<1>1. \A u \in Threads : \A i \in 1 .. Len(stack'[u]) :
          i \in 1 .. Len(stack[u]) /\ stack'[u][i] = stack[u][i]
      BY ReturnStack DEF Stacks
<1> QED BY <1>1 DEF Positions, Bounded

LEMMA GotoPositions ==
    ASSUME stack \in Stacks, Positions, NEW t \in Threads, stack[t] # <<>>,
           Top(t).call # "callback",
           NEW at, NEW next \in Nat, Goto(t, at, next), next <= Len(loadOrder) + 1,
           at = "resolve" => loadOrder = <<>>,
           [Top(t) EXCEPT !.at = at, !.next = next] \in Frame,
           UNCHANGED loadOrder
    PROVE  Positions'
<1> DEFINE n == Len(stack[t])  g == [Top(t) EXCEPT !.at = at, !.next = next]
<1>1. Top(t) \in Frame /\ n \in Nat \ {0}
      BY TopFrame
<1>2. g.call = Top(t).call /\ g.at = at /\ g.next = next
      BY <1>1 DEF Frame
<1>3. Bounded(g)
      BY <1>2 DEF Bounded
<1>4. /\ stack' \in Stacks
      /\ Len(stack'[t]) = n
      /\ \A i \in 1 .. n - 1 : stack'[t][i] = stack[t][i]
      /\ stack'[t][n] = g
      /\ \A u \in Threads \ {t} : stack'[u] = stack[u]
      BY GotoStack
<1> HIDE DEF g
<1>5. \A u \in Threads : \A i \in 1 .. Len(stack'[u]) :
          (i \in 1 .. Len(stack[u]) /\ stack'[u][i] = stack[u][i]) \/ stack'[u][i] = g
      BY <1>1, <1>4
<1> QED BY <1>3, <1>5 DEF Positions, Bounded

LEMMA PushFromLoopPositions ==
    ASSUME stack \in Stacks, Positions, NEW t \in Threads, stack[t] # <<>>,
           Top(t).call # "callback",
           NEW next \in Nat, next <= Len(loadOrder) + 1,
           NEW f \in Frame, Bounded(f), PushFromLoop(t, next, f),
           UNCHANGED loadOrder
    PROVE  Positions'
<1> DEFINE n == Len(stack[t])  g == [Top(t) EXCEPT !.next = next]
<1>1. Top(t) \in Frame /\ n \in Nat \ {0}
      BY TopFrame
<1>2. g.call = Top(t).call /\ g.at = Top(t).at /\ g.next = next
      BY <1>1 DEF Frame
<1>6. Bounded(Top(t))
      BY <1>1, TopFrame DEF Positions
<1>3. Bounded(g)
      BY <1>2, <1>6 DEF Bounded
<1>4. /\ Len(stack'[t]) = n + 1
      /\ \A i \in 1 .. n - 1 : stack'[t][i] = stack[t][i]
      /\ stack'[t][n] = g
      /\ stack'[t][n + 1] = f
      /\ \A u \in Threads \ {t} : stack'[u] = stack[u]
      BY PushFromLoopStack
<1> HIDE DEF g
<1>5. \A u \in Threads : \A i \in 1 .. Len(stack'[u]) :
          \/ i \in 1 .. Len(stack[u]) /\ stack'[u][i] = stack[u][i]
          \/ stack'[u][i] = g \/ stack'[u][i] = f
      BY <1>1, <1>4, SMTT(30)
<1> QED BY <1>3, <1>5 DEF Positions, Bounded

LEMMA InitTyped == Init => Typed
<1> SUFFICES ASSUME Init PROVE Typed
    OBVIOUS
<1>1. stack \in Stacks /\ \A t \in Threads : Len(stack[t]) = 0
      BY DEF Init, Stacks
<1>2. Values
  <2>1. pending \in Seq(1 .. MaxCommands) /\ loadOrder \in Seq(Plugins)
        BY DEF Init
  <2>2. calls \in [Plugins -> Seq(Given)]
        BY DEF Init
  <2>3. passed \in 0 .. MaxCommands /\ kept \in 0 .. MaxCommands
        BY BoundAssumption DEF Init
  <2>4. /\ required \in [Plugins -> SUBSET Plugins]
        /\ state \in [Plugins -> States] /\ error \in [Plugins -> Errors]
        /\ mapped \in [Plugins -> BOOLEAN]
        BY DEF Init, States, Errors
  <2>5. /\ loadStarted \in BOOLEAN /\ shutdownFinished \in BOOLEAN /\ loadFinished \in BOOLEAN
        /\ lifecycleMtx \in Threads \cup {NoThread}
        BY DEF Init
  <2> QED BY <2>1, <2>2, <2>3, <2>4, <2>5 DEF Values
<1>3. Skeleton
      BY <1>1 DEF Skeleton, StackOK, Discipline, FlagsOK, FramesOK, Exclusive, Init
<1>4. Positions /\ Unresolved
      BY <1>1 DEF Positions, Unresolved, Init
<1> QED BY <1>1, <1>2, <1>3, <1>4 DEF Typed

\* What the position of a frame says.
LEMMA CurrentOK ==
    ASSUME Values, stack \in Stacks, NEW t \in Threads, stack[t] # <<>>, InOrder(t)
    PROVE  /\ Top(t).next \in 1 .. Len(loadOrder) /\ Len(loadOrder) \in Nat
           /\ Current(t) \in Plugins
BY DEF Values, InOrder, Current

LEMMA CallBackValues ==
    ASSUME Values, stack \in Stacks, NEW t \in Threads, stack[t] # <<>>, InOrder(t),
           NEW at \in Callbacks, NEW next, CallBack(t, at, next)
    PROVE  calls' \in [Plugins -> Seq(Given)]
<1>1. Top(t).command \in Nat
      BY TopFrame DEF Frame
<1>2. [at |-> at, command |-> Top(t).command] \in Given
      BY <1>1 DEF Given
<1>3. Current(t) \in Plugins
      BY CurrentOK
<1>4. Append(calls[Current(t)], [at |-> at, command |-> Top(t).command]) \in Seq(Given)
      BY <1>2, <1>3 DEF Values
<1> QED BY <1>3, <1>4 DEF CallBack, Values

LEMMA LoadPluginsValues ==
    ASSUME Values, Skeleton, Positions, NEW t \in Threads, LoadPlugins(t)
    PROVE  Values'
<1>0. stack \in Stacks
      BY DEF Skeleton
<1>1. CASE LoadAgain(t)
      BY <1>1 DEF LoadAgain, Values, flags, commands, resolution, specs
<1>2. CASE LoadStart(t)
      BY <1>2 DEF LoadStart, Acquire, Values, flags, commands, resolution, specs
<1>3. CASE Resolve(t)
      BY <1>3, ResolutionAssumption DEF IsResolution, Resolve, Values, flags, commands, resolution, specs, States
<1>4. CASE LoadStep(t)
  <2>1. Current(t) \in Plugins
        BY <1>0, <1>4, CurrentOK DEF LoadStep, At
  <2> QED BY <1>4, <2>1 DEF LoadStep, Values, flags, commands, resolution, ReportError, SetState,
                            States, Errors
<1>5. CASE LoadPassEnds(t)
      BY <1>5 DEF LoadPassEnds, Values, flags, commands, resolution, specs
<1>6. CASE InitializeStep(t)
  <2>1. Current(t) \in Plugins /\ stack[t] # <<>> /\ InOrder(t)
        BY <1>0, <1>6, CurrentOK DEF InitializeStep, At
  <2>2. calls' \in [Plugins -> Seq(Given)]
        BY <1>0, <1>6, <2>1, CallBackValues DEF InitializeStep, Values, Callbacks
  <2>3. error' \in [Plugins -> Errors]
        BY <1>6, <2>1 DEF InitializeStep, Values, ReportError, Errors
  <2> QED BY <1>6, <2>2, <2>3 DEF InitializeStep, Values, flags, commands, resolution
<1>7. CASE InitializePassEnds(t)
      BY <1>7 DEF InitializePassEnds, Values, flags, commands, resolution, specs
<1>8. CASE ReadyStep(t)
  <2>1. stack[t] # <<>> /\ InOrder(t)
        BY <1>8 DEF ReadyStep, At
  <2>2. calls' \in [Plugins -> Seq(Given)]
        BY <1>0, <1>8, <2>1, CallBackValues DEF ReadyStep, Values, Callbacks
  <2> QED BY <1>8, <2>2 DEF ReadyStep, Values, flags, commands, resolution, specs
<1>9. CASE ReadyPassEnds(t)
      BY <1>9 DEF ReadyPassEnds, ReleaseBeforeCommands, Release, Values, flags, commands,
                  resolution, specs
<1>10. CASE TakePending(t)
  <2>1. pending' \in Seq(1 .. MaxCommands)
        BY <1>10 DEF TakePending, Values
  <2> QED BY <1>10, <2>1 DEF TakePending, Values, flags, commands, resolution, specs
<1>11. CASE LoadReturn(t)
      BY <1>11 DEF LoadReturn, Values, commands, resolution, specs
<1> QED BY <1>1, <1>2, <1>3, <1>4, <1>5, <1>6, <1>7, <1>8, <1>9, <1>10, <1>11 DEF LoadPlugins

LEMMA OtherValues ==
    ASSUME Values, Skeleton, Positions, NEW t \in Threads,
           Environment(t) \/ Dispatch(t) \/ CallbackReturn(t) \/ ShutdownPlugins(t)
    PROVE  Values'
<1>0. stack \in Stacks
      BY DEF Skeleton
<1>1. CASE Call(t)
      BY <1>1 DEF Call, Values, flags, commands, resolution, specs
<1>2. CASE KeepCommand(t)
  <2>1. passed + 1 \in 1 .. MaxCommands
        BY <1>2, BoundAssumption DEF KeepCommand, Values
  <2> DEFINE S == 1 .. MaxCommands  c == passed + 1
  <2>3. pending \in Seq(S) /\ c \in S /\ pending' = Append(pending, c)
        BY <1>2, <2>1 DEF KeepCommand, Values
  <2> HIDE DEF S, c
  <2>4. pending' \in Seq(S)
        BY <2>3
  <2>2. pending' \in Seq(1 .. MaxCommands)
        BY <2>4 DEF S
  <2> QED BY <1>2, <2>1, <2>2 DEF KeepCommand, Values, flags, resolution, specs
<1>3. CASE PassCommand(t)
  <2>1. passed + 1 \in 1 .. MaxCommands
        BY <1>3, BoundAssumption DEF PassCommand, Values
  <2>2. passed' \in 0 .. MaxCommands
        BY <1>3, <2>1 DEF PassCommand
  <2> QED BY <1>3, <2>2 DEF PassCommand, Values, flags, resolution, specs
<1>4. CASE DispatchStep(t)
  <2>1. stack[t] # <<>> /\ InOrder(t) /\ Top(t) \in Frame
        BY <1>0, <1>4, TopFrame DEF DispatchStep, DispatchOver, At
  <2>2. Current(t) \in Plugins /\ Top(t).command \in Nat
        BY <1>0, <2>1, CurrentOK DEF Frame
  <2>3. [at |-> "remoteCommand", command |-> Top(t).command] \in Given
        BY <2>2 DEF Given, Callbacks
  <2>5. Append(calls[Current(t)], [at |-> "remoteCommand", command |-> Top(t).command])
            \in Seq(Given)
        BY <2>2, <2>3 DEF Values
  <2>4. calls' \in [Plugins -> Seq(Given)]
        BY <1>4, <2>2, <2>5 DEF DispatchStep, Current, Values
  <2> QED BY <1>4, <2>4 DEF DispatchStep, Values, flags, commands, resolution, specs
<1>5. CASE DispatchReturn(t)
      BY <1>5 DEF DispatchReturn, Values, flags, commands, resolution, specs
<1>6. CASE InitializeReturn(t) \/ ReadyReturn(t)
  <2>1. Len(stack[t]) \in 1 .. Len(stack[t]) /\ Top(t) = stack[t][Len(stack[t])]
        /\ Top(t).call = "callback"
        BY <1>0, <1>6, TopFrame DEF InitializeReturn, ReadyReturn, CallbackReturns
  <2>2. Bounded(Top(t))
        BY <2>1 DEF Positions
  <2>5. Current(t) \in Plugins
        BY <2>1, <2>2 DEF Bounded, Current, Values
  <2>3. CASE InitializeReturn(t)
        BY <2>5, <2>3 DEF InitializeReturn, SetState, ReportError, Values, flags, commands,
                          resolution, States, Errors
  <2>4. CASE ReadyReturn(t)
        BY <2>5, <2>4 DEF ReadyReturn, SetState, Values, flags, commands, resolution, States
  <2> QED BY <1>6, <2>3, <2>4
<1>7. CASE HandlerReturn(t)
      BY <1>7 DEF HandlerReturn, Values, flags, commands, resolution, specs
<1>8. CASE ShutdownAgain(t) \/ NotifyPassEnds(t)
      BY <1>8 DEF ShutdownAgain, NotifyPassEnds, Values, flags, commands, resolution, specs
<1>9. CASE ShutdownStart(t)
      BY <1>9 DEF ShutdownStart, ShutdownLock, Acquire, Values, commands, resolution, specs
<1>10. CASE NotifyStep(t)
  <2>1. stack[t] # <<>> /\ InOrder(t)
        BY <1>10 DEF NotifyStep, At
  <2>2. calls' \in [Plugins -> Seq(Given)]
        BY <1>0, <1>10, <2>1, CallBackValues DEF NotifyStep, Values, Callbacks
  <2> QED BY <1>10, <2>2 DEF NotifyStep, Values, flags, commands, resolution, specs
<1>11. CASE UnloadStep(t)
  <2>1. UnloadPlugin(t) \in Plugins
        BY <1>0, <1>11, CurrentOK DEF UnloadStep, UnloadPlugin, At
  <2> QED BY <1>11, <2>1 DEF UnloadStep, Values, flags, commands, resolution, specs,
                             ReportError, SetState, States, Errors
<1>12. CASE ShutdownReturn(t)
      BY <1>12 DEF ShutdownReturn, Release, Values, flags, commands, resolution, specs
<1> QED BY <1>1, <1>2, <1>3, <1>4, <1>5, <1>6, <1>7, <1>8, <1>9, <1>10, <1>11, <1>12
        DEF Environment, Dispatch, CallbackReturn, ShutdownPlugins

LEMMA LoadPluginsPositions ==
    ASSUME Values, Skeleton, Positions, Unresolved, NEW t \in Threads, LoadPlugins(t)
    PROVE  Positions'
<1>0. /\ stack \in Stacks
      /\ loadOrder \in Seq(Plugins) /\ Len(loadOrder) \in Nat
      /\ DOMAIN loadOrder = 1 .. Len(loadOrder)
      BY DEF Skeleton, Values
<1>a. ASSUME NEW at \in {"load", "initialize", "ready", "resolve", "pending"},
             NEW next \in Nat, next <= Len(loadOrder) + 1,
             at = "resolve" => loadOrder = <<>>,
             stack[t] # <<>>, Top(t).call = "loadPlugins", Goto(t, at, next),
             UNCHANGED loadOrder
      PROVE  Positions'
  <2>1. Top(t) \in Frame
        BY <1>0, <1>a, TopFrame
  <2>2. [Top(t) EXCEPT !.at = at, !.next = next] \in Frame
        BY <2>1 DEF Frame, Callbacks
  <2> QED BY <1>0, <1>a, <2>2, GotoPositions
<1>b. ASSUME NEW at \in Callbacks, NEW next \in Nat, next <= Len(loadOrder) + 1,
             stack[t] # <<>>, InOrder(t), Top(t).call = "loadPlugins", CallBack(t, at, next),
             UNCHANGED loadOrder
      PROVE  Positions'
  <2> DEFINE f == [call |-> "callback", at |-> at, next |-> Called(t, next),
                   command |-> Top(t).command]
  <2>1. Top(t) \in Frame
        BY <1>0, <1>b, TopFrame
  <2>2. f \in Frame /\ Bounded(f)
        BY <1>b, <2>1 DEF Frame, Called, Bounded, InOrder, Callbacks
  <2>3. PushFromLoop(t, next, f)
        BY <1>b DEF CallBack
  <2> HIDE DEF f
  <2> QED BY <1>0, <1>b, <2>2, <2>3, PushFromLoopPositions
<1>1. CASE LoadAgain(t) \/ LoadReturn(t)
  <2>1. stack[t] # <<>> /\ Return(t) /\ UNCHANGED loadOrder
        BY <1>1 DEF LoadAgain, LoadReturn, At, resolution
  <2> QED BY <1>0, <2>1, ReturnPositions
<1>2. CASE LoadStart(t)
  <2>1. stack[t] # <<>> /\ Top(t).call = "loadPlugins" /\ Goto(t, "resolve", 0) /\ UNCHANGED loadOrder
        /\ loadOrder = <<>>
        BY <1>2 DEF LoadStart, At, resolution, Unresolved
  <2> QED BY <1>0, <1>a, <2>1
<1>3. CASE Resolve(t)
  <2>1. stack[t] # <<>> /\ Top(t).call = "loadPlugins" /\ Top(t).at = "resolve"
        /\ Goto(t, "load", 1) /\ loadOrder' \in Seq(Plugins)
        BY <1>3, ResolutionAssumption DEF IsResolution, Resolve, At
  <2> DEFINE n == Len(stack[t])  g == [Top(t) EXCEPT !.at = "load", !.next = 1]
  <2>2. Top(t) \in Frame /\ n \in 1 .. n /\ Top(t) = stack[t][n]
        BY <1>0, <2>1, TopFrame
  <2>3. g \in Frame /\ g.call = "loadPlugins" /\ g.at = "load" /\ g.next = 1
        BY <2>1, <2>2 DEF Frame
  <2>4. /\ stack' \in Stacks
        /\ Len(stack'[t]) = n
        /\ \A i \in 1 .. n - 1 : stack'[t][i] = stack[t][i]
        /\ stack'[t][n] = g
        /\ \A u \in Threads \ {t} : stack'[u] = stack[u]
        BY <1>0, <2>1, <2>3, GotoStack
  <2> HIDE DEF g
  <2>5. \A u \in Threads : \A i \in 1 .. Len(stack'[u]) :
            \/ i \in 1 .. Len(stack[u]) /\ stack'[u][i] = stack[u][i] /\ ~(u = t /\ i = n)
            \/ stack'[u][i] = g
        BY <2>2, <2>4
  <2>6. loadOrder = <<>>
        BY <2>1, <2>2 DEF Positions, Bounded
  <2>7. \A u \in Threads : \A i \in 1 .. Len(stack[u]) :
            stack[u][i].call # "callback" /\ stack[u][i].next <= 1
                /\ (stack[u][i].at = "resolve" => u = t /\ i = n)
    <3>1. DOMAIN loadOrder = {} /\ Len(loadOrder) = 0
          BY <2>6
    <3>2. \A u \in Threads : \A i \in 1 .. Len(stack[u]) : Bounded(stack[u][i])
          BY DEF Positions
    <3>3. LoaderFrame(stack[t][n])
          BY <2>1, <2>2 DEF LoaderFrame
    <3>4. \A u \in Threads : \A i \in 1 .. Len(stack[u]) :
              stack[u][i].at = "resolve" => LoaderFrame(stack[u][i])
          BY DEF Skeleton, StackOK, FrameOK, LoaderFrame, Callbacks
    <3>5. \A u \in Threads : \A i \in 1 .. Len(stack[u]) :
              stack[u][i].at = "resolve" => u = t /\ i = n
          BY <2>2, <3>3, <3>4 DEF Skeleton, Discipline, Exclusive
    <3> QED BY <3>1, <3>2, <3>5 DEF Bounded
  <2>8. ASSUME NEW u \in Threads, NEW i \in 1 .. Len(stack[u]) PROVE stack[u][i].next \in Nat
    <3>1. stack[u] \in Seq(Frame)
          BY <1>0 DEF Stacks
    <3>2. stack[u][i] \in Frame
          BY <3>1
    <3> QED BY <3>2 DEF Frame
  <2>9. Len(loadOrder') \in Nat
        BY <2>1
  <2>10. \A u \in Threads : \A i \in 1 .. Len(stack'[u]) :
             /\ stack'[u][i].call # "callback" /\ stack'[u][i].at # "resolve"
             /\ stack'[u][i].next \in Nat /\ stack'[u][i].next <= 1
         BY <2>3, <2>5, <2>7, <2>8
  <2> QED BY <2>9, <2>10 DEF Positions, Bounded
<1>4. CASE LoadStep(t)
  <2>1. stack[t] # <<>> /\ Top(t).call = "loadPlugins" /\ InOrder(t)
        /\ Goto(t, "load", Top(t).next + 1) /\ UNCHANGED loadOrder
        BY <1>4 DEF LoadStep, At, resolution
  <2>2. Top(t).next + 1 \in Nat /\ Top(t).next + 1 <= Len(loadOrder) + 1
        BY <1>0, <2>1 DEF InOrder
  <2> QED BY <1>0, <1>a, <2>1, <2>2
<1>5. CASE LoadPassEnds(t)
  <2>1. stack[t] # <<>> /\ Top(t).call = "loadPlugins" /\ Goto(t, "initialize", 1)
        /\ UNCHANGED loadOrder
        BY <1>5 DEF LoadPassEnds, At, resolution
  <2> QED BY <1>0, <1>a, <2>1
<1>6. CASE InitializeStep(t)
  <2>1. stack[t] # <<>> /\ Top(t).call = "loadPlugins" /\ InOrder(t) /\ UNCHANGED loadOrder
        BY <1>6 DEF InitializeStep, At, resolution
  <2>2. Top(t).next + 1 \in Nat /\ Top(t).next + 1 <= Len(loadOrder) + 1
        BY <1>0, <2>1 DEF InOrder
  <2>3. \/ Goto(t, "initialize", Top(t).next + 1)
        \/ CallBack(t, "initialize", Top(t).next + 1)
        BY <1>6 DEF InitializeStep
  <2> QED BY <1>0, <1>a, <1>b, <2>1, <2>2, <2>3 DEF Callbacks
<1>7. CASE InitializePassEnds(t)
  <2>1. stack[t] # <<>> /\ Top(t).call = "loadPlugins" /\ Goto(t, "ready", Len(loadOrder))
        /\ UNCHANGED loadOrder
        BY <1>7 DEF InitializePassEnds, At, resolution
  <2> QED BY <1>0, <1>a, <2>1
<1>8. CASE ReadyStep(t)
  <2>1. stack[t] # <<>> /\ Top(t).call = "loadPlugins" /\ InOrder(t) /\ UNCHANGED loadOrder
        BY <1>8 DEF ReadyStep, At, resolution
  <2>2. Top(t).next - 1 \in Nat /\ Top(t).next - 1 <= Len(loadOrder) + 1
        BY <1>0, <2>1 DEF InOrder
  <2>3. \/ Goto(t, "ready", Top(t).next - 1)
        \/ CallBack(t, "pluginsInitialized", Top(t).next - 1)
        BY <1>8 DEF ReadyStep
  <2> QED BY <1>0, <1>a, <1>b, <2>1, <2>2, <2>3 DEF Callbacks
<1>9. CASE ReadyPassEnds(t)
  <2>1. stack[t] # <<>> /\ Top(t).call = "loadPlugins" /\ Goto(t, "pending", 0)
        /\ UNCHANGED loadOrder
        BY <1>9 DEF ReadyPassEnds, At, resolution
  <2> QED BY <1>0, <1>a, <2>1
<1>10. CASE TakePending(t)
  <2> DEFINE f == DispatchFrame(NextKept)
  <2>1. Push(t, f) /\ UNCHANGED loadOrder /\ pending # <<>>
        BY <1>10 DEF TakePending, resolution
  <2>2. NextKept \in Nat
        BY <2>1, BoundAssumption DEF NextKept, Values
  <2>3. f \in Frame /\ Bounded(f)
        BY <1>0, <2>2 DEF DispatchFrame, Frame, Bounded
  <2> HIDE DEF f
  <2> QED BY <1>0, <2>1, <2>3, PushPositions
<1> QED BY <1>1, <1>2, <1>3, <1>4, <1>5, <1>6, <1>7, <1>8, <1>9, <1>10 DEF LoadPlugins

LEMMA OtherPositions ==
    ASSUME Values, Skeleton, Positions, NEW t \in Threads,
           Environment(t) \/ Dispatch(t) \/ CallbackReturn(t) \/ ShutdownPlugins(t)
    PROVE  Positions'
<1>0. /\ stack \in Stacks
      /\ loadOrder \in Seq(Plugins) /\ Len(loadOrder) \in Nat
      /\ DOMAIN loadOrder = 1 .. Len(loadOrder)
      BY DEF Skeleton, Values
<1>a. ASSUME NEW at \in {"notify", "unload"},
             NEW next \in Nat, next <= Len(loadOrder) + 1,
             stack[t] # <<>>, Top(t).call = "shutdownPlugins", Goto(t, at, next),
             UNCHANGED loadOrder
      PROVE  Positions'
  <2>1. Top(t) \in Frame
        BY <1>0, <1>a, TopFrame
  <2>2. [Top(t) EXCEPT !.at = at, !.next = next] \in Frame
        BY <2>1 DEF Frame
  <2> QED BY <1>0, <1>a, <2>2, GotoPositions
<1>1. CASE Call(t)
  <2>1. PICK api \in {"loadPlugins", "shutdownPlugins"} :
            Push(t, [call |-> api, at |-> "enter", next |-> 0, command |-> NoCommand])
        BY <1>1 DEF Call
  <2> DEFINE f == [call |-> api, at |-> "enter", next |-> 0, command |-> NoCommand]
  <2>2. f \in Frame /\ Bounded(f)
        BY <1>0 DEF Frame, NoCommand, Bounded
  <2>3. UNCHANGED loadOrder
        BY <1>1 DEF Call, resolution
  <2> HIDE DEF f
  <2> QED BY <1>0, <2>1, <2>2, <2>3, PushPositions DEF f
<1>2. CASE KeepCommand(t)
      BY <1>2 DEF KeepCommand, Positions, Bounded, resolution
<1>3. CASE PassCommand(t)
  <2> DEFINE f == DispatchFrame(passed + 1)
  <2>1. Push(t, f) /\ UNCHANGED loadOrder
        BY <1>3 DEF PassCommand, resolution
  <2>2. passed + 1 \in Nat
        BY BoundAssumption DEF Values
  <2>3. f \in Frame /\ Bounded(f)
        BY <1>0, <2>2 DEF DispatchFrame, Frame, Bounded
  <2> HIDE DEF f
  <2> QED BY <1>0, <2>1, <2>3, PushPositions
<1>4. CASE DispatchStep(t)
  <2>1. /\ At(t, "dispatch", "pass") /\ UNCHANGED loadOrder /\ InOrder(t)
        /\ Top(t) \in Frame /\ stack[t] # <<>>
        BY <1>0, <1>4, TopFrame DEF DispatchStep, DispatchOver, At, resolution
  <2> DEFINE i == Top(t).next
             f == [call |-> "callback", at |-> "remoteCommand", next |-> i,
                   command |-> Top(t).command]
  <2>2. i + 1 \in Nat /\ i + 1 <= Len(loadOrder) + 1 /\ i \in DOMAIN loadOrder /\ i \in Nat
        BY <1>0, <2>1 DEF InOrder
  <2>3. CASE PushFromLoop(t, i + 1, f)
    <3>1. f \in Frame /\ Bounded(f) /\ Top(t).call # "callback"
          BY <2>1, <2>2 DEF Frame, Callbacks, Bounded, At
    <3> HIDE DEF f, i
    <3> QED BY <1>0, <2>1, <2>2, <2>3, <3>1, PushFromLoopPositions
  <2>4. CASE Goto(t, "pass", i + 1)
    <3>1. Top(t).call = "dispatch"
          BY <2>1 DEF At
    <3> HIDE DEF i
    <3>2. [Top(t) EXCEPT !.at = "pass", !.next = i + 1] \in Frame
          BY <2>1, <2>2 DEF Frame
    <3>3. Top(t).call # "callback" /\ ("pass" = "resolve" => loadOrder = <<>>)
          BY <3>1
    <3> QED BY <1>0, <2>1, <2>2, <2>4, <3>2, <3>3, GotoPositions
  <2> QED BY <1>4, <2>3, <2>4 DEF DispatchStep
<1>5. CASE DispatchReturn(t) \/ CallbackReturn(t) \/ ShutdownAgain(t) \/ ShutdownReturn(t)
  <2>1. stack[t] # <<>> /\ Return(t) /\ UNCHANGED loadOrder
        BY <1>5 DEF DispatchReturn, CallbackReturn, InitializeReturn, ReadyReturn, HandlerReturn,
                    CallbackReturns, ShutdownAgain, ShutdownReturn, At, resolution
  <2> QED BY <1>0, <2>1, ReturnPositions
<1>6. CASE ShutdownStart(t) \/ NotifyPassEnds(t)
  <2>1. stack[t] # <<>> /\ Top(t).call = "shutdownPlugins" /\ UNCHANGED loadOrder
        /\ (Goto(t, "notify", Len(loadOrder)) \/ Goto(t, "unload", Len(loadOrder)))
        BY <1>6 DEF ShutdownStart, NotifyPassEnds, At, resolution
  <2> QED BY <1>0, <1>a, <2>1
<1>7. CASE NotifyStep(t)
  <2>1. stack[t] # <<>> /\ Top(t).call = "shutdownPlugins" /\ InOrder(t) /\ UNCHANGED loadOrder
        BY <1>7 DEF NotifyStep, At, resolution
  <2>2. Top(t).next - 1 \in Nat /\ Top(t).next - 1 <= Len(loadOrder) + 1
        BY <1>0, <2>1 DEF InOrder
  <2>3. CASE CallBack(t, "aboutToShutdown", Top(t).next - 1)
    <3> DEFINE next == Top(t).next - 1
               f == [call |-> "callback", at |-> "aboutToShutdown", next |-> Called(t, next),
                     command |-> Top(t).command]
    <3>1. Top(t) \in Frame
          BY <1>0, <2>1, TopFrame
    <3>2. f \in Frame /\ Bounded(f)
          BY <2>1, <3>1 DEF Frame, Called, Bounded, InOrder, Callbacks
    <3>3. PushFromLoop(t, next, f)
          BY <2>3 DEF CallBack
    <3> HIDE DEF f
    <3> QED BY <1>0, <2>1, <2>2, <3>2, <3>3, PushFromLoopPositions
  <2>4. CASE Goto(t, "notify", Top(t).next - 1)
        BY <1>0, <1>a, <2>1, <2>2, <2>4
  <2> QED BY <1>7, <2>3, <2>4 DEF NotifyStep
<1>8. CASE UnloadStep(t)
  <2>1. stack[t] # <<>> /\ Top(t).call = "shutdownPlugins" /\ InOrder(t) /\ UNCHANGED loadOrder
        /\ Goto(t, "unload", Top(t).next - 1)
        BY <1>8 DEF UnloadStep, At, resolution
  <2>2. Top(t).next - 1 \in Nat /\ Top(t).next - 1 <= Len(loadOrder) + 1
        BY <1>0, <2>1 DEF InOrder
  <2> QED BY <1>0, <1>a, <2>1, <2>2
<1> QED BY <1>1, <1>2, <1>3, <1>4, <1>5, <1>6, <1>7, <1>8
        DEF Environment, Dispatch, ShutdownPlugins

LEMMA NextTyped ==
    ASSUME Typed, [Next]_vars
    PROVE  Typed'
<1>1. TypeOK /\ Values /\ Skeleton /\ Positions /\ Unresolved
      BY TypedOK DEF Typed
<1>2. Skeleton'
      BY <1>1, NextSkeleton
<1>3. CASE UNCHANGED vars
  <2>1. Values' /\ Positions' /\ Unresolved'
        BY <1>1, <1>3 DEF Values, Positions, Bounded, Unresolved, vars, flags, commands,
                          resolution, specs
  <2> QED BY <1>2, <2>1 DEF Typed
<1>4. ASSUME NEW t \in Threads, Environment(t) \/ System(t) \/ CallbackReturn(t)
      PROVE  Typed'
  <2>1. CASE LoadPlugins(t)
    <3>1. Values' /\ Positions'
          BY <1>1, <2>1, LoadPluginsValues, LoadPluginsPositions
    <3>2. LoaderFrame(Top(t)) /\ stack[t] # <<>> => loadStarted
          BY <1>1, TopOK
    <3>3. Unresolved'
          BY <1>1, <2>1, <3>2
             DEF Unresolved, LoadPlugins, LoadAgain, LoadStart, Resolve, LoadStep, LoadPassEnds,
                 InitializeStep, InitializePassEnds, ReadyStep, ReadyPassEnds, TakePending,
                 LoadReturn, At, LoaderFrame, flags, resolution
    <3> QED BY <1>2, <3>1, <3>3 DEF Typed
  <2>2. CASE Environment(t) \/ Dispatch(t) \/ CallbackReturn(t) \/ ShutdownPlugins(t)
    <3>1. Values' /\ Positions'
          BY <1>1, <2>2, OtherValues, OtherPositions
    <3>2. UNCHANGED <<loadOrder, loadStarted>>
          BY <2>2 DEF Environment, Call, KeepCommand, PassCommand, Dispatch, DispatchStep,
                      DispatchReturn, CallbackReturn, InitializeReturn, ReadyReturn,
                      HandlerReturn, ShutdownPlugins, ShutdownAgain, ShutdownStart, NotifyStep,
                      NotifyPassEnds, UnloadStep, ShutdownReturn, flags, resolution
    <3> QED BY <1>1, <1>2, <3>1, <3>2 DEF Typed, Unresolved
  <2> QED BY <1>4, <2>1, <2>2 DEF System
<1> QED BY <1>3, <1>4 DEF Next

\* The system is Typed at all times.
LEMMA AlwaysTyped == Spec => []Typed
BY InitTyped, NextTyped, PTL DEF Spec

\* The variables keep their types and every loop its place in loadOrder, whatever
\* threads and plugins call, and when; commands come on one thread.
THEOREM LifecycleTypeCorrect == Spec => []TypeOK
BY AlwaysTyped, TypedOK, PTL

-----------------------------------------------------------------------------
(***************************************************************************)
(* Every plugin lives the life that PluginLives promises, and what follows *)
(* for the calls of the host, on top of that nesting and locking           *)
(* discipline.                                                             *)
(***************************************************************************)

(* The stages of a plugin, in terms of the code's variables.               *)

Fresh(p) ==
    /\ ~mapped[p] /\ state[p] \in {"Read", "Resolved"} /\ error[p] = "none"
    /\ calls[p] = <<>>

Resolved(p) == Fresh(p) /\ state[p] = "Resolved"

Rejected(p) ==
    /\ ~mapped[p] /\ state[p] = "Resolved" /\ error[p] \in {"dependency", "load"}
    /\ calls[p] = <<>>

Unusable(p) ==
    mapped[p] /\ state[p] = "Resolved" /\ error[p] = "type" /\ calls[p] = <<>>

Loaded(p) ==
    mapped[p] /\ state[p] = "Loaded" /\ error[p] = "none" /\ calls[p] = <<>>

Skipped(p) ==
    mapped[p] /\ state[p] = "Loaded" /\ error[p] = "dependency" /\ calls[p] = <<>>

Initializing(p) ==
    mapped[p] /\ state[p] = "Loaded" /\ error[p] = "none" /\ Len(calls[p]) = 1

Failed(p) == mapped[p] /\ state[p] = "Loaded" /\ error[p] = "init"

Initialized(p) ==
    mapped[p] /\ state[p] = "Initialized" /\ error[p] = "none" /\ Len(calls[p]) = 1

Readying(p) ==
    /\ mapped[p] /\ state[p] = "Initialized" /\ error[p] = "none"
    /\ Len(calls[p]) = 2 /\ Last(calls[p]).at = "pluginsInitialized"

Running(p) ==
    /\ mapped[p] /\ state[p] = "Running" /\ error[p] = "none"
    /\ Len(calls[p]) >= 2 /\ Last(calls[p]).at # "aboutToShutdown"

Told(p) ==
    /\ mapped[p] /\ state[p] = "Running" /\ error[p] = "none"
    /\ Len(calls[p]) >= 2 /\ Last(calls[p]).at = "aboutToShutdown"

Gone(p) == ~mapped[p] /\ state[p] = "Stopped"

Stuck(p) == mapped[p] /\ error[p] = "unload" /\ state[p] # "Stopped"

\* A listed plugin that does not run, after one that does was initialized.
Bad(p) == Rejected(p) \/ Unusable(p) \/ Skipped(p) \/ Failed(p)

Tried(p) == Loaded(p) \/ Rejected(p) \/ Unusable(p)

Ended(p) == Gone(p) \/ Stuck(p) \/ Rejected(p)

\* Nothing happens to plugin p.
Same(p) ==
    state'[p] = state[p] /\ error'[p] = error[p] /\ mapped'[p] = mapped[p] /\ calls'[p] = calls[p]

LEMMA SameStage ==
    ASSUME NEW p, Same(p)
    PROVE  /\ Fresh(p) => Fresh(p)'
           /\ Resolved(p) => Resolved(p)'
           /\ Loaded(p) => Loaded(p)'
           /\ Tried(p) => Tried(p)'
           /\ Bad(p) => Bad(p)'
           /\ Initializing(p) => Initializing(p)'
           /\ Initialized(p) => Initialized(p)'
           /\ Readying(p) => Readying(p)'
           /\ Running(p) => Running(p)'
           /\ Told(p) => Told(p)'
           /\ Ended(p) => Ended(p)'
           /\ Life(p)' = Life(p)
           /\ Heard(p)' = Heard(p)
<1>1. /\ Fresh(p) => Fresh(p)'
      /\ Resolved(p) => Resolved(p)'
      /\ Loaded(p) => Loaded(p)'
      /\ Rejected(p) => Rejected(p)'
      /\ Unusable(p) => Unusable(p)'
      /\ Skipped(p) => Skipped(p)'
      /\ Failed(p) => Failed(p)'
      BY DEF Same, Fresh, Resolved, Loaded, Rejected, Unusable, Skipped, Failed
<1>2. /\ Initializing(p) => Initializing(p)'
      /\ Initialized(p) => Initialized(p)'
      /\ Readying(p) => Readying(p)'
      /\ Running(p) => Running(p)'
      /\ Told(p) => Told(p)'
      BY DEF Same, Initializing, Initialized, Readying, Running, Told
<1>3. (Gone(p) => Gone(p)') /\ (Stuck(p) => Stuck(p)')
      BY DEF Same, Gone, Stuck
<1>4. Life(p)' = Life(p)
      BY DEF Same, Life
<1>5. Heard(p)' = Heard(p)
      BY DEF Same, Heard
<1> QED BY <1>1, <1>2, <1>3, <1>4, <1>5 DEF Tried, Bad, Ended

\* The stages are those of PluginLives.
LEMMA StageLife ==
    ASSUME Values, NEW p \in Plugins
    PROVE  /\ Fresh(p) \/ Rejected(p) => Life(p) = "absent"
           /\ Unusable(p) => Life(p) = "unusable"
           /\ Loaded(p) \/ Skipped(p) => Life(p) = "loaded"
           /\ Initializing(p) => Life(p) = "initializing"
           /\ Failed(p) => Life(p) = "failed"
           /\ Initialized(p) => Life(p) = "initialized"
           /\ Readying(p) => Life(p) = "readying"
           /\ Running(p) => Life(p) = "running"
           /\ Told(p) => Life(p) = "told"
           /\ Gone(p) => Life(p) = "gone"
           /\ Stuck(p) => Life(p) = "stuck"
<1>1. mapped[p] \in BOOLEAN /\ (calls[p] = <<>> => Len(calls[p]) = 0)
      BY DEF Values
<1>2. /\ Fresh(p) \/ Rejected(p) => Life(p) = "absent"
      /\ Unusable(p) => Life(p) = "unusable"
      /\ Loaded(p) \/ Skipped(p) => Life(p) = "loaded"
      /\ Failed(p) => Life(p) = "failed"
      BY <1>1 DEF Life, Fresh, Rejected, Unusable, Loaded, Skipped, Failed
<1>3. /\ Initializing(p) => Life(p) = "initializing"
      /\ Initialized(p) => Life(p) = "initialized"
      /\ Readying(p) => Life(p) = "readying"
  <2>1. Initializing(p) => calls[p] # <<>>
        BY <1>1 DEF Initializing
  <2> QED BY <2>1 DEF Life, Initializing, Initialized, Readying
<1>4. /\ Running(p) => Life(p) = "running"
      /\ Told(p) => Life(p) = "told"
      BY <1>1 DEF Life, Running, Told
<1>5. /\ Gone(p) => Life(p) = "gone"
      /\ Stuck(p) => Life(p) = "stuck"
      BY <1>1 DEF Life, Gone, Stuck
<1> QED BY <1>2, <1>3, <1>4, <1>5

-----------------------------------------------------------------------------
(* The passes: where each listed plugin is when a loop has come to n.      *)

Places == 1 .. Len(loadOrder)

\* Where loops over loadOrder may be, its ends included.
Upward == 1 .. Len(loadOrder) + 1

Downward == 0 .. Len(loadOrder)

LoadPhase(n) ==
    /\ n \in Upward
    /\ \A k \in Places : IF k < n THEN Tried(loadOrder[k]) ELSE Resolved(loadOrder[k])

InitializePhase(n) ==
    /\ n \in Upward
    /\ \A k \in Places :
           IF k < n THEN Initialized(loadOrder[k]) \/ Bad(loadOrder[k]) ELSE Tried(loadOrder[k])

\* A callback is under way: the loop has moved on, its plugin has not.
InitializeCalled(n) ==
    /\ n \in Upward
    /\ \A k \in Places :
           /\ k < n - 1 => Initialized(loadOrder[k]) \/ Bad(loadOrder[k])
           /\ k = n - 1 => Initializing(loadOrder[k])
           /\ k >= n => Tried(loadOrder[k])

ReadyPhase(n) ==
    /\ n \in Downward
    /\ \A k \in Places :
           IF k > n THEN Running(loadOrder[k]) \/ Bad(loadOrder[k])
           ELSE Initialized(loadOrder[k]) \/ Bad(loadOrder[k])

ReadyCalled(n) ==
    /\ n \in Downward
    /\ \A k \in Places :
           /\ k > n + 1 => Running(loadOrder[k]) \/ Bad(loadOrder[k])
           /\ k = n + 1 => Readying(loadOrder[k])
           /\ k <= n => Initialized(loadOrder[k]) \/ Bad(loadOrder[k])

Settled == \A k \in Places : Running(loadOrder[k]) \/ Bad(loadOrder[k])

NotifyPhase(n) ==
    /\ n \in Downward
    /\ \A k \in Places :
           IF k > n THEN Told(loadOrder[k]) \/ Bad(loadOrder[k])
           ELSE Running(loadOrder[k]) \/ Bad(loadOrder[k])

UnloadPhase(n) ==
    /\ n \in Downward
    /\ \A k \in Places :
           IF k > n THEN Ended(loadOrder[k]) ELSE Told(loadOrder[k]) \/ Bad(loadOrder[k])

Over == \A k \in Places : Ended(loadOrder[k])

PassOK(t, i, n) ==
    LET f == stack[t][i]
        called == i < Len(stack[t]) IN
    f.next = n =>
        /\ f.call = "loadPlugins" /\ f.at = "load" => LoadPhase(n)
        /\ f.call = "loadPlugins" /\ f.at = "initialize" =>
               IF called THEN InitializeCalled(n) ELSE InitializePhase(n)
        /\ f.call = "loadPlugins" /\ f.at = "ready" =>
               IF called THEN ReadyCalled(n) ELSE ReadyPhase(n)
        /\ f.call = "shutdownPlugins" /\ f.at = "notify" => NotifyPhase(n)
        /\ f.call = "shutdownPlugins" /\ f.at = "unload" => UnloadPhase(n)

PassesOK ==
    \A t \in Threads : \A i \in 1 .. Len(stack[t]) : \A n \in Nat : PassOK(t, i, n)

Between ==
    /\ loadStarted /\ NoLoadPass /\ ~shutdownFinished => Settled
    /\ shutdownFinished /\ NoEndPass => Over

Passes == PassesOK /\ Between

Ordering ==
    /\ \A i, j \in Places : loadOrder[i] = loadOrder[j] => i = j
    /\ \A i \in Places : \A d \in required[loadOrder[i]] :
           \E j \in 1 .. i - 1 : loadOrder[j] = d

Unlisted == \A p \in Plugins : Fresh(p) \/ \E k \in Places : loadOrder[k] = p

\* Why a plugin was called, and why one depends in vain, while nothing has ended.
CalledBecause(p) ==
    calls[p] # <<>> /\ error[p] = "none" =>
        \A d \in required[p] : state[d] \in {"Initialized", "Running"} /\ error[d] = "none"

Blamed(p) == error[p] = "dependency" => \E d \in required[p] : error[d] # "none"

Reasons == ~shutdownFinished => \A p \in Plugins : CalledBecause(p) /\ Blamed(p)

Lively == Typed /\ Ordering /\ Unlisted /\ Passes /\ Reasons

-----------------------------------------------------------------------------
(* What the invariant says at the top of a stack.                          *)

LEMMA TopPass ==
    ASSUME Typed, Passes, NEW t \in Threads, stack[t] # <<>>
    PROVE  /\ Top(t).call = "loadPlugins" /\ Top(t).at = "load" => LoadPhase(Top(t).next)
           /\ Top(t).call = "loadPlugins" /\ Top(t).at = "initialize" =>
                  InitializePhase(Top(t).next)
           /\ Top(t).call = "loadPlugins" /\ Top(t).at = "ready" => ReadyPhase(Top(t).next)
           /\ Top(t).call = "shutdownPlugins" /\ Top(t).at = "notify" =>
                  NotifyPhase(Top(t).next)
           /\ Top(t).call = "shutdownPlugins" /\ Top(t).at = "unload" =>
                  UnloadPhase(Top(t).next)
<1> DEFINE n == Len(stack[t])
<1>1. n \in 1 .. n /\ ~(n < n) /\ Top(t) = stack[t][n] /\ Top(t).next \in Nat
      BY TopFrame DEF Typed, Skeleton, Frame
<1>2. PassOK(t, n, Top(t).next)
      BY <1>1 DEF Passes, PassesOK
<1> QED BY <1>1, <1>2 DEF PassOK

\* Below a callback that a pass has made is the pass.
LEMMA UnderTop ==
    ASSUME Typed, Passes, NEW t \in Threads, stack[t] # <<>>, Top(t).call = "callback"
    PROVE  /\ Len(stack[t]) - 1 \in 1 .. Len(stack[t])
           /\ Top(t).next \in Places /\ Len(loadOrder) \in Nat
           /\ Top(t).at = "initialize" =>
                  /\ LoadPass(stack[t][Len(stack[t]) - 1])
                  /\ stack[t][Len(stack[t]) - 1].at = "initialize"
                  /\ stack[t][Len(stack[t]) - 1].next = Top(t).next + 1
                  /\ InitializeCalled(Top(t).next + 1)
           /\ Top(t).at = "pluginsInitialized" =>
                  /\ LoadPass(stack[t][Len(stack[t]) - 1])
                  /\ stack[t][Len(stack[t]) - 1].at = "ready"
                  /\ stack[t][Len(stack[t]) - 1].next = Top(t).next - 1
                  /\ ReadyCalled(Top(t).next - 1)
           /\ Top(t).at = "aboutToShutdown" => EndPass(stack[t][Len(stack[t]) - 1])
           /\ Top(t).at = "remoteCommand" =>
                  stack[t][Len(stack[t]) - 1].call = "dispatch"
<1> DEFINE n == Len(stack[t])  low == stack[t][n - 1]
<1>1. n \in 1 .. n /\ Top(t) = stack[t][n]
      BY TopFrame DEF Typed, Skeleton
<1>2. n > 1 /\ MadeBy(low, Top(t))
      BY <1>1 DEF Typed, Skeleton, StackOK, Nested
<1>3. Top(t).next \in DOMAIN loadOrder
      BY <1>1 DEF Typed, Positions, Bounded
<1>4. Top(t).next \in Places /\ Len(loadOrder) \in Nat
      BY <1>3 DEF Typed, Values, Places
<1>5. \A m \in Nat : PassOK(t, n - 1, m)
      BY <1>1, <1>2 DEF Passes, PassesOK
<1>6. n - 1 \in 1 .. n /\ n - 1 < n
      BY <1>1, <1>2
<1>7. Top(t).next + 1 \in Nat /\ Top(t).next - 1 \in Nat
      BY <1>4 DEF Places
<1>8. CASE Top(t).at = "initialize"
  <2>1. low.call = "loadPlugins" /\ low.at = "initialize" /\ low.next = Top(t).next + 1
        BY <1>2, <1>8 DEF MadeBy
  <2>2. InitializeCalled(Top(t).next + 1)
        BY <1>5, <1>6, <1>7, <2>1 DEF PassOK
  <2>3. LoadPass(low)
        BY <2>1 DEF LoadPass, LoaderFrame
  <2> HIDE DEF low
  <2> QED BY <1>4, <1>6, <1>8, <2>1, <2>2, <2>3 DEF low
<1>9. CASE Top(t).at = "pluginsInitialized"
  <2>1. low.call = "loadPlugins" /\ low.at = "ready" /\ low.next = Top(t).next - 1
        BY <1>2, <1>9 DEF MadeBy
  <2>2. ReadyCalled(Top(t).next - 1)
        BY <1>5, <1>6, <1>7, <2>1 DEF PassOK
  <2>3. LoadPass(low)
        BY <2>1 DEF LoadPass, LoaderFrame
  <2> HIDE DEF low
  <2> QED BY <1>4, <1>6, <1>9, <2>1, <2>2, <2>3 DEF low
<1>10. CASE Top(t).at \notin {"initialize", "pluginsInitialized"}
       BY <1>2, <1>4, <1>6, <1>10 DEF MadeBy, EndPass
<1> QED BY <1>8, <1>9, <1>10

\* While there is a pass, all is said by what is said of it.
LEMMA OnePass ==
    ASSUME Skeleton', NEW t \in Threads, NEW i \in 1 .. Len(stack'[t]), Passing(stack'[t][i]),
           \A n \in Nat : PassOK(t, i, n)'
    PROVE  Passes'
<1>1. ASSUME NEW u \in Threads, NEW j \in 1 .. Len(stack'[u]), NEW n \in Nat
      PROVE  PassOK(u, j, n)'
  <2>1. CASE Passing(stack'[u][j])
        BY <2>1 DEF Skeleton, Discipline, Exclusive
  <2>2. CASE ~Passing(stack'[u][j])
        BY <2>2 DEF PassOK, Passing, LoadPass, LoaderFrame, EndPass
  <2> QED BY <2>1, <2>2
<1>2. Between'
      BY DEF Skeleton, Discipline, FramesOK, Between, NoLoadPass, NoEndPass, Passing
<1> QED BY <1>1, <1>2 DEF Passes, PassesOK

\* Steps that do nothing to plugins and passes.
LEMMA KeptPasses ==
    ASSUME Typed, Passes, \A p \in Plugins : Same(p),
           UNCHANGED <<loadOrder, shutdownFinished, loadStarted>>,
           \A u \in Threads : \A j \in 1 .. Len(stack'[u]) : Passing(stack'[u][j]) =>
               /\ j \in 1 .. Len(stack[u]) /\ stack'[u][j] = stack[u][j]
               /\ LoadPass(stack[u][j]) => (j < Len(stack'[u]) <=> j < Len(stack[u])),
           \A u \in Threads : \A j \in 1 .. Len(stack[u]) : Passing(stack[u][j]) =>
               j \in 1 .. Len(stack'[u]) /\ stack'[u][j] = stack[u][j]
    PROVE  Passes'
<1>0. Places' = Places /\ \A k \in Places : loadOrder'[k] = loadOrder[k] /\ loadOrder[k] \in Plugins
      BY DEF Typed, Values, Places
<1>1. \A k \in Places : LET p == loadOrder[k] IN
          /\ Resolved(p) => Resolved(p)'
          /\ Tried(p) => Tried(p)'
          /\ Bad(p) => Bad(p)'
          /\ Initializing(p) => Initializing(p)'
          /\ Initialized(p) => Initialized(p)'
          /\ Readying(p) => Readying(p)'
          /\ Running(p) => Running(p)'
          /\ Told(p) => Told(p)'
          /\ Ended(p) => Ended(p)'
      BY <1>0, SameStage
<1>7. Upward' = Upward /\ Downward' = Downward
      BY DEF Upward, Downward
<1>2. ASSUME NEW n \in Nat
      PROVE  /\ LoadPhase(n) => LoadPhase(n)'
             /\ InitializePhase(n) => InitializePhase(n)'
             /\ InitializeCalled(n) => InitializeCalled(n)'
             /\ ReadyPhase(n) => ReadyPhase(n)'
             /\ ReadyCalled(n) => ReadyCalled(n)'
             /\ NotifyPhase(n) => NotifyPhase(n)'
             /\ UnloadPhase(n) => UnloadPhase(n)'
  <2>1. LoadPhase(n) => LoadPhase(n)'
        BY <1>0, <1>1, <1>7 DEF LoadPhase
  <2>2. InitializePhase(n) => InitializePhase(n)'
        BY <1>0, <1>1, <1>7 DEF InitializePhase
  <2>3. InitializeCalled(n) => InitializeCalled(n)'
        BY <1>0, <1>1, <1>7 DEF InitializeCalled
  <2>4. ReadyPhase(n) => ReadyPhase(n)'
        BY <1>0, <1>1, <1>7 DEF ReadyPhase
  <2>5. ReadyCalled(n) => ReadyCalled(n)'
        BY <1>0, <1>1, <1>7 DEF ReadyCalled
  <2>6. NotifyPhase(n) => NotifyPhase(n)'
        BY <1>0, <1>1, <1>7 DEF NotifyPhase
  <2>7. UnloadPhase(n) => UnloadPhase(n)'
        BY <1>0, <1>1, <1>7 DEF UnloadPhase
  <2> QED BY <2>1, <2>2, <2>3, <2>4, <2>5, <2>6, <2>7
<1>3. (Settled => Settled') /\ (Over => Over')
      BY <1>0, <1>1 DEF Settled, Over
<1>4. ASSUME NEW u \in Threads, NEW j \in 1 .. Len(stack'[u]), NEW n \in Nat
      PROVE  PassOK(u, j, n)'
  <2>1. CASE Passing(stack'[u][j])
    <3>1. PassOK(u, j, n)
          BY <2>1 DEF Passes, PassesOK
    <3>2. /\ stack'[u][j] = stack[u][j]
          /\ LoadPass(stack[u][j]) => (j < Len(stack'[u]) <=> j < Len(stack[u]))
          BY <2>1
    <3> QED BY <1>2, <3>1, <3>2 DEF PassOK, LoadPass, LoaderFrame
  <2>2. CASE ~Passing(stack'[u][j])
        BY <2>2 DEF PassOK, Passing, LoadPass, LoaderFrame, EndPass
  <2> QED BY <2>1, <2>2
<1>5. (NoLoadPass' => NoLoadPass) /\ (NoEndPass' => NoEndPass)
      BY DEF NoLoadPass, NoEndPass, Passing
<1>6. Between'
      BY <1>3, <1>5 DEF Passes, Between
<1> QED BY <1>4, <1>6 DEF Passes, PassesOK

\* The providers of a listed plugin come earlier, its dependents later.
LEMMA ProviderEarlier ==
    ASSUME Typed, Ordering, NEW i \in Places, NEW d \in required[loadOrder[i]]
    PROVE  d \in Plugins /\ \E j \in Places : j < i /\ loadOrder[j] = d
<1>1. Len(loadOrder) \in Nat /\ loadOrder[i] \in Plugins
      BY DEF Typed, Values, Places
<1>2. PICK j \in 1 .. i - 1 : loadOrder[j] = d
      BY DEF Ordering
<1>3. j \in Places /\ j < i
      BY <1>1 DEF Places
<1>4. d \in Plugins
      BY <1>1 DEF Typed, Values
<1> QED BY <1>2, <1>3, <1>4

LEMMA DependentLater ==
    ASSUME Typed, Ordering, Unlisted, NEW i \in Places, NEW q \in Plugins,
           loadOrder[i] \in required[q]
    PROVE  Fresh(q) \/ \E j \in Places : j > i /\ loadOrder[j] = q
<1>1. SUFFICES ASSUME ~Fresh(q) PROVE \E j \in Places : j > i /\ loadOrder[j] = q
      OBVIOUS
<1>2. PICK j \in Places : loadOrder[j] = q
      BY <1>1 DEF Unlisted
<1>3. PICK h \in Places : h < j /\ loadOrder[h] = loadOrder[i]
      BY <1>2, ProviderEarlier
<1>4. h = i
      BY <1>3 DEF Ordering
<1> QED BY <1>2, <1>3, <1>4 DEF Places

\* A loop of a pass goes on, calls, or is returned to.
LEMMA GotoPasses ==
    ASSUME Typed, Skeleton', NEW t \in Threads, stack[t] # <<>>,
           NEW at, NEW next \in Nat, Goto(t, at, next),
           \/ Top(t).call = "loadPlugins" /\ at = "resolve"
           \/ Top(t).call = "loadPlugins" /\ at = "load" /\ LoadPhase(next)'
           \/ Top(t).call = "loadPlugins" /\ at = "initialize" /\ InitializePhase(next)'
           \/ Top(t).call = "loadPlugins" /\ at = "ready" /\ ReadyPhase(next)'
           \/ Top(t).call = "shutdownPlugins" /\ at = "notify" /\ NotifyPhase(next)'
           \/ Top(t).call = "shutdownPlugins" /\ at = "unload" /\ UnloadPhase(next)'
    PROVE  Passes'
<1> DEFINE g == [Top(t) EXCEPT !.at = at, !.next = next]
<1>0. PICK n \in Nat \ {0} : n = Len(stack[t])
      BY TopFrame DEF Typed, Skeleton
<1>1. Top(t) \in Frame /\ stack \in Stacks
      BY TopFrame DEF Typed, Skeleton
<1>2. g \in Frame /\ g.call = Top(t).call /\ g.at = at /\ g.next = next
      BY <1>1 DEF Frame, Callbacks
<1>3. /\ stack' \in Stacks
      /\ Len(stack'[t]) = Len(stack[t])
      /\ \A i \in 1 .. Len(stack[t]) - 1 : stack'[t][i] = stack[t][i]
      /\ stack'[t][Len(stack[t])] = g
      /\ \A u \in Threads \ {t} : stack'[u] = stack[u]
      BY <1>1, <1>2, GotoStack
<1> HIDE DEF g
<1>4. n \in 1 .. Len(stack'[t]) /\ ~(n < Len(stack'[t])) /\ stack'[t][n] = g
      BY <1>0, <1>3
<1>5. Passing(g)
      BY <1>2 DEF Passing, LoadPass, LoaderFrame, EndPass
<1>6. ASSUME NEW m \in Nat PROVE PassOK(t, n, m)'
      BY <1>2, <1>4 DEF PassOK
<1> QED BY <1>4, <1>5, <1>6, OnePass

LEMMA CallBackPasses ==
    ASSUME Typed, Skeleton', NEW t \in Threads, stack[t] # <<>>,
           NEW at \in Callbacks, NEW next \in Nat, CallBack(t, at, next),
           \/ At(t, "loadPlugins", "initialize") /\ InitializeCalled(next)'
           \/ At(t, "loadPlugins", "ready") /\ ReadyCalled(next)'
           \/ At(t, "shutdownPlugins", "notify") /\ NotifyPhase(next)'
    PROVE  Passes'
<1> DEFINE g == [Top(t) EXCEPT !.next = next]
           f == [call |-> "callback", at |-> at, next |-> Called(t, next),
                 command |-> Top(t).command]
<1>0. PICK n \in Nat \ {0} : n = Len(stack[t])
      BY TopFrame DEF Typed, Skeleton
<1>1. Top(t) \in Frame /\ stack \in Stacks
      BY TopFrame DEF Typed, Skeleton
<1>2. g.call = Top(t).call /\ g.at = Top(t).at /\ g.next = next
      BY <1>1 DEF Frame
<1>3. f \in Frame
      BY <1>1 DEF Frame, Called, Callbacks
<1>4. PushFromLoop(t, next, f)
      BY DEF CallBack
<1> HIDE DEF f
<1>5. /\ stack' \in Stacks
      /\ Len(stack'[t]) = Len(stack[t]) + 1
      /\ \A i \in 1 .. Len(stack[t]) - 1 : stack'[t][i] = stack[t][i]
      /\ stack'[t][Len(stack[t])] = g
      /\ stack'[t][Len(stack[t]) + 1] = f
      /\ \A u \in Threads \ {t} : stack'[u] = stack[u]
      BY <1>1, <1>3, <1>4, PushFromLoopStack
<1> HIDE DEF g
<1>6. n \in 1 .. Len(stack'[t]) /\ n < Len(stack'[t]) /\ stack'[t][n] = g
      BY <1>0, <1>5
<1>7. Passing(g)
      BY <1>2 DEF Passing, LoadPass, LoaderFrame, EndPass, At
<1>8. ASSUME NEW m \in Nat PROVE PassOK(t, n, m)'
      BY <1>2, <1>6 DEF PassOK, At
<1> QED BY <1>6, <1>7, <1>8, OnePass

LEMMA ReturnPasses ==
    ASSUME Typed, Passes, Skeleton', NEW t \in Threads, stack[t] # <<>>,
           Top(t).call = "callback", NEW next \in Nat, Return(t),
           \/ Top(t).at = "initialize" /\ next = Top(t).next + 1 /\ InitializePhase(next)'
           \/ Top(t).at = "pluginsInitialized" /\ next = Top(t).next - 1 /\ ReadyPhase(next)'
    PROVE  Passes'
<1>1. stack \in Stacks
      BY DEF Typed, Skeleton
<1>0. PICK n \in 1 .. Len(stack[t]) : n = Len(stack[t]) - 1
      BY UnderTop
<1>2. /\ stack' \in Stacks
      /\ Len(stack[t]) \in Nat \ {0}
      /\ Len(stack'[t]) = Len(stack[t]) - 1
      /\ \A i \in 1 .. Len(stack[t]) - 1 : stack'[t][i] = stack[t][i]
      /\ \A u \in Threads \ {t} : stack'[u] = stack[u]
      BY <1>1, ReturnStack
<1>3. n \in 1 .. Len(stack[t]) /\ LoadPass(stack[t][n])
      /\ stack[t][n].next = next
      /\ \/ stack[t][n].at = "initialize" /\ InitializePhase(next)'
         \/ stack[t][n].at = "ready" /\ ReadyPhase(next)'
      BY <1>0, UnderTop
<1>4. n \in 1 .. Len(stack'[t]) /\ ~(n < Len(stack'[t])) /\ stack'[t][n] = stack[t][n]
      BY <1>0, <1>2, <1>3
<1>5. ASSUME NEW m \in Nat PROVE PassOK(t, n, m)'
      BY <1>3, <1>4 DEF PassOK, LoadPass, LoaderFrame
<1>6. Passing(stack'[t][n])
      BY <1>3, <1>4 DEF Passing
<1> QED BY <1>4, <1>5, <1>6, OnePass

\* Only the plugin at position i of loadOrder is concerned.
OnlyAt(i) == \A q \in Plugins : q # loadOrder[i] => Same(q)

LEMMA OthersSame ==
    ASSUME Typed, Ordering, NEW i \in Places, OnlyAt(i), UNCHANGED loadOrder
    PROVE  /\ Places' = Places
           /\ \A k \in Places : loadOrder'[k] = loadOrder[k] /\ loadOrder[k] \in Plugins
           /\ \A k \in Places : k # i => LET p == loadOrder[k] IN
                  /\ Resolved(p) => Resolved(p)'
                  /\ Tried(p) => Tried(p)'
                  /\ Bad(p) => Bad(p)'
                  /\ Initialized(p) => Initialized(p)'
                  /\ Running(p) => Running(p)'
                  /\ Told(p) => Told(p)'
                  /\ Ended(p) => Ended(p)'
<1>1. Places' = Places
      BY DEF Places
<1>2. \A k \in Places : loadOrder'[k] = loadOrder[k] /\ loadOrder[k] \in Plugins
      BY DEF Typed, Values, Places
<1>3. \A k \in Places : k # i => Same(loadOrder[k])
      BY <1>2 DEF OnlyAt, Ordering
<1> QED BY <1>1, <1>2, <1>3, SameStage

\* Listed plugins are the only ones that are concerned.
LEMMA UnlistedKept ==
    ASSUME Typed, Unlisted, NEW i \in Places, OnlyAt(i), UNCHANGED loadOrder
    PROVE  Unlisted'
<1>1. Places' = Places
      BY DEF Places
<1>2. ASSUME NEW p \in Plugins PROVE (Fresh(p) \/ \E k \in Places : loadOrder[k] = p)'
  <2>1. CASE p = loadOrder[i]
        BY <1>1, <2>1
  <2>2. CASE p # loadOrder[i]
        BY <1>1, <2>2, SameStage DEF OnlyAt, Unlisted
  <2> QED BY <2>1, <2>2
<1> QED BY <1>2 DEF Unlisted

\* Before shutdown, a step of one plugin that does not end or fail what runs.
LEMMA ReasonsKept ==
    ASSUME Typed, Ordering, Reasons, NEW i \in Places, OnlyAt(i), UNCHANGED <<required, shutdownFinished>>,
           ~shutdownFinished =>
               LET p == loadOrder[i] IN
               /\ error[p] # "none" => error'[p] # "none"
               /\ state[p] \in {"Initialized", "Running"} /\ error[p] = "none" =>
                      state'[p] \in {"Initialized", "Running"} /\ error'[p] = "none"
               /\ calls'[p] # <<>> /\ error'[p] = "none" =>
                      \/ calls[p] # <<>> /\ error[p] = "none"
                      \/ \A d \in required[p] :
                             state[d] \in {"Initialized", "Running"} /\ error[d] = "none"
               /\ error'[p] = "dependency" =>
                      error[p] = "dependency" \/ \E d \in required[p] : error[d] # "none"
    PROVE  Reasons'
<1> SUFFICES ASSUME ~shutdownFinished, NEW q \in Plugins
             PROVE  (CalledBecause(q) /\ Blamed(q))'
    BY DEF Reasons
<1>0. required[q] \subseteq Plugins /\ required' = required /\ loadOrder[i] \in Plugins
      BY DEF Typed, Values, Places
<1>1. \A d \in Plugins :
          /\ error[d] # "none" => error'[d] # "none"
          /\ state[d] \in {"Initialized", "Running"} /\ error[d] = "none" =>
                 state'[d] \in {"Initialized", "Running"} /\ error'[d] = "none"
          /\ calls'[d] # <<>> /\ error'[d] = "none" =>
                 \/ calls[d] # <<>> /\ error[d] = "none"
                 \/ \A e \in required[d] :
                        state[e] \in {"Initialized", "Running"} /\ error[e] = "none"
          /\ error'[d] = "dependency" =>
                 error[d] = "dependency" \/ \E e \in required[d] : error[e] # "none"
  <2> TAKE d \in Plugins
  <2>1. CASE d = loadOrder[i]
        BY <2>1
  <2>2. CASE d # loadOrder[i]
        BY <2>2 DEF OnlyAt, Same
  <2> QED BY <2>1, <2>2
<1>2. CalledBecause(q) /\ Blamed(q)
      BY DEF Reasons
<1>3. calls'[q] # <<>> /\ error'[q] = "none" =>
          \A d \in required[q] : state[d] \in {"Initialized", "Running"} /\ error[d] = "none"
      BY <1>1, <1>2 DEF CalledBecause
<1>4. CalledBecause(q)'
      BY <1>0, <1>1, <1>3 DEF CalledBecause
<1>5. error'[q] = "dependency" => \E d \in required[q] : error[d] # "none"
      BY <1>1, <1>2 DEF Blamed
<1>6. Blamed(q)'
      BY <1>0, <1>1, <1>5 DEF Blamed
<1> QED BY <1>4, <1>6

-----------------------------------------------------------------------------
(* How each pass comes from a place to the next, once its plugin is done.  *)

LEMMA LoadAdvances ==
    ASSUME Typed, Ordering, NEW i \in Places, OnlyAt(i), UNCHANGED loadOrder,
           LoadPhase(i), Tried(loadOrder[i])'
    PROVE  LoadPhase(i + 1)'
<1>1. /\ Places' = Places
      /\ \A k \in Places : loadOrder'[k] = loadOrder[k] /\ loadOrder[k] \in Plugins
      /\ \A k \in Places : k # i => LET p == loadOrder[k] IN
             /\ Resolved(p) => Resolved(p)'
             /\ Tried(p) => Tried(p)'
             /\ Bad(p) => Bad(p)'
             /\ Initialized(p) => Initialized(p)'
             /\ Running(p) => Running(p)'
             /\ Told(p) => Told(p)'
             /\ Ended(p) => Ended(p)'
      BY OthersSame
<1>2. i \in Nat /\ Places \subseteq Nat
      BY DEF Places
<1>3. ASSUME NEW k \in Places
      PROVE  IF k < i + 1 THEN Tried(loadOrder[k])' ELSE Resolved(loadOrder[k])'
  <2>1. k \in Nat
        BY <1>2
  <2>2. CASE k = i
        BY <1>2, <2>2
  <2>3. CASE k < i
        BY <1>1, <1>2, <2>1, <2>3 DEF LoadPhase
  <2>4. CASE k > i
        BY <1>1, <1>2, <2>1, <2>4 DEF LoadPhase
  <2> QED BY <1>2, <2>1, <2>2, <2>3, <2>4
<1>4. i + 1 \in Upward'
      BY <1>1 DEF Places, Upward
<1> QED BY <1>1, <1>3, <1>4 DEF LoadPhase

LEMMA InitializeAdvances ==
    ASSUME Typed, Ordering, NEW i \in Places, OnlyAt(i), UNCHANGED loadOrder,
           InitializePhase(i), Bad(loadOrder[i])'
    PROVE  InitializePhase(i + 1)'
<1>1. /\ Places' = Places
      /\ \A k \in Places : loadOrder'[k] = loadOrder[k] /\ loadOrder[k] \in Plugins
      /\ \A k \in Places : k # i => LET p == loadOrder[k] IN
             /\ Resolved(p) => Resolved(p)'
             /\ Tried(p) => Tried(p)'
             /\ Bad(p) => Bad(p)'
             /\ Initialized(p) => Initialized(p)'
             /\ Running(p) => Running(p)'
             /\ Told(p) => Told(p)'
             /\ Ended(p) => Ended(p)'
      BY OthersSame
<1>2. i \in Nat /\ Places \subseteq Nat
      BY DEF Places
<1>3. ASSUME NEW k \in Places
      PROVE  IF k < i + 1 THEN Initialized(loadOrder[k])' \/ Bad(loadOrder[k])' ELSE Tried(loadOrder[k])'
  <2>1. k \in Nat
        BY <1>2
  <2>2. CASE k = i
        BY <1>2, <2>2
  <2>3. CASE k < i
        BY <1>1, <1>2, <2>1, <2>3 DEF InitializePhase
  <2>4. CASE k > i
        BY <1>1, <1>2, <2>1, <2>4 DEF InitializePhase
  <2> QED BY <1>2, <2>1, <2>2, <2>3, <2>4
<1>4. i + 1 \in Upward'
      BY <1>1 DEF Places, Upward
<1> QED BY <1>1, <1>3, <1>4 DEF InitializePhase

LEMMA InitializeCalls ==
    ASSUME Typed, Ordering, NEW i \in Places, OnlyAt(i), UNCHANGED loadOrder,
           InitializePhase(i), Initializing(loadOrder[i])'
    PROVE  InitializeCalled(i + 1)'
<1>1. /\ Places' = Places
      /\ \A k \in Places : loadOrder'[k] = loadOrder[k] /\ loadOrder[k] \in Plugins
      /\ \A k \in Places : k # i => LET p == loadOrder[k] IN
             /\ Resolved(p) => Resolved(p)'
             /\ Tried(p) => Tried(p)'
             /\ Bad(p) => Bad(p)'
             /\ Initialized(p) => Initialized(p)'
             /\ Running(p) => Running(p)'
             /\ Told(p) => Told(p)'
             /\ Ended(p) => Ended(p)'
      BY OthersSame
<1>2. i \in Nat /\ Places \subseteq Nat
      BY DEF Places
<1>3. ASSUME NEW k \in Places
      PROVE  /\ k < i => Initialized(loadOrder[k])' \/ Bad(loadOrder[k])'
             /\ k = i => Initializing(loadOrder[k])'
             /\ k >= i + 1 => Tried(loadOrder[k])'
  <2>1. k \in Nat
        BY <1>2
  <2>2. CASE k = i
        BY <1>2, <2>2
  <2>3. CASE k < i
        BY <1>1, <1>2, <2>1, <2>3 DEF InitializePhase
  <2>4. CASE k > i
        BY <1>1, <1>2, <2>1, <2>4 DEF InitializePhase
  <2> QED BY <1>2, <2>1, <2>2, <2>3, <2>4
<1>4. PICK n \in Nat : n = i + 1
      BY <1>2
<1>5. InitializeCalled(n)'
  <2>1. n - 1 = i /\ n \in Upward'
        BY <1>1, <1>2, <1>4 DEF Places, Upward
  <2> QED BY <1>1, <1>3, <1>4, <2>1 DEF InitializeCalled
<1> QED BY <1>4, <1>5

LEMMA InitializeReturns ==
    ASSUME Typed, Ordering, NEW i \in Places, OnlyAt(i), UNCHANGED loadOrder,
           InitializeCalled(i + 1), Initialized(loadOrder[i])' \/ Bad(loadOrder[i])'
    PROVE  InitializePhase(i + 1)'
<1>1. /\ Places' = Places
      /\ \A k \in Places : loadOrder'[k] = loadOrder[k] /\ loadOrder[k] \in Plugins
      /\ \A k \in Places : k # i => LET p == loadOrder[k] IN
             /\ Resolved(p) => Resolved(p)'
             /\ Tried(p) => Tried(p)'
             /\ Bad(p) => Bad(p)'
             /\ Initialized(p) => Initialized(p)'
             /\ Running(p) => Running(p)'
             /\ Told(p) => Told(p)'
             /\ Ended(p) => Ended(p)'
      BY OthersSame
<1>2. i \in Nat /\ Places \subseteq Nat
      BY DEF Places
<1>3. ASSUME NEW k \in Places
      PROVE  IF k < i + 1 THEN Initialized(loadOrder[k])' \/ Bad(loadOrder[k])' ELSE Tried(loadOrder[k])'
  <2>1. k \in Nat
        BY <1>2
  <2>2. CASE k = i
        BY <1>2, <2>2
  <2>3. CASE k < i
        BY <1>1, <1>2, <2>1, <2>3 DEF InitializeCalled
  <2>4. CASE k > i
        BY <1>1, <1>2, <2>1, <2>4 DEF InitializeCalled
  <2> QED BY <1>2, <2>1, <2>2, <2>3, <2>4
<1>4. i + 1 \in Upward'
      BY <1>1 DEF Places, Upward
<1> QED BY <1>1, <1>3, <1>4 DEF InitializePhase

LEMMA ReadyAdvances ==
    ASSUME Typed, Ordering, NEW i \in Places, OnlyAt(i), UNCHANGED loadOrder,
           ReadyPhase(i), Bad(loadOrder[i])'
    PROVE  ReadyPhase(i - 1)'
<1>1. /\ Places' = Places
      /\ \A k \in Places : loadOrder'[k] = loadOrder[k] /\ loadOrder[k] \in Plugins
      /\ \A k \in Places : k # i => LET p == loadOrder[k] IN
             /\ Resolved(p) => Resolved(p)'
             /\ Tried(p) => Tried(p)'
             /\ Bad(p) => Bad(p)'
             /\ Initialized(p) => Initialized(p)'
             /\ Running(p) => Running(p)'
             /\ Told(p) => Told(p)'
             /\ Ended(p) => Ended(p)'
      BY OthersSame
<1>2. i \in Nat /\ Places \subseteq Nat
      BY DEF Places
<1>3. ASSUME NEW k \in Places
      PROVE  IF k > i - 1 THEN Running(loadOrder[k])' \/ Bad(loadOrder[k])' ELSE Initialized(loadOrder[k])' \/ Bad(loadOrder[k])'
  <2>1. k \in Nat
        BY <1>2
  <2>2. CASE k = i
        BY <1>2, <2>2
  <2>3. CASE k < i
        BY <1>1, <1>2, <2>1, <2>3 DEF ReadyPhase
  <2>4. CASE k > i
        BY <1>1, <1>2, <2>1, <2>4 DEF ReadyPhase
  <2> QED BY <1>2, <2>1, <2>2, <2>3, <2>4
<1>4. i - 1 \in Downward'
      BY <1>1 DEF Places, Downward
<1> QED BY <1>1, <1>3, <1>4 DEF ReadyPhase

LEMMA ReadyCalls ==
    ASSUME Typed, Ordering, NEW i \in Places, OnlyAt(i), UNCHANGED loadOrder,
           ReadyPhase(i), Readying(loadOrder[i])'
    PROVE  ReadyCalled(i - 1)'
<1>1. /\ Places' = Places
      /\ \A k \in Places : loadOrder'[k] = loadOrder[k] /\ loadOrder[k] \in Plugins
      /\ \A k \in Places : k # i => LET p == loadOrder[k] IN
             /\ Resolved(p) => Resolved(p)'
             /\ Tried(p) => Tried(p)'
             /\ Bad(p) => Bad(p)'
             /\ Initialized(p) => Initialized(p)'
             /\ Running(p) => Running(p)'
             /\ Told(p) => Told(p)'
             /\ Ended(p) => Ended(p)'
      BY OthersSame
<1>2. i \in Nat /\ Places \subseteq Nat
      BY DEF Places
<1>3. ASSUME NEW k \in Places
      PROVE  /\ k > i - 1 + 1 => Running(loadOrder[k])' \/ Bad(loadOrder[k])'
             /\ k = i - 1 + 1 => Readying(loadOrder[k])'
             /\ k <= i - 1 => Initialized(loadOrder[k])' \/ Bad(loadOrder[k])'
  <2>1. k \in Nat
        BY <1>2
  <2>2. CASE k = i
        BY <1>2, <2>2
  <2>3. CASE k < i
        BY <1>1, <1>2, <2>1, <2>3 DEF ReadyPhase
  <2>4. CASE k > i
        BY <1>1, <1>2, <2>1, <2>4 DEF ReadyPhase
  <2> QED BY <1>2, <2>1, <2>2, <2>3, <2>4
<1>4. i - 1 \in Downward'
      BY <1>1 DEF Places, Downward
<1> QED BY <1>1, <1>3, <1>4 DEF ReadyCalled

LEMMA ReadyReturns ==
    ASSUME Typed, Ordering, NEW i \in Places, OnlyAt(i), UNCHANGED loadOrder,
           ReadyCalled(i - 1), Running(loadOrder[i])'
    PROVE  ReadyPhase(i - 1)'
<1>1. /\ Places' = Places
      /\ \A k \in Places : loadOrder'[k] = loadOrder[k] /\ loadOrder[k] \in Plugins
      /\ \A k \in Places : k # i => LET p == loadOrder[k] IN
             /\ Resolved(p) => Resolved(p)'
             /\ Tried(p) => Tried(p)'
             /\ Bad(p) => Bad(p)'
             /\ Initialized(p) => Initialized(p)'
             /\ Running(p) => Running(p)'
             /\ Told(p) => Told(p)'
             /\ Ended(p) => Ended(p)'
      BY OthersSame
<1>2. i \in Nat /\ Places \subseteq Nat
      BY DEF Places
<1>3. ASSUME NEW k \in Places
      PROVE  IF k > i - 1 THEN Running(loadOrder[k])' \/ Bad(loadOrder[k])' ELSE Initialized(loadOrder[k])' \/ Bad(loadOrder[k])'
  <2>1. k \in Nat
        BY <1>2
  <2>2. CASE k = i
        BY <1>2, <2>2
  <2>3. CASE k < i
        BY <1>1, <1>2, <2>1, <2>3 DEF ReadyCalled
  <2>4. CASE k > i
        BY <1>1, <1>2, <2>1, <2>4 DEF ReadyCalled
  <2> QED BY <1>2, <2>1, <2>2, <2>3, <2>4
<1>4. i - 1 \in Downward'
      BY <1>1 DEF Places, Downward
<1> QED BY <1>1, <1>3, <1>4 DEF ReadyPhase

LEMMA NotifyAdvances ==
    ASSUME Typed, Ordering, NEW i \in Places, OnlyAt(i), UNCHANGED loadOrder,
           NotifyPhase(i), Told(loadOrder[i])' \/ Bad(loadOrder[i])'
    PROVE  NotifyPhase(i - 1)'
<1>1. /\ Places' = Places
      /\ \A k \in Places : loadOrder'[k] = loadOrder[k] /\ loadOrder[k] \in Plugins
      /\ \A k \in Places : k # i => LET p == loadOrder[k] IN
             /\ Resolved(p) => Resolved(p)'
             /\ Tried(p) => Tried(p)'
             /\ Bad(p) => Bad(p)'
             /\ Initialized(p) => Initialized(p)'
             /\ Running(p) => Running(p)'
             /\ Told(p) => Told(p)'
             /\ Ended(p) => Ended(p)'
      BY OthersSame
<1>2. i \in Nat /\ Places \subseteq Nat
      BY DEF Places
<1>3. ASSUME NEW k \in Places
      PROVE  IF k > i - 1 THEN Told(loadOrder[k])' \/ Bad(loadOrder[k])' ELSE Running(loadOrder[k])' \/ Bad(loadOrder[k])'
  <2>1. k \in Nat
        BY <1>2
  <2>2. CASE k = i
        BY <1>2, <2>2
  <2>3. CASE k < i
        BY <1>1, <1>2, <2>1, <2>3 DEF NotifyPhase
  <2>4. CASE k > i
        BY <1>1, <1>2, <2>1, <2>4 DEF NotifyPhase
  <2> QED BY <1>2, <2>1, <2>2, <2>3, <2>4
<1>4. i - 1 \in Downward'
      BY <1>1 DEF Places, Downward
<1> QED BY <1>1, <1>3, <1>4 DEF NotifyPhase

LEMMA UnloadAdvances ==
    ASSUME Typed, Ordering, NEW i \in Places, OnlyAt(i), UNCHANGED loadOrder,
           UnloadPhase(i), Ended(loadOrder[i])'
    PROVE  UnloadPhase(i - 1)'
<1>1. /\ Places' = Places
      /\ \A k \in Places : loadOrder'[k] = loadOrder[k] /\ loadOrder[k] \in Plugins
      /\ \A k \in Places : k # i => LET p == loadOrder[k] IN
             /\ Resolved(p) => Resolved(p)'
             /\ Tried(p) => Tried(p)'
             /\ Bad(p) => Bad(p)'
             /\ Initialized(p) => Initialized(p)'
             /\ Running(p) => Running(p)'
             /\ Told(p) => Told(p)'
             /\ Ended(p) => Ended(p)'
      BY OthersSame
<1>2. i \in Nat /\ Places \subseteq Nat
      BY DEF Places
<1>3. ASSUME NEW k \in Places
      PROVE  IF k > i - 1 THEN Ended(loadOrder[k])' ELSE Told(loadOrder[k])' \/ Bad(loadOrder[k])'
  <2>1. k \in Nat
        BY <1>2
  <2>2. CASE k = i
        BY <1>2, <2>2
  <2>3. CASE k < i
        BY <1>1, <1>2, <2>1, <2>3 DEF UnloadPhase
  <2>4. CASE k > i
        BY <1>1, <1>2, <2>1, <2>4 DEF UnloadPhase
  <2> QED BY <1>2, <2>1, <2>2, <2>3, <2>4
<1>4. i - 1 \in Downward'
      BY <1>1 DEF Places, Downward
<1> QED BY <1>1, <1>3, <1>4 DEF UnloadPhase

-----------------------------------------------------------------------------
(* The load pass.                                                          *)

\* The place a loop has come to.
LEMMA LoopAt ==
    ASSUME Typed, NEW t \in Threads, stack[t] # <<>>, InOrder(t)
    PROVE  /\ Top(t).next \in Places /\ Len(loadOrder) \in Nat
           /\ Current(t) = loadOrder[Top(t).next] /\ Current(t) \in Plugins
BY DEF Typed, Values, InOrder, Current, Places

LEMMA LoadEffect ==
    ASSUME Lively, NEW t \in Threads, LoadStep(t), NEW i \in Places, i = Top(t).next
    PROVE  /\ OnlyAt(i) /\ LoadPhase(i) /\ Resolved(loadOrder[i])
           /\ \/ Rejected(loadOrder[i])'
              \/ /\ Unusable(loadOrder[i])' \/ Loaded(loadOrder[i])'
                 /\ \A d \in required[loadOrder[i]] : Loaded(d)
           /\ error'[loadOrder[i]] = "dependency" =>
                  \E d \in required[loadOrder[i]] : error[d] # "none"
           /\ UNCHANGED <<loadOrder, required, shutdownFinished, calls>>
<1> DEFINE p == loadOrder[i]
<1>0. stack[t] # <<>> /\ InOrder(t) /\ Top(t).call = "loadPlugins" /\ Top(t).at = "load"
      BY DEF LoadStep, At
<1>1. p \in Plugins /\ Current(t) = p /\ Typed /\ Ordering
      BY <1>0, LoopAt DEF Lively
<1>2. LoadPhase(i)
      BY <1>0, TopPass DEF Lively
<1>3. Resolved(p)
      BY <1>2 DEF LoadPhase, Places
<1>4. UNCHANGED <<loadOrder, required, shutdownFinished, calls, loadOrder[i]>>
      BY DEF LoadStep, flags, resolution
<1>5. /\ state \in [Plugins -> States] /\ error \in [Plugins -> Errors]
      /\ mapped \in [Plugins -> BOOLEAN]
      BY <1>1 DEF Typed, Values
<1>6. \A d \in required[p] : Tried(d)
  <2> TAKE d \in required[p]
  <2>1. PICK j \in Places : j < i /\ loadOrder[j] = d
        BY <1>1, ProviderEarlier
  <2> QED BY <1>2, <2>1 DEF LoadPhase
<1>7. \/ ~LoadAllowed(p) /\ ReportError(p, "dependency") /\ UNCHANGED <<state, mapped>>
      \/ LoadAllowed(p) /\ ReportError(p, "load") /\ UNCHANGED <<state, mapped>>
      \/ /\ LoadAllowed(p) /\ ReportError(p, "type")
         /\ mapped' = [mapped EXCEPT ![p] = TRUE] /\ UNCHANGED state
      \/ /\ LoadAllowed(p) /\ SetState(p, "Loaded")
         /\ mapped' = [mapped EXCEPT ![p] = TRUE] /\ UNCHANGED error
      BY <1>1 DEF LoadStep
<1>8. LoadAllowed(p) => \A d \in required[p] : Loaded(d)
      BY <1>6 DEF LoadAllowed, RequiredAtState, Tried, Loaded, Rejected, Unusable
<1>9. ~LoadAllowed(p) => \E d \in required[p] : error[d] # "none"
      BY <1>6 DEF LoadAllowed, RequiredAtState, Tried, Loaded, Rejected, Unusable
<1>10. loadOrder'[i] = p
       BY <1>4
<1>11. \A q \in Plugins : q # p => Same(q)
       BY <1>1, <1>4, <1>5, <1>7 DEF Same, ReportError, SetState
<1> HIDE DEF p
<1>12. Rejected(p)' \/ (LoadAllowed(p) /\ (Unusable(p)' \/ Loaded(p)'))
       BY <1>1, <1>3, <1>4, <1>5, <1>7
          DEF Resolved, Fresh, Rejected, Unusable, Loaded, ReportError, SetState, p
<1>13. error'[p] = "dependency" => ~LoadAllowed(p)
       BY <1>1, <1>3, <1>5, <1>7 DEF ReportError, Resolved, Fresh
<1> QED BY <1>2, <1>3, <1>4, <1>8, <1>9, <1>11, <1>12, <1>13 DEF OnlyAt, p

LEMMA LoadStepLively ==
    ASSUME Lively, Skeleton', NEW t \in Threads, LoadStep(t)
    PROVE  Unlisted' /\ Passes' /\ Reasons'
<1>0. stack[t] # <<>> /\ InOrder(t) /\ Top(t).call = "loadPlugins" /\ Typed /\ Ordering
      BY DEF LoadStep, At, Lively
<1>1. PICK i \in Places : i = Top(t).next
      BY <1>0, LoopAt
<1>2. /\ OnlyAt(i) /\ LoadPhase(i) /\ Resolved(loadOrder[i])
      /\ \/ Rejected(loadOrder[i])'
         \/ /\ Unusable(loadOrder[i])' \/ Loaded(loadOrder[i])'
            /\ \A d \in required[loadOrder[i]] : Loaded(d)
      /\ error'[loadOrder[i]] = "dependency" =>
             \E d \in required[loadOrder[i]] : error[d] # "none"
      /\ UNCHANGED <<loadOrder, required, shutdownFinished, calls>>
      BY <1>1, LoadEffect
<1>3. Tried(loadOrder[i])'
      BY <1>2 DEF Tried
<1>4. i + 1 \in Nat /\ i \in Nat /\ Places \subseteq Nat
      BY DEF Places
<1>5. LoadPhase(i + 1)'
      BY <1>0, <1>2, <1>3, LoadAdvances
<1>6. Goto(t, "load", i + 1)
      BY <1>1 DEF LoadStep
<1>7. Passes'
      BY <1>0, <1>4, <1>5, <1>6, GotoPasses
<1>8. Unlisted'
      BY <1>0, <1>2, UnlistedKept DEF Lively
<1>9. Reasons'
      BY <1>0, <1>2, ReasonsKept DEF Lively, Resolved, Fresh
<1> QED BY <1>7, <1>8, <1>9

-----------------------------------------------------------------------------
(* The initialization pass.                                                *)

\* A callback becomes the last one of its plugin.
LEMMA CallBackCalls ==
    ASSUME Typed, NEW t \in Threads, stack[t] # <<>>, InOrder(t), NEW at \in Callbacks, NEW next,
           CallBack(t, at, next)
    PROVE  /\ calls'[Current(t)] # <<>>
           /\ Len(calls[Current(t)]) \in Nat
           /\ Len(calls'[Current(t)]) = Len(calls[Current(t)]) + 1
           /\ Last(calls'[Current(t)]).at = at
           /\ \A q \in Plugins : q # Current(t) => calls'[q] = calls[q]
<1> DEFINE p == Current(t)  c == [at |-> at, command |-> Top(t).command]
<1>1. p \in Plugins
      BY LoopAt
<1>2. Top(t).command \in Nat
      BY TopFrame DEF Typed, Skeleton, Frame
<1>3. calls[p] \in Seq(Given) /\ c \in Given
      BY <1>1, <1>2 DEF Typed, Values, Given
<1>4. calls' = [calls EXCEPT ![p] = Append(@, c)]
      BY DEF CallBack
<1>5. calls \in [Plugins -> Seq(Given)]
      BY DEF Typed, Values
<1>6. c.at = at
      OBVIOUS
<1> HIDE DEF p, c
<1>7. calls'[p] = Append(calls[p], c) /\ \A q \in Plugins : q # p => calls'[q] = calls[q]
      BY <1>1, <1>4, <1>5
<1>8. /\ Len(Append(calls[p], c)) = Len(calls[p]) + 1 /\ Len(calls[p]) \in Nat
      /\ Append(calls[p], c)[Len(calls[p]) + 1] = c /\ Append(calls[p], c) # <<>>
      BY <1>3
<1>9. Last(calls'[p]) = c
      BY <1>7, <1>8 DEF Last
<1> QED BY <1>6, <1>7, <1>8, <1>9 DEF p

LEMMA InitializeEffect ==
    ASSUME Lively, NEW t \in Threads, InitializeStep(t), NEW i \in Places, i = Top(t).next
    PROVE  /\ OnlyAt(i) /\ InitializePhase(i)
           /\ \/ Goto(t, "initialize", i + 1) /\ Same(loadOrder[i]) /\ Bad(loadOrder[i])
              \/ /\ Goto(t, "initialize", i + 1) /\ Loaded(loadOrder[i]) /\ Skipped(loadOrder[i])'
                 /\ calls' = calls
                 /\ \E d \in required[loadOrder[i]] : error[d] # "none"
              \/ /\ CallBack(t, "initialize", i + 1)
                 /\ Loaded(loadOrder[i]) /\ Initializing(loadOrder[i])'
                 /\ \A d \in required[loadOrder[i]] : Initialized(d)
           /\ UNCHANGED <<loadOrder, required, shutdownFinished, state, mapped>>
<1> DEFINE p == loadOrder[i]
<1>0. /\ stack[t] # <<>> /\ InOrder(t) /\ Top(t).call = "loadPlugins" /\ Top(t).at = "initialize"
      BY DEF InitializeStep, At
<1>1. p \in Plugins /\ Current(t) = p /\ Typed /\ Ordering
      BY <1>0, LoopAt DEF Lively
<1>2. InitializePhase(i)
      BY <1>0, TopPass DEF Lively
<1>3. Tried(p)
      BY <1>2 DEF InitializePhase, Places
<1>4. UNCHANGED <<loadOrder, required, shutdownFinished, state, mapped>> /\ loadOrder'[i] = p
      BY DEF InitializeStep, flags, resolution
<1>5. error \in [Plugins -> Errors]
      BY <1>1 DEF Typed, Values
<1>6. \A d \in required[p] : Initialized(d) \/ Bad(d)
  <2> TAKE d \in required[p]
  <2>1. PICK j \in Places : j < i /\ loadOrder[j] = d
        BY <1>1, ProviderEarlier
  <2> QED BY <1>2, <2>1 DEF InitializePhase
<1>7. \/ /\ ~(state[p] = "Loaded" /\ error[p] = "none")
         /\ Goto(t, "initialize", i + 1) /\ UNCHANGED <<error, calls>>
      \/ /\ state[p] = "Loaded" /\ error[p] = "none" /\ ~InitializeAllowed(p)
         /\ ReportError(p, "dependency") /\ Goto(t, "initialize", i + 1) /\ calls' = calls
      \/ /\ state[p] = "Loaded" /\ error[p] = "none" /\ InitializeAllowed(p)
         /\ CallBack(t, "initialize", i + 1) /\ error' = error
      BY <1>1 DEF InitializeStep
<1>8. InitializeAllowed(p) => \A d \in required[p] : Initialized(d)
      BY <1>6 DEF InitializeAllowed, RequiredAtState, Initialized, Bad, Rejected, Unusable,
                  Skipped, Failed
<1>9. ~InitializeAllowed(p) => \E d \in required[p] : error[d] # "none"
      BY <1>6 DEF InitializeAllowed, RequiredAtState, Initialized, Bad, Rejected, Unusable,
                  Skipped, Failed
<1> HIDE DEF p
<1>10. CASE /\ ~(state[p] = "Loaded" /\ error[p] = "none")
            /\ Goto(t, "initialize", i + 1) /\ UNCHANGED <<error, calls>>
  <2>1. \A q \in Plugins : Same(q)
        BY <1>4, <1>10 DEF Same
  <2>2. Bad(p)
        BY <1>3, <1>10 DEF Tried, Bad, Loaded
  <2> QED BY <1>1, <1>2, <1>4, <1>10, <2>1, <2>2 DEF OnlyAt, p
<1>11. CASE /\ state[p] = "Loaded" /\ error[p] = "none" /\ ~InitializeAllowed(p)
            /\ ReportError(p, "dependency") /\ Goto(t, "initialize", i + 1) /\ calls' = calls
  <2>1. error' = [error EXCEPT ![p] = "dependency"]
        BY <1>11 DEF ReportError
  <2>2. \A q \in Plugins : q # p => Same(q)
        BY <1>1, <1>4, <1>5, <1>11, <2>1 DEF Same
  <2>3. Loaded(p)
        BY <1>3, <1>11 DEF Tried, Rejected, Unusable
  <2>4. Skipped(p)'
        BY <1>1, <1>4, <1>5, <1>11, <2>1, <2>3 DEF Loaded, Skipped, p
  <2> QED BY <1>2, <1>4, <1>9, <1>11, <2>2, <2>3, <2>4 DEF OnlyAt, p
<1>12. CASE /\ state[p] = "Loaded" /\ error[p] = "none" /\ InitializeAllowed(p)
            /\ CallBack(t, "initialize", i + 1) /\ error' = error
  <2>1. /\ calls'[p] # <<>>
        /\ Len(calls[p]) \in Nat
        /\ Len(calls'[p]) = Len(calls[p]) + 1
        /\ Last(calls'[p]).at = "initialize"
        /\ \A q \in Plugins : q # p => calls'[q] = calls[q]
        BY <1>0, <1>1, <1>12, CallBackCalls DEF Callbacks
  <2>2. \A q \in Plugins : q # p => Same(q)
        BY <1>4, <1>12, <2>1 DEF Same
  <2>3. Loaded(p)
        BY <1>3, <1>12 DEF Tried, Rejected, Unusable
  <2>4. Len(calls[p]) = 0
        BY <2>3 DEF Loaded
  <2>5. Initializing(p)'
        BY <1>4, <1>12, <2>1, <2>3, <2>4 DEF Loaded, Initializing, p
  <2> QED BY <1>2, <1>4, <1>8, <1>12, <2>2, <2>3, <2>5 DEF OnlyAt, p
<1> QED BY <1>7, <1>10, <1>11, <1>12

LEMMA InitializeStepLively ==
    ASSUME Lively, Skeleton', NEW t \in Threads, InitializeStep(t)
    PROVE  Unlisted' /\ Passes' /\ Reasons'
<1>0. /\ stack[t] # <<>> /\ InOrder(t) /\ Top(t).call = "loadPlugins" /\ Typed /\ Ordering
      /\ At(t, "loadPlugins", "initialize")
      BY DEF InitializeStep, At, Lively
<1>1. PICK i \in Places : i = Top(t).next
      BY <1>0, LoopAt
<1>2. /\ OnlyAt(i) /\ InitializePhase(i)
      /\ \/ Goto(t, "initialize", i + 1) /\ Same(loadOrder[i]) /\ Bad(loadOrder[i])
         \/ /\ Goto(t, "initialize", i + 1) /\ Loaded(loadOrder[i]) /\ Skipped(loadOrder[i])'
            /\ calls' = calls
            /\ \E d \in required[loadOrder[i]] : error[d] # "none"
         \/ /\ CallBack(t, "initialize", i + 1)
            /\ Loaded(loadOrder[i]) /\ Initializing(loadOrder[i])'
            /\ \A d \in required[loadOrder[i]] : Initialized(d)
      /\ UNCHANGED <<loadOrder, required, shutdownFinished, state, mapped>>
      BY <1>1, InitializeEffect
<1>3. i + 1 \in Nat /\ loadOrder' = loadOrder
      BY <1>2 DEF Places
<1>4. Unlisted'
      BY <1>0, <1>2, UnlistedKept DEF Lively
<1>5. CASE Goto(t, "initialize", i + 1) /\ Same(loadOrder[i]) /\ Bad(loadOrder[i])
  <2>1. Bad(loadOrder[i])'
        BY <1>3, <1>5, SameStage
  <2>2. InitializePhase(i + 1)'
        BY <1>0, <1>2, <2>1, InitializeAdvances
  <2>3. Passes'
        BY <1>0, <1>3, <1>5, <2>2, GotoPasses
  <2>4. Reasons'
        BY <1>0, <1>2, <1>5, ReasonsKept DEF Lively, Same
  <2> QED BY <1>4, <2>3, <2>4
<1>6. CASE /\ Goto(t, "initialize", i + 1) /\ Loaded(loadOrder[i]) /\ Skipped(loadOrder[i])'
           /\ calls' = calls
           /\ \E d \in required[loadOrder[i]] : error[d] # "none"
  <2>1. InitializePhase(i + 1)'
        BY <1>0, <1>2, <1>6, InitializeAdvances DEF Bad
  <2>2. Passes'
        BY <1>0, <1>3, <1>6, <2>1, GotoPasses
  <2>3. /\ error[loadOrder[i]] = "none" /\ state[loadOrder[i]] = "Loaded"
        /\ error'[loadOrder[i]] = "dependency"
        BY <1>3, <1>6 DEF Loaded, Skipped
  <2>4. Reasons'
        BY <1>0, <1>2, <1>6, <2>3, ReasonsKept DEF Lively
  <2> QED BY <1>4, <2>2, <2>4
<1>7. CASE /\ CallBack(t, "initialize", i + 1)
           /\ Loaded(loadOrder[i]) /\ Initializing(loadOrder[i])'
           /\ \A d \in required[loadOrder[i]] : Initialized(d)
  <2>1. InitializeCalled(i + 1)'
        BY <1>0, <1>2, <1>7, InitializeCalls
  <2>2. Passes'
        BY <1>0, <1>3, <1>7, <2>1, CallBackPasses DEF Callbacks
  <2>3. /\ error[loadOrder[i]] = "none" /\ state[loadOrder[i]] = "Loaded"
        /\ error'[loadOrder[i]] = "none"
        /\ \A d \in required[loadOrder[i]] :
               state[d] \in {"Initialized", "Running"} /\ error[d] = "none"
        BY <1>3, <1>7 DEF Loaded, Initializing, Initialized
  <2>4. Reasons'
        BY <1>0, <1>2, <2>3, ReasonsKept DEF Lively
  <2> QED BY <1>4, <2>2, <2>4
<1> QED BY <1>2, <1>5, <1>6, <1>7

-----------------------------------------------------------------------------
(* Steps that do nothing to plugins.                                       *)

LEMMA QuietReasons ==
    ASSUME Typed, Unlisted, Reasons, \A p \in Plugins : Same(p),
           UNCHANGED <<loadOrder, required>>, ~shutdownFinished' => ~shutdownFinished
    PROVE  Unlisted' /\ Reasons'
<1>1. Unlisted'
  <2>1. Places' = Places /\ loadOrder' = loadOrder
        BY DEF Places
  <2>2. \A p \in Plugins : Fresh(p) => Fresh(p)'
        BY SameStage
  <2> QED BY <2>1, <2>2 DEF Unlisted
<1>2. Reasons'
  <2> SUFFICES ASSUME ~shutdownFinished', NEW q \in Plugins
               PROVE  (CalledBecause(q) /\ Blamed(q))'
      BY DEF Reasons
  <2>1. CalledBecause(q) /\ Blamed(q)
        BY DEF Reasons
  <2>2. required[q] \subseteq Plugins /\ required' = required
        BY DEF Typed, Values
  <2> QED BY <2>1, <2>2 DEF CalledBecause, Blamed, Same
<1> QED BY <1>1, <1>2

LEMMA NothingHappens ==
    ASSUME UNCHANGED <<specs, calls>>
    PROVE  \A p \in Plugins : Same(p)
BY DEF specs, Same

LEMMA LoadStartLively ==
    ASSUME Lively, Skeleton', NEW t \in Threads, LoadStart(t)
    PROVE  Unlisted' /\ Passes' /\ Reasons'
<1>1. /\ stack[t] # <<>> /\ Top(t).call = "loadPlugins" /\ Goto(t, "resolve", 0)
      /\ UNCHANGED <<loadOrder, required, shutdownFinished>> /\ UNCHANGED <<specs, calls>>
      BY DEF LoadStart, At, resolution
<1>2. Passes'
      BY <1>1, GotoPasses DEF Lively
<1> QED BY <1>1, <1>2, NothingHappens, QuietReasons DEF Lively

LEMMA LoadPassEndsLively ==
    ASSUME Lively, Skeleton', NEW t \in Threads, LoadPassEnds(t)
    PROVE  Unlisted' /\ Passes' /\ Reasons'
<1>1. /\ stack[t] # <<>> /\ Top(t).call = "loadPlugins" /\ Goto(t, "initialize", 1)
      /\ Top(t).at = "load" /\ ~InOrder(t)
      /\ UNCHANGED <<loadOrder, required, shutdownFinished>> /\ UNCHANGED <<specs, calls>>
      BY DEF LoadPassEnds, At, resolution, flags
<1>2. \A p \in Plugins : Same(p)
      BY <1>1, NothingHappens
<1>3. /\ loadOrder \in Seq(Plugins) /\ Len(loadOrder) \in Nat
      /\ Places' = Places /\ Upward' = Upward
      BY <1>1 DEF Lively, Typed, Values, Places, Upward
<1>4. \A k \in Places : loadOrder'[k] = loadOrder[k] /\ Tried(loadOrder[k])'
  <2> TAKE k \in Places
  <2>1. LoadPhase(Top(t).next)
        BY <1>1, TopPass DEF Lively
  <2>2. Top(t).next = Len(loadOrder) + 1
        BY <1>1, <1>3, <2>1 DEF LoadPhase, Upward, InOrder
  <2>3. Tried(loadOrder[k]) /\ loadOrder[k] \in Plugins
        BY <1>3, <2>1, <2>2 DEF LoadPhase, Places
  <2> QED BY <1>1, <1>2, <2>3, SameStage
<1>5. InitializePhase(1)'
      BY <1>3, <1>4 DEF InitializePhase, Upward, Places
<1>6. Passes'
      BY <1>1, <1>5, GotoPasses DEF Lively
<1> QED BY <1>1, <1>2, <1>6, QuietReasons DEF Lively

LEMMA InitializePassEndsLively ==
    ASSUME Lively, Skeleton', NEW t \in Threads, InitializePassEnds(t)
    PROVE  Unlisted' /\ Passes' /\ Reasons'
<1>1. /\ stack[t] # <<>> /\ Top(t).call = "loadPlugins" /\ Goto(t, "ready", Len(loadOrder))
      /\ Top(t).at = "initialize" /\ ~InOrder(t)
      /\ UNCHANGED <<loadOrder, required, shutdownFinished>> /\ UNCHANGED <<specs, calls>>
      BY DEF InitializePassEnds, At, resolution, flags
<1>2. \A p \in Plugins : Same(p)
      BY <1>1, NothingHappens
<1>3. /\ loadOrder \in Seq(Plugins) /\ Len(loadOrder) \in Nat
      /\ Places' = Places /\ Downward' = Downward
      BY <1>1 DEF Lively, Typed, Values, Places, Downward
<1>4. \A k \in Places : loadOrder'[k] = loadOrder[k]
                        /\ (Initialized(loadOrder[k])' \/ Bad(loadOrder[k])')
  <2> TAKE k \in Places
  <2>1. InitializePhase(Top(t).next)
        BY <1>1, TopPass DEF Lively
  <2>2. Top(t).next = Len(loadOrder) + 1
        BY <1>1, <1>3, <2>1 DEF InitializePhase, Upward, InOrder
  <2>3. (Initialized(loadOrder[k]) \/ Bad(loadOrder[k])) /\ loadOrder[k] \in Plugins
        BY <1>3, <2>1, <2>2 DEF InitializePhase, Places
  <2> QED BY <1>1, <1>2, <2>3, SameStage
<1>5. PICK n \in Nat : n = Len(loadOrder)
      BY <1>3
<1>6. ReadyPhase(n)'
      BY <1>3, <1>4, <1>5 DEF ReadyPhase, Downward, Places
<1>7. Passes'
      BY <1>1, <1>5, <1>6, GotoPasses DEF Lively
<1> QED BY <1>1, <1>2, <1>7, QuietReasons DEF Lively

-----------------------------------------------------------------------------
(* Resolution.                                                             *)

LEMMA NoneListed ==
    ASSUME Unlisted, loadOrder = <<>>
    PROVE  \A p \in Plugins : Fresh(p)
<1>1. Places = {}
      BY DEF Places
<1> QED BY <1>1 DEF Unlisted

LEMMA ResolveEffect ==
    ASSUME Lively, NEW t \in Threads, Resolve(t)
    PROVE  /\ \A p \in Plugins : Fresh(p) /\ Fresh(p)' /\ calls'[p] = calls[p]
           /\ \A k \in Places' : Resolved(loadOrder[k])' /\ loadOrder'[k] \in Plugins
           /\ Ordering' /\ UNCHANGED shutdownFinished
           /\ required' \in [Plugins -> SUBSET Plugins]
<1>1. At(t, "loadPlugins", "resolve") /\ UNCHANGED <<shutdownFinished, error, mapped, calls>>
      BY DEF Resolve, flags
<1>2. PICK r \in Resolutions :
          /\ loadOrder' = r.order /\ required' = r.required
          /\ state' = [p \in Plugins |-> IF p \in ToSet(r.order) THEN "Resolved" ELSE state[p]]
      BY DEF Resolve
<1>3. loadOrder = <<>>
  <2>1. Len(stack[t]) \in 1 .. Len(stack[t]) /\ Top(t) = stack[t][Len(stack[t])]
        BY <1>1, TopFrame DEF At, Lively, Typed, Skeleton
  <2> QED BY <1>1, <2>1 DEF At, Lively, Typed, Positions, Bounded
<1>4. \A p \in Plugins : Fresh(p)
      BY <1>3, NoneListed DEF Lively
<1>5. r.order \in Seq(Plugins) /\ DOMAIN r.order = 1 .. Len(r.order)
      BY ResolutionAssumption DEF IsResolution
<1>6. \A p \in Plugins : Fresh(p)' /\ calls'[p] = calls[p]
      BY <1>1, <1>2, <1>4 DEF Fresh
<1>7. \A k \in 1 .. Len(r.order) : r.order[k] \in ToSet(r.order) /\ r.order[k] \in Plugins
      BY <1>5 DEF ToSet
<1>8. \A k \in Places' : Resolved(loadOrder[k])' /\ loadOrder'[k] \in Plugins
  <2> TAKE k \in Places'
  <2>1. loadOrder'[k] \in Plugins /\ loadOrder'[k] \in ToSet(r.order)
        BY <1>2, <1>7 DEF Places
  <2>2. state'[loadOrder'[k]] = "Resolved"
        BY <1>2, <2>1
  <2> QED BY <1>6, <2>1, <2>2 DEF Resolved
<1>9. /\ \A i, j \in 1 .. Len(r.order) : r.order[i] = r.order[j] => i = j
      /\ \A i \in 1 .. Len(r.order) : \A d \in r.required[r.order[i]] :
             \E j \in 1 .. i - 1 : r.order[j] = d
      BY <1>5, ResolutionAssumption DEF IsResolution
<1>10. Ordering'
       BY <1>2, <1>9, ZenonT(30) DEF Ordering, Places
<1>11. required' \in [Plugins -> SUBSET Plugins]
       BY <1>2, ResolutionAssumption DEF IsResolution
<1> QED BY <1>1, <1>4, <1>6, <1>8, <1>10, <1>11

LEMMA ResolveLively ==
    ASSUME Lively, Typed', NEW t \in Threads, Resolve(t)
    PROVE  Ordering' /\ Unlisted' /\ Passes' /\ Reasons'
<1>1. /\ \A p \in Plugins : Fresh(p) /\ Fresh(p)' /\ calls'[p] = calls[p]
      /\ \A k \in Places' : Resolved(loadOrder[k])' /\ loadOrder'[k] \in Plugins
      /\ Ordering' /\ UNCHANGED shutdownFinished
      /\ required' \in [Plugins -> SUBSET Plugins]
      BY ResolveEffect
<1>2. stack[t] # <<>> /\ Top(t).call = "loadPlugins" /\ Goto(t, "load", 1)
      BY DEF Resolve, At
<1>8. Len(loadOrder') \in Nat
      BY DEF Typed, Values
<1>3. 1 \in Upward' /\ \A k \in Places' : ~(k < 1)
      BY <1>8 DEF Upward, Places
<1>4. LoadPhase(1)'
      BY <1>1, <1>3 DEF LoadPhase
<1>5. Passes'
      BY <1>2, <1>4, GotoPasses DEF Lively, Typed
<1>6. Unlisted'
      BY <1>1 DEF Unlisted
<1>7. Reasons'
      BY <1>1 DEF Reasons, CalledBecause, Blamed, Fresh
<1> QED BY <1>1, <1>5, <1>6, <1>7

-----------------------------------------------------------------------------
(* initialize() returns, and the pass of pluginsInitialized().             *)

LEMMA InitializeReturnEffect ==
    ASSUME Lively, NEW t \in Threads, InitializeReturn(t), NEW i \in Places, i = Top(t).next
    PROVE  /\ OnlyAt(i) /\ InitializeCalled(i + 1) /\ Initializing(loadOrder[i])
           /\ Initialized(loadOrder[i])' \/ Failed(loadOrder[i])'
           /\ UNCHANGED <<loadOrder, required, shutdownFinished, calls>>
<1> DEFINE p == loadOrder[i]
<1>0. stack[t] # <<>> /\ Top(t).call = "callback" /\ Top(t).at = "initialize" /\ Return(t)
      BY DEF InitializeReturn, CallbackReturns
<1>1. p \in Plugins /\ Current(t) = p
      BY DEF Lively, Typed, Values, Places, Current
<1>2. InitializeCalled(i + 1)
      BY <1>0, UnderTop DEF Lively
<1>3. Initializing(p)
  <2>1. PICK n \in Nat : n = i + 1
        BY DEF Places
  <2>2. InitializeCalled(n) /\ i = n - 1
        BY <1>2, <2>1 DEF Places
  <2> HIDE DEF p
  <2>3. Initializing(loadOrder[i])
        BY <2>2 DEF InitializeCalled
  <2> QED BY <2>3 DEF p
<1>4. UNCHANGED <<loadOrder, required, shutdownFinished, calls, mapped>>
      BY DEF InitializeReturn, flags, resolution
<1>5. \/ state' = [state EXCEPT ![p] = "Initialized"] /\ UNCHANGED error
      \/ error' = [error EXCEPT ![p] = "init"] /\ UNCHANGED state
      BY <1>1 DEF InitializeReturn, SetState, ReportError
<1>6. state \in [Plugins -> States] /\ error \in [Plugins -> Errors]
      BY DEF Lively, Typed, Values
<1>7. loadOrder'[i] = p
      BY <1>4
<1> HIDE DEF p
<1>8. \A q \in Plugins : q # p => Same(q)
      BY <1>4, <1>5, <1>6 DEF Same
<1>9. Initialized(p)' \/ Failed(p)'
      BY <1>1, <1>3, <1>4, <1>5, <1>6 DEF Initializing, Initialized, Failed, p
<1> QED BY <1>2, <1>3, <1>4, <1>8, <1>9 DEF OnlyAt, p

LEMMA InitializeReturnLively ==
    ASSUME Lively, Skeleton', NEW t \in Threads, InitializeReturn(t)
    PROVE  Unlisted' /\ Passes' /\ Reasons'
<1>0. /\ stack[t] # <<>> /\ Top(t).call = "callback" /\ Top(t).at = "initialize" /\ Return(t)
      /\ Typed /\ Ordering /\ Passes
      BY DEF InitializeReturn, CallbackReturns, Lively
<1>1. PICK i \in Places : i = Top(t).next
      BY <1>0, UnderTop
<1>2. /\ OnlyAt(i) /\ InitializeCalled(i + 1) /\ Initializing(loadOrder[i])
      /\ Initialized(loadOrder[i])' \/ Failed(loadOrder[i])'
      /\ UNCHANGED <<loadOrder, required, shutdownFinished, calls>>
      BY <1>1, InitializeReturnEffect
<1>3. PICK n \in Nat : n = i + 1
      BY DEF Places
<1>4. InitializePhase(i + 1)'
      BY <1>0, <1>2, InitializeReturns DEF Bad
<1>5. Passes'
      BY <1>0, <1>1, <1>3, <1>4, ReturnPasses
<1>6. Unlisted'
      BY <1>0, <1>2, UnlistedKept DEF Lively
<1>7. LET p == loadOrder[i] IN
          /\ error[p] = "none" /\ state[p] = "Loaded"
          /\ (error'[p] = "none" /\ state'[p] = "Initialized") \/ error'[p] = "init"
          /\ calls[p] # <<>>
  <2>1. loadOrder[i] \in Plugins /\ loadOrder'[i] = loadOrder[i]
        BY <1>0, <1>2 DEF Typed, Values, Places
  <2>2. calls[loadOrder[i]] = <<>> => Len(calls[loadOrder[i]]) = 0
        OBVIOUS
  <2> QED BY <1>2, <2>1, <2>2 DEF Initializing, Initialized, Failed
<1>8. Reasons'
      BY <1>0, <1>2, <1>7, ReasonsKept DEF Lively
<1> QED BY <1>5, <1>6, <1>8

LEMMA ReadyEffect ==
    ASSUME Lively, NEW t \in Threads, ReadyStep(t), NEW i \in Places, i = Top(t).next
    PROVE  /\ OnlyAt(i) /\ ReadyPhase(i)
           /\ \/ Goto(t, "ready", i - 1) /\ Same(loadOrder[i]) /\ Bad(loadOrder[i])
              \/ /\ CallBack(t, "pluginsInitialized", i - 1)
                 /\ Initialized(loadOrder[i]) /\ Readying(loadOrder[i])'
           /\ UNCHANGED <<loadOrder, required, shutdownFinished, state, error, mapped>>
<1> DEFINE p == loadOrder[i]
<1>0. stack[t] # <<>> /\ InOrder(t) /\ Top(t).call = "loadPlugins" /\ Top(t).at = "ready"
      BY DEF ReadyStep, At
<1>1. p \in Plugins /\ Current(t) = p /\ Typed
      BY <1>0, LoopAt DEF Lively
<1>2. ReadyPhase(i)
      BY <1>0, TopPass DEF Lively
<1>3. Initialized(p) \/ Bad(p)
      BY <1>2 DEF ReadyPhase, Places
<1>4. UNCHANGED <<loadOrder, required, shutdownFinished, state, error, mapped>> /\ loadOrder'[i] = p
      BY DEF ReadyStep, flags, resolution, specs
<1>5. \/ /\ state[p] = "Initialized" /\ error[p] = "none"
         /\ CallBack(t, "pluginsInitialized", i - 1)
      \/ /\ ~(state[p] = "Initialized" /\ error[p] = "none")
         /\ Goto(t, "ready", i - 1) /\ calls' = calls
      BY <1>1 DEF ReadyStep
<1> HIDE DEF p
<1>6. CASE /\ ~(state[p] = "Initialized" /\ error[p] = "none")
           /\ Goto(t, "ready", i - 1) /\ calls' = calls
  <2>1. \A q \in Plugins : Same(q)
        BY <1>4, <1>6 DEF Same
  <2>2. Bad(p)
        BY <1>3, <1>6 DEF Initialized
  <2> QED BY <1>1, <1>2, <1>4, <1>6, <2>1, <2>2 DEF OnlyAt, p
<1>7. CASE /\ state[p] = "Initialized" /\ error[p] = "none"
           /\ CallBack(t, "pluginsInitialized", i - 1)
  <2>1. /\ calls'[p] # <<>>
        /\ Len(calls[p]) \in Nat
        /\ Len(calls'[p]) = Len(calls[p]) + 1
        /\ Last(calls'[p]).at = "pluginsInitialized"
        /\ \A q \in Plugins : q # p => calls'[q] = calls[q]
        BY <1>0, <1>1, <1>7, CallBackCalls DEF Callbacks
  <2>2. \A q \in Plugins : q # p => Same(q)
        BY <1>4, <2>1 DEF Same
  <2>3. Initialized(p)
        BY <1>3, <1>7 DEF Bad, Rejected, Unusable, Skipped, Failed
  <2>4. Readying(p)'
        BY <1>4, <2>1, <2>3 DEF Initialized, Readying, p
  <2> QED BY <1>2, <1>4, <1>7, <2>2, <2>3, <2>4 DEF OnlyAt, p
<1> QED BY <1>5, <1>6, <1>7

LEMMA ReadyStepLively ==
    ASSUME Lively, Skeleton', NEW t \in Threads, ReadyStep(t)
    PROVE  Unlisted' /\ Passes' /\ Reasons'
<1>0. /\ stack[t] # <<>> /\ InOrder(t) /\ Top(t).call = "loadPlugins" /\ Typed /\ Ordering
      /\ At(t, "loadPlugins", "ready")
      BY DEF ReadyStep, At, Lively
<1>1. PICK i \in Places : i = Top(t).next
      BY <1>0, LoopAt
<1>2. /\ OnlyAt(i) /\ ReadyPhase(i)
      /\ \/ Goto(t, "ready", i - 1) /\ Same(loadOrder[i]) /\ Bad(loadOrder[i])
         \/ /\ CallBack(t, "pluginsInitialized", i - 1)
            /\ Initialized(loadOrder[i]) /\ Readying(loadOrder[i])'
      /\ UNCHANGED <<loadOrder, required, shutdownFinished, state, error, mapped>>
      BY <1>1, ReadyEffect
<1>3. i - 1 \in Nat /\ loadOrder' = loadOrder
      BY <1>2 DEF Places
<1>4. Unlisted'
      BY <1>0, <1>2, UnlistedKept DEF Lively
<1>5. CASE Goto(t, "ready", i - 1) /\ Same(loadOrder[i]) /\ Bad(loadOrder[i])
  <2>1. Bad(loadOrder[i])'
        BY <1>3, <1>5, SameStage
  <2>2. ReadyPhase(i - 1)'
        BY <1>0, <1>2, <2>1, ReadyAdvances
  <2>3. Passes'
        BY <1>0, <1>3, <1>5, <2>2, GotoPasses
  <2>4. Reasons'
        BY <1>0, <1>2, <1>5, ReasonsKept DEF Lively, Same
  <2> QED BY <1>4, <2>3, <2>4
<1>6. CASE /\ CallBack(t, "pluginsInitialized", i - 1)
           /\ Initialized(loadOrder[i]) /\ Readying(loadOrder[i])'
  <2>1. ReadyCalled(i - 1)'
        BY <1>0, <1>2, <1>6, ReadyCalls
  <2>2. Passes'
        BY <1>0, <1>3, <1>6, <2>1, CallBackPasses DEF Callbacks
  <2>3. error[loadOrder[i]] = "none" /\ calls[loadOrder[i]] # <<>>
    <3>1. calls[loadOrder[i]] = <<>> => Len(calls[loadOrder[i]]) = 0
          OBVIOUS
    <3> QED BY <1>6, <3>1 DEF Initialized
  <2>4. Reasons'
        BY <1>0, <1>2, <2>3, ReasonsKept DEF Lively
  <2> QED BY <1>4, <2>2, <2>4
<1> QED BY <1>2, <1>5, <1>6

LEMMA ReadyReturnEffect ==
    ASSUME Lively, NEW t \in Threads, ReadyReturn(t), NEW i \in Places, i = Top(t).next
    PROVE  /\ OnlyAt(i) /\ ReadyCalled(i - 1)
           /\ Readying(loadOrder[i]) /\ Running(loadOrder[i])'
           /\ UNCHANGED <<loadOrder, required, shutdownFinished, error, calls>>
<1> DEFINE p == loadOrder[i]
<1>0. stack[t] # <<>> /\ Top(t).call = "callback" /\ Top(t).at = "pluginsInitialized"
      BY DEF ReadyReturn, CallbackReturns
<1>1. p \in Plugins /\ Current(t) = p
      BY DEF Lively, Typed, Values, Places, Current
<1>2. ReadyCalled(i - 1)
      BY <1>0, UnderTop DEF Lively
<1>3. Readying(p)
  <2>1. i = i - 1 + 1
        BY DEF Places
  <2> QED BY <1>2, <2>1 DEF ReadyCalled
<1>4. UNCHANGED <<loadOrder, required, shutdownFinished, error, calls, mapped>>
      BY DEF ReadyReturn, flags, resolution
<1>5. state' = [state EXCEPT ![p] = "Running"] /\ state \in [Plugins -> States]
      BY <1>1 DEF ReadyReturn, SetState, Lively, Typed, Values
<1>7. loadOrder'[i] = p
      BY <1>4
<1> HIDE DEF p
<1>8. \A q \in Plugins : q # p => Same(q)
      BY <1>4, <1>5 DEF Same
<1>9. Running(p)'
      BY <1>1, <1>3, <1>4, <1>5, SMTT(30) DEF Readying, Running, p
<1> QED BY <1>2, <1>3, <1>4, <1>8, <1>9 DEF OnlyAt, p

LEMMA ReadyReturnLively ==
    ASSUME Lively, Skeleton', NEW t \in Threads, ReadyReturn(t)
    PROVE  Unlisted' /\ Passes' /\ Reasons'
<1>0. /\ stack[t] # <<>> /\ Top(t).call = "callback" /\ Top(t).at = "pluginsInitialized"
      /\ Return(t) /\ Typed /\ Ordering /\ Passes
      BY DEF ReadyReturn, CallbackReturns, Lively
<1>1. PICK i \in Places : i = Top(t).next
      BY <1>0, UnderTop
<1>2. /\ OnlyAt(i) /\ ReadyCalled(i - 1)
      /\ Readying(loadOrder[i]) /\ Running(loadOrder[i])'
      /\ UNCHANGED <<loadOrder, required, shutdownFinished, error, calls>>
      BY <1>1, ReadyReturnEffect
<1>3. PICK n \in Nat : n = i - 1
      BY DEF Places
<1>4. ReadyPhase(i - 1)'
      BY <1>0, <1>2, ReadyReturns
<1>5. Passes'
      BY <1>0, <1>1, <1>3, <1>4, ReturnPasses
<1>6. Unlisted'
      BY <1>0, <1>2, UnlistedKept DEF Lively
<1>7. state'[loadOrder[i]] = "Running"
      BY <1>2 DEF Running
<1>8. Reasons'
      BY <1>0, <1>2, <1>7, ReasonsKept DEF Lively
<1> QED BY <1>5, <1>6, <1>8

-----------------------------------------------------------------------------
(* Between the passes: commands, and the calls that find nothing to do.    *)

\* No pass is under way afterwards.
LEMMA PassIsOver ==
    ASSUME \A u \in Threads : \A j \in 1 .. Len(stack'[u]) : ~Passing(stack'[u][j]), Between'
    PROVE  Passes'
<1>1. ASSUME NEW u \in Threads, NEW j \in 1 .. Len(stack'[u]), NEW n \in Nat
      PROVE  PassOK(u, j, n)'
      BY DEF PassOK, Passing, LoadPass, LoaderFrame, EndPass
<1> QED BY <1>1 DEF Passes, PassesOK

\* The frames below the top, when a call or a pass ends.
LEMMA OnlyPassEnds ==
    ASSUME Typed, NEW t \in Threads, stack[t] # <<>>, Passing(Top(t)),
           \/ Return(t)
           \/ Top(t).call = "loadPlugins" /\ Goto(t, "pending", 0)
    PROVE  \A u \in Threads : \A j \in 1 .. Len(stack'[u]) : ~Passing(stack'[u][j])
<1>0. stack \in Stacks
      BY DEF Typed, Skeleton
<1>1. /\ Len(stack[t]) \in 1 .. Len(stack[t]) /\ Top(t) = stack[t][Len(stack[t])]
      /\ Top(t) \in Frame
      BY <1>0, TopFrame
<1>2. \A u \in Threads : \A j \in 1 .. Len(stack[u]) :
          Passing(stack[u][j]) => u = t /\ j = Len(stack[t])
      BY <1>1 DEF Typed, Skeleton, Discipline, Exclusive
<1>3. CASE Return(t)
  <2>1. /\ stack' \in Stacks
        /\ Len(stack[t]) \in Nat \ {0}
        /\ Len(stack'[t]) = Len(stack[t]) - 1
        /\ \A i \in 1 .. Len(stack[t]) - 1 : stack'[t][i] = stack[t][i]
        /\ \A u \in Threads \ {t} : stack'[u] = stack[u]
        BY <1>0, <1>3, ReturnStack
  <2>2. \A u \in Threads : \A j \in 1 .. Len(stack'[u]) :
            /\ j \in 1 .. Len(stack[u]) /\ stack'[u][j] = stack[u][j]
            /\ ~(u = t /\ j = Len(stack[t]))
        BY <2>1
  <2> QED BY <1>2, <2>2
<1>4. CASE Top(t).call = "loadPlugins" /\ Goto(t, "pending", 0)
  <2> DEFINE g == [Top(t) EXCEPT !.at = "pending", !.next = 0]
  <2>1. g \in Frame /\ g.call = "loadPlugins" /\ g.at = "pending"
        BY <1>1, <1>4 DEF Frame
  <2>2. /\ stack' \in Stacks
        /\ Len(stack'[t]) = Len(stack[t])
        /\ \A i \in 1 .. Len(stack[t]) - 1 : stack'[t][i] = stack[t][i]
        /\ stack'[t][Len(stack[t])] = g
        /\ \A u \in Threads \ {t} : stack'[u] = stack[u]
        BY <1>0, <1>4, <2>1, GotoStack
  <2> HIDE DEF g
  <2>3. ~Passing(g)
        BY <2>1 DEF Passing, LoadPass, EndPass
  <2>4. \A u \in Threads : \A j \in 1 .. Len(stack'[u]) :
            \/ /\ j \in 1 .. Len(stack[u]) /\ stack'[u][j] = stack[u][j]
               /\ ~(u = t /\ j = Len(stack[t]))
            \/ stack'[u][j] = g
        BY <1>1, <2>2
  <2> QED BY <1>2, <2>3, <2>4
<1> QED BY <1>3, <1>4

LEMMA ReadyPassEndsLively ==
    ASSUME Lively, Skeleton', NEW t \in Threads, ReadyPassEnds(t)
    PROVE  Unlisted' /\ Passes' /\ Reasons'
<1>1. /\ stack[t] # <<>> /\ Top(t).call = "loadPlugins" /\ Top(t).at = "ready"
      /\ Goto(t, "pending", 0) /\ ~InOrder(t)
      /\ UNCHANGED <<loadOrder, required, shutdownFinished>> /\ UNCHANGED <<specs, calls>>
      /\ Typed
      BY DEF ReadyPassEnds, At, resolution, flags, Lively
<1>2. \A p \in Plugins : Same(p)
      BY <1>1, NothingHappens
<1>3. Passing(Top(t)) /\ LoadPass(Top(t))
      BY <1>1 DEF Passing, LoadPass, LoaderFrame
<1>4. ~shutdownFinished
      BY <1>1, <1>3, TopOK DEF Typed
<1>5. Settled'
  <2>1. ReadyPhase(Top(t).next)
        BY <1>1, TopPass DEF Lively
  <2>2. /\ loadOrder \in Seq(Plugins) /\ Len(loadOrder) \in Nat /\ Places' = Places
        BY <1>1 DEF Lively, Typed, Values, Places
  <2>3. Top(t).next = 0
        BY <1>1, <2>1, <2>2 DEF ReadyPhase, Downward, InOrder
  <2>4. \A k \in Places : (Running(loadOrder[k]) \/ Bad(loadOrder[k])) /\ loadOrder[k] \in Plugins
        BY <2>1, <2>2, <2>3 DEF ReadyPhase, Places
  <2> QED BY <1>1, <1>2, <2>2, <2>4, SameStage DEF Settled
<1>6. Between'
      BY <1>1, <1>4, <1>5 DEF Between
<1>7. Passes'
      BY <1>1, <1>3, <1>6, OnlyPassEnds, PassIsOver
<1> QED BY <1>1, <1>2, <1>7, QuietReasons DEF Lively

\* After loading and before shutdown.
LEMMA SettledNow ==
    ASSUME Lively, loadStarted, NoLoadPass, ~shutdownFinished
    PROVE  Settled
BY DEF Lively, Passes, Between

LEMMA DispatchEffect ==
    ASSUME Lively, NEW t \in Threads, DispatchStep(t), NEW i \in Places, i = Top(t).next
    PROVE  /\ OnlyAt(i) /\ Settled /\ NoLoadPass /\ loadStarted /\ ~shutdownFinished
           /\ \/ Goto(t, "pass", i + 1) /\ UNCHANGED calls
              \/ /\ Running(loadOrder[i]) /\ Running(loadOrder[i])'
                 /\ calls' = [calls EXCEPT ![loadOrder[i]] =
                                  Append(@, [at |-> "remoteCommand", command |-> Top(t).command])]
                 /\ PushFromLoop(t, i + 1,
                        [call |-> "callback", at |-> "remoteCommand", next |-> i,
                         command |-> Top(t).command])
           /\ UNCHANGED <<flags, loadOrder, required, state, error, mapped, commands>>
<1> DEFINE p == loadOrder[i]
           c == [at |-> "remoteCommand", command |-> Top(t).command]
<1>0. stack[t] # <<>> /\ Top(t).call = "dispatch" /\ ~shutdownFinished /\ InOrder(t)
      BY DEF DispatchStep, DispatchOver, At
<1>1. p \in Plugins /\ Current(t) = p
      BY <1>0, LoopAt DEF Lively
<1>2. loadStarted /\ NoLoadPass
      BY <1>0, TopOK DEF Lively, Typed
<1>3. Settled
      BY <1>0, <1>2, SettledNow
<1>4. UNCHANGED <<flags, loadOrder, required, state, error, mapped, commands>> /\ loadOrder'[i] = p
      BY DEF DispatchStep, resolution, specs
<1>5. \/ Goto(t, "pass", i + 1) /\ UNCHANGED calls
      \/ /\ state[p] = "Running" /\ calls' = [calls EXCEPT ![p] = Append(@, c)]
         /\ PushFromLoop(t, i + 1,
                [call |-> "callback", at |-> "remoteCommand", next |-> i,
                 command |-> Top(t).command])
      BY DEF DispatchStep
<1>6. Top(t).command \in Nat /\ calls \in [Plugins -> Seq(Given)]
      BY <1>0, TopFrame DEF Lively, Typed, Skeleton, Values, Frame
<1>7. c \in Given /\ c.at = "remoteCommand"
      BY <1>6 DEF Given, Callbacks
<1>8. Running(p) \/ Bad(p)
      BY <1>3 DEF Settled
<1> HIDE DEF p, c
<1>9. \A q \in Plugins : q # p => Same(q)
      BY <1>4, <1>5, <1>6 DEF Same
<1>10. ASSUME state[p] = "Running", calls' = [calls EXCEPT ![p] = Append(@, c)]
       PROVE  Running(p) /\ Running(p)'
  <2>1. Running(p)
        BY <1>8, <1>10 DEF Bad, Rejected, Unusable, Skipped, Failed
  <2>2. calls'[p] = Append(calls[p], c) /\ calls[p] \in Seq(Given)
        BY <1>1, <1>6, <1>10
  <2>3. /\ Len(Append(calls[p], c)) = Len(calls[p]) + 1 /\ Len(calls[p]) \in Nat
        /\ Append(calls[p], c)[Len(calls[p]) + 1] = c
        BY <1>7, <2>2
  <2>4. Len(calls'[p]) >= 2 /\ Last(calls'[p]).at = "remoteCommand"
        BY <1>7, <2>1, <2>2, <2>3 DEF Running, Last
  <2>5. Running(p)'
        BY <1>4, <2>1, <2>4 DEF Running, p
  <2> QED BY <2>1, <2>5
<1>11. OnlyAt(i)
       BY <1>9 DEF OnlyAt, p
<1>12. \/ Goto(t, "pass", i + 1) /\ UNCHANGED calls
       \/ /\ Running(p) /\ Running(p)'
          /\ calls' = [calls EXCEPT ![p] = Append(@, c)]
          /\ PushFromLoop(t, i + 1,
                 [call |-> "callback", at |-> "remoteCommand", next |-> i,
                  command |-> Top(t).command])
       BY <1>5, <1>10
<1> QED BY <1>0, <1>2, <1>3, <1>4, <1>11, <1>12 DEF p, c

LEMMA DispatchStepLively ==
    ASSUME Lively, Skeleton', NEW t \in Threads, DispatchStep(t)
    PROVE  Unlisted' /\ Passes' /\ Reasons'
<1>0. stack[t] # <<>> /\ InOrder(t) /\ Top(t).call = "dispatch" /\ Typed /\ Ordering
      BY DEF DispatchStep, DispatchOver, At, Lively
<1>1. PICK i \in Places : i = Top(t).next
      BY <1>0, LoopAt
<1>2. /\ OnlyAt(i) /\ Settled /\ NoLoadPass /\ loadStarted /\ ~shutdownFinished
      /\ \/ Goto(t, "pass", i + 1) /\ UNCHANGED calls
         \/ /\ Running(loadOrder[i]) /\ Running(loadOrder[i])'
            /\ calls' = [calls EXCEPT ![loadOrder[i]] =
                             Append(@, [at |-> "remoteCommand", command |-> Top(t).command])]
            /\ PushFromLoop(t, i + 1,
                   [call |-> "callback", at |-> "remoteCommand", next |-> i,
                    command |-> Top(t).command])
      /\ UNCHANGED <<flags, loadOrder, required, state, error, mapped, commands>>
      BY <1>1, DispatchEffect
<1>3. UNCHANGED <<loadOrder, required, shutdownFinished, loadStarted, state, error, mapped>>
      BY <1>2 DEF flags
<1>4. Unlisted'
      BY <1>0, <1>2, UnlistedKept DEF Lively
<1>5. /\ Places' = Places
      /\ \A k \in Places : loadOrder'[k] = loadOrder[k] /\ loadOrder[k] \in Plugins
      /\ \A k \in Places : k # i =>
             /\ Bad(loadOrder[k]) => Bad(loadOrder[k])'
             /\ Running(loadOrder[k]) => Running(loadOrder[k])'
      BY <1>0, <1>2, OthersSame
<1>6. Running(loadOrder[i])' \/ Bad(loadOrder[i])'
  <2>1. CASE Running(loadOrder[i])'
        BY <2>1
  <2>2. CASE UNCHANGED calls
    <3>1. Same(loadOrder[i])
          BY <1>3, <2>2 DEF Same
    <3>2. Running(loadOrder[i]) \/ Bad(loadOrder[i])
          BY <1>2 DEF Settled
    <3> QED BY <1>3, <3>1, <3>2, SameStage
  <2> QED BY <1>2, <2>1, <2>2
<1>7. Settled'
      BY <1>2, <1>5, <1>6 DEF Settled
<1>8. \A u \in Threads : \A j \in 1 .. Len(stack'[u]) : ~Passing(stack'[u][j])
  <2>1. \A u \in Threads : \A j \in 1 .. Len(stack'[u]) : ~EndPass(stack'[u][j])
        BY <1>2, <1>3 DEF Skeleton, Discipline, FramesOK
  <2>2. Len(stack[t]) \in 1 .. Len(stack[t]) /\ Top(t) = stack[t][Len(stack[t])] /\ Top(t) \in Frame
        BY <1>0, TopFrame DEF Typed, Skeleton
  <2>3. \E j \in 1 .. Len(stack'[t]) : stack'[t][j].call = "dispatch"
    <3>1. CASE Goto(t, "pass", i + 1)
      <4> DEFINE h == [Top(t) EXCEPT !.at = "pass", !.next = i + 1]
      <4>1. i + 1 \in Nat
            BY DEF Places
      <4>2. h \in Frame /\ h.call = "dispatch"
            BY <1>0, <2>2, <4>1 DEF Frame
      <4>3. /\ stack' \in Stacks
            /\ Len(stack'[t]) = Len(stack[t])
            /\ \A j \in 1 .. Len(stack[t]) - 1 : stack'[t][j] = stack[t][j]
            /\ stack'[t][Len(stack[t])] = h
            /\ \A u \in Threads \ {t} : stack'[u] = stack[u]
            BY <1>0, <3>1, <4>1, <4>2, GotoStack DEF Typed, Skeleton
      <4> HIDE DEF h
      <4> QED BY <2>2, <4>2, <4>3
    <3>2. ASSUME NEW f, f = [call |-> "callback", at |-> "remoteCommand", next |-> i,
                             command |-> Top(t).command],
                 PushFromLoop(t, i + 1, f)
          PROVE  \E j \in 1 .. Len(stack'[t]) : stack'[t][j].call = "dispatch"
      <4> DEFINE h == [Top(t) EXCEPT !.next = i + 1]
      <4>1. i + 1 \in Nat /\ i \in Nat
            BY DEF Places
      <4>2. h.call = "dispatch"
            BY <1>0, <2>2, <4>1 DEF Frame
      <4>3. f \in Frame
            BY <2>2, <3>2, <4>1 DEF Frame, Callbacks
      <4>4. /\ stack' \in Stacks
            /\ Len(stack'[t]) = Len(stack[t]) + 1
            /\ \A j \in 1 .. Len(stack[t]) - 1 : stack'[t][j] = stack[t][j]
            /\ stack'[t][Len(stack[t])] = h
            /\ stack'[t][Len(stack[t]) + 1] = f
            /\ \A u \in Threads \ {t} : stack'[u] = stack[u]
            BY <1>0, <3>2, <4>1, <4>3, PushFromLoopStack DEF Typed, Skeleton
      <4> HIDE DEF h
      <4> QED BY <2>2, <4>2, <4>4
    <3> QED BY <1>2, <3>1, <3>2
  <2>4. NoLoadPass'
        BY <2>3 DEF Skeleton, Discipline, Exclusive, NoLoadPass
  <2> QED BY <2>1, <2>4 DEF NoLoadPass, Passing
<1>9. Passes'
  <2>1. Between'
        BY <1>2, <1>3, <1>7 DEF Between
  <2> QED BY <1>8, <2>1, PassIsOver
<1>10. Reasons'
  <2>1. calls'[loadOrder[i]] # <<>> => calls[loadOrder[i]] # <<>>
    <3>1. Running(loadOrder[i]) => calls[loadOrder[i]] # <<>>
      <4>1. calls[loadOrder[i]] = <<>> => Len(calls[loadOrder[i]]) = 0
            OBVIOUS
      <4> QED BY <4>1 DEF Running
    <3> QED BY <1>2, <3>1
  <2> QED BY <1>0, <1>2, <1>3, <2>1, ReasonsKept DEF Lively
<1> QED BY <1>4, <1>9, <1>10

\* A frame that is not of a pass is pushed, or returns.
LEMMA PushKept ==
    ASSUME Typed, Passes, NEW t \in Threads, NEW f \in Frame, Push(t, f), ~Passing(f),
           stack[t] # <<>> => ~LoadPass(Top(t)),
           \A p \in Plugins : Same(p), UNCHANGED <<loadOrder, shutdownFinished, loadStarted>>
    PROVE  Passes'
<1>1. stack \in Stacks /\ Len(stack[t]) \in Nat
      BY DEF Typed, Skeleton, Stacks
<1>2. /\ Len(stack'[t]) = Len(stack[t]) + 1
      /\ \A i \in 1 .. Len(stack[t]) : stack'[t][i] = stack[t][i]
      /\ stack'[t][Len(stack[t]) + 1] = f
      /\ \A u \in Threads \ {t} : stack'[u] = stack[u]
      BY <1>1, PushStack
<1>3. \A j \in 1 .. Len(stack[t]) : LoadPass(stack[t][j]) => j < Len(stack[t])
  <2>1. Len(stack[t]) > 0 => ~LoadPass(stack[t][Len(stack[t])])
        BY <1>1, TopFrame
  <2> QED BY <1>1, <2>1
<1>4. \A u \in Threads : \A j \in 1 .. Len(stack'[u]) : Passing(stack'[u][j]) =>
          /\ j \in 1 .. Len(stack[u]) /\ stack'[u][j] = stack[u][j]
          /\ LoadPass(stack[u][j]) => (j < Len(stack'[u]) <=> j < Len(stack[u]))
      BY <1>1, <1>2, <1>3
<1>5. \A u \in Threads : \A j \in 1 .. Len(stack[u]) : Passing(stack[u][j]) =>
          j \in 1 .. Len(stack'[u]) /\ stack'[u][j] = stack[u][j]
      BY <1>1, <1>2
<1> QED BY <1>4, <1>5, KeptPasses

LEMMA ReturnKept ==
    ASSUME Typed, Passes, NEW t \in Threads, stack[t] # <<>>, Return(t), ~Passing(Top(t)),
           Top(t).call = "callback" => Top(t).at \in {"remoteCommand", "aboutToShutdown"},
           \A p \in Plugins : Same(p), UNCHANGED <<loadOrder, shutdownFinished, loadStarted>>
    PROVE  Passes'
<1>1. stack \in Stacks
      BY DEF Typed, Skeleton
<1>0. PICK n \in Nat \ {0} : n = Len(stack[t])
      BY <1>1, TopFrame
<1>2. /\ stack' \in Stacks
      /\ Len(stack[t]) \in Nat \ {0}
      /\ Len(stack'[t]) = Len(stack[t]) - 1
      /\ \A i \in 1 .. Len(stack[t]) - 1 : stack'[t][i] = stack[t][i]
      /\ \A u \in Threads \ {t} : stack'[u] = stack[u]
      BY <1>1, ReturnStack
<1>3. Top(t) = stack[t][n]
      BY <1>0, <1>1, TopFrame
<1>4. n - 1 \in 1 .. n => ~LoadPass(stack[t][n - 1])
  <2> SUFFICES ASSUME n - 1 \in 1 .. n PROVE ~LoadPass(stack[t][n - 1])
      OBVIOUS
  <2>1. n \in 1 .. Len(stack[t]) /\ n > 1
        BY <1>0
  <2>2. Nested(stack[t][n - 1], Top(t))
        BY <1>3, <2>1 DEF Typed, Skeleton, StackOK
  <2> QED BY <2>2 DEF Nested, MadeBy, LoadPass, LoaderFrame
<1>5. \A u \in Threads : \A j \in 1 .. Len(stack'[u]) : Passing(stack'[u][j]) =>
          /\ j \in 1 .. Len(stack[u]) /\ stack'[u][j] = stack[u][j]
          /\ LoadPass(stack[u][j]) => (j < Len(stack'[u]) <=> j < Len(stack[u]))
  <2> TAKE u \in Threads
  <2>1. CASE u = t
    <3> TAKE j \in 1 .. Len(stack'[u])
    <3>1. j \in 1 .. n - 1
          BY <1>0, <1>2, <2>1
    <3>2. j = n - 1 \/ j < n - 1
          BY <1>0, <3>1
    <3> QED BY <1>0, <1>2, <1>4, <2>1, <3>1, <3>2
  <2>2. CASE u # t
        BY <1>2, <2>2
  <2> QED BY <2>1, <2>2
<1>6. \A u \in Threads : \A j \in 1 .. Len(stack[u]) : Passing(stack[u][j]) =>
          j \in 1 .. Len(stack'[u]) /\ stack'[u][j] = stack[u][j]
  <2> TAKE u \in Threads
  <2>1. CASE u = t
    <3> TAKE j \in 1 .. Len(stack[u])
    <3>1. j \in 1 .. n /\ (Passing(stack[t][j]) => j # n)
          BY <1>0, <1>3, <2>1
    <3> QED BY <1>0, <1>2, <2>1, <3>1
  <2>2. CASE u # t
        BY <1>2, <2>2
  <2> QED BY <2>1, <2>2
<1> QED BY <1>5, <1>6, KeptPasses

Quiet(t) ==
    \/ Environment(t) \/ LoadAgain(t) \/ TakePending(t) \/ LoadReturn(t)
    \/ DispatchReturn(t) \/ HandlerReturn(t) \/ ShutdownAgain(t)

LEMMA QuietEffect ==
    ASSUME NEW t \in Threads, Quiet(t)
    PROVE  /\ \A p \in Plugins : Same(p)
           /\ UNCHANGED <<loadOrder, required, shutdownFinished, loadStarted>>
<1>1. UNCHANGED <<specs, calls>> /\ UNCHANGED <<loadOrder, required, shutdownFinished, loadStarted>>
      BY DEF Quiet, Environment, Call, KeepCommand, PassCommand, LoadAgain, TakePending,
             LoadReturn, DispatchReturn, HandlerReturn, ShutdownAgain, flags, resolution
<1> QED BY <1>1, NothingHappens

LEMMA QuietLively ==
    ASSUME Lively, NEW t \in Threads, Quiet(t)
    PROVE  Unlisted' /\ Passes' /\ Reasons'
<1>1. /\ \A p \in Plugins : Same(p)
      /\ UNCHANGED <<loadOrder, required, shutdownFinished, loadStarted>>
      BY QuietEffect
<1>2. Typed /\ Passes /\ Unlisted /\ Reasons /\ Values
      BY DEF Lively, Typed
<1>3. Unlisted' /\ Reasons'
      BY <1>1, <1>2, QuietReasons
<1>4. CASE Call(t)
  <2>1. PICK api \in {"loadPlugins", "shutdownPlugins"} :
            /\ MayCall(t, api)
            /\ Push(t, [call |-> api, at |-> "enter", next |-> 0, command |-> NoCommand])
        BY <1>4 DEF Call
  <2> DEFINE f == [call |-> api, at |-> "enter", next |-> 0, command |-> NoCommand]
  <2>2. f \in Frame /\ ~Passing(f)
        BY DEF Frame, Passing, LoadPass, LoaderFrame, EndPass, NoCommand
  <2>3. stack[t] # <<>> => ~LoadPass(Top(t))
        BY <2>1 DEF MayCall, LoadPass, LoaderFrame
  <2>4. Push(t, f)
        BY <2>1
  <2> HIDE DEF f
  <2> QED BY <1>1, <1>2, <1>3, <2>2, <2>3, <2>4, PushKept
<1>5. CASE KeepCommand(t)
  <2>1. stack' = stack
        BY <1>5 DEF KeepCommand
  <2> QED BY <1>1, <1>2, <1>3, <2>1, KeptPasses
<1>6. CASE PassCommand(t) \/ TakePending(t)
  <2>1. PICK c \in Nat : Push(t, DispatchFrame(c))
    <3>1. CASE PassCommand(t)
      <4>1. passed + 1 \in Nat
            BY <1>2, BoundAssumption DEF Values
      <4> QED BY <3>1, <4>1 DEF PassCommand
    <3>2. CASE TakePending(t)
      <4> DEFINE S == 1 .. MaxCommands
      <4>1. pending \in Seq(S) /\ pending # <<>> /\ S \subseteq Nat
            BY <1>2, <3>2 DEF TakePending, Values
      <4> HIDE DEF S
      <4>2. Head(pending) \in Nat
            BY <4>1, HeadTailProperties
      <4> QED BY <3>2, <4>2 DEF TakePending, NextKept
    <3> QED BY <1>6, <3>1, <3>2
  <2> DEFINE f == DispatchFrame(c)
  <2>2. f \in Frame /\ ~Passing(f)
        BY DEF DispatchFrame, Frame, Passing, LoadPass, LoaderFrame, EndPass
  <2>3. stack[t] # <<>> => ~LoadPass(Top(t))
        BY <1>6 DEF PassCommand, TakePending, At, MayCall, LoadPass, LoaderFrame
  <2>4. Push(t, f)
        BY <2>1
  <2> HIDE DEF f
  <2> QED BY <1>1, <1>2, <1>3, <2>2, <2>3, <2>4, PushKept
<1>7. CASE \/ LoadAgain(t) \/ LoadReturn(t) \/ DispatchReturn(t) \/ HandlerReturn(t)
           \/ ShutdownAgain(t)
  <2>1. /\ stack[t] # <<>> /\ Return(t) /\ ~Passing(Top(t))
        /\ Top(t).call = "callback" => Top(t).at \in {"remoteCommand", "aboutToShutdown"}
        BY <1>7 DEF LoadAgain, LoadReturn, DispatchReturn, HandlerReturn, ShutdownAgain,
                    CallbackReturns, At, Passing, LoadPass, LoaderFrame, EndPass
  <2> QED BY <1>1, <1>2, <1>3, <2>1, ReturnKept
<1> QED BY <1>4, <1>5, <1>6, <1>7 DEF Quiet, Environment


-----------------------------------------------------------------------------
(* shutdownPlugins().                                                      *)

LEMMA ShutdownStartLively ==
    ASSUME Lively, Skeleton', NEW t \in Threads, ShutdownStart(t)
    PROVE  Unlisted' /\ Passes' /\ Reasons'
<1>1. /\ stack[t] # <<>> /\ Top(t).call = "shutdownPlugins" /\ lifecycleMtx = NoThread
      /\ loadStarted /\ ~shutdownFinished /\ shutdownFinished' = TRUE
      /\ Goto(t, "notify", Len(loadOrder))
      /\ UNCHANGED <<loadOrder, required>> /\ UNCHANGED <<specs, calls>>
      BY DEF ShutdownStart, ShutdownLock, Acquire, At, resolution
<1>2. \A p \in Plugins : Same(p)
      BY <1>1, NothingHappens
<1>3. NoLoadPass /\ Typed /\ Len(loadOrder) \in Nat
      BY <1>1, FreeLock DEF Lively, Typed, Values
<1>4. Settled
      BY <1>1, <1>3, SettledNow
<1>5. \A k \in Places : loadOrder'[k] = loadOrder[k]
                        /\ (Running(loadOrder[k])' \/ Bad(loadOrder[k])')
  <2> TAKE k \in Places
  <2>1. loadOrder[k] \in Plugins /\ (Running(loadOrder[k]) \/ Bad(loadOrder[k]))
        BY <1>3, <1>4 DEF Settled, Places, Typed, Values
  <2> QED BY <1>1, <1>2, <2>1, SameStage
<1>6. PICK n \in Nat : n = Len(loadOrder)
      BY <1>3
<1>7. NotifyPhase(n)'
      BY <1>1, <1>5, <1>6 DEF NotifyPhase, Places, Downward
<1>8. Passes'
      BY <1>1, <1>3, <1>6, <1>7, GotoPasses
<1> QED BY <1>1, <1>2, <1>8, QuietReasons DEF Lively

LEMMA NotifyEffect ==
    ASSUME Lively, NEW t \in Threads, NotifyStep(t), NEW i \in Places, i = Top(t).next
    PROVE  /\ OnlyAt(i) /\ NotifyPhase(i)
           /\ \/ Goto(t, "notify", i - 1) /\ Same(loadOrder[i]) /\ Bad(loadOrder[i])
              \/ /\ CallBack(t, "aboutToShutdown", i - 1)
                 /\ Running(loadOrder[i]) /\ Told(loadOrder[i])'
           /\ UNCHANGED <<loadOrder, required, shutdownFinished, state, error, mapped>>
           /\ shutdownFinished
<1> DEFINE p == loadOrder[i]
<1>0. stack[t] # <<>> /\ InOrder(t) /\ Top(t).call = "shutdownPlugins" /\ Top(t).at = "notify"
      BY DEF NotifyStep, At
<1>1. p \in Plugins /\ Current(t) = p /\ Typed
      BY <1>0, LoopAt DEF Lively
<1>2. NotifyPhase(i) /\ shutdownFinished
      BY <1>0, TopPass, TopOK DEF Lively, Typed, EndPass
<1>3. Running(p) \/ Bad(p)
      BY <1>2 DEF NotifyPhase, Places
<1>4. UNCHANGED <<loadOrder, required, shutdownFinished, state, error, mapped>> /\ loadOrder'[i] = p
      BY DEF NotifyStep, flags, resolution, specs
<1>5. \/ state[p] = "Running" /\ CallBack(t, "aboutToShutdown", i - 1)
      \/ state[p] # "Running" /\ Goto(t, "notify", i - 1) /\ calls' = calls
      BY <1>1 DEF NotifyStep, NotifyAllowed
<1> HIDE DEF p
<1>6. CASE state[p] # "Running" /\ Goto(t, "notify", i - 1) /\ calls' = calls
  <2>1. \A q \in Plugins : Same(q)
        BY <1>4, <1>6 DEF Same
  <2>2. Bad(p)
        BY <1>3, <1>6 DEF Running
  <2> QED BY <1>1, <1>2, <1>4, <1>6, <2>1, <2>2 DEF OnlyAt, p
<1>7. CASE state[p] = "Running" /\ CallBack(t, "aboutToShutdown", i - 1)
  <2>1. /\ calls'[p] # <<>>
        /\ Len(calls[p]) \in Nat
        /\ Len(calls'[p]) = Len(calls[p]) + 1
        /\ Last(calls'[p]).at = "aboutToShutdown"
        /\ \A q \in Plugins : q # p => calls'[q] = calls[q]
        BY <1>0, <1>1, <1>7, CallBackCalls DEF Callbacks
  <2>2. \A q \in Plugins : q # p => Same(q)
        BY <1>4, <2>1 DEF Same
  <2>3. Running(p)
        BY <1>3, <1>7 DEF Bad, Rejected, Unusable, Skipped, Failed
  <2>4. Told(p)'
        BY <1>4, <2>1, <2>3 DEF Running, Told, p
  <2> QED BY <1>2, <1>4, <1>7, <2>2, <2>3, <2>4 DEF OnlyAt, p
<1> QED BY <1>5, <1>6, <1>7

LEMMA NotifyStepLively ==
    ASSUME Lively, Skeleton', NEW t \in Threads, NotifyStep(t)
    PROVE  Unlisted' /\ Passes' /\ Reasons'
<1>0. /\ stack[t] # <<>> /\ InOrder(t) /\ Top(t).call = "shutdownPlugins" /\ Typed /\ Ordering
      /\ At(t, "shutdownPlugins", "notify")
      BY DEF NotifyStep, At, Lively
<1>1. PICK i \in Places : i = Top(t).next
      BY <1>0, LoopAt
<1>2. /\ OnlyAt(i) /\ NotifyPhase(i)
      /\ \/ Goto(t, "notify", i - 1) /\ Same(loadOrder[i]) /\ Bad(loadOrder[i])
         \/ /\ CallBack(t, "aboutToShutdown", i - 1)
            /\ Running(loadOrder[i]) /\ Told(loadOrder[i])'
      /\ UNCHANGED <<loadOrder, required, shutdownFinished, state, error, mapped>>
      /\ shutdownFinished
      BY <1>1, NotifyEffect
<1>3. i - 1 \in Nat /\ loadOrder' = loadOrder
      BY <1>2 DEF Places
<1>4. Unlisted'
      BY <1>0, <1>2, UnlistedKept DEF Lively
<1>5. Reasons'
      BY <1>2 DEF Reasons
<1>6. Told(loadOrder[i])' \/ Bad(loadOrder[i])'
      BY <1>2, <1>3, SameStage
<1>7. NotifyPhase(i - 1)'
      BY <1>0, <1>2, <1>6, NotifyAdvances
<1>8. CASE Goto(t, "notify", i - 1)
      BY <1>0, <1>3, <1>4, <1>5, <1>7, <1>8, GotoPasses
<1>9. CASE CallBack(t, "aboutToShutdown", i - 1)
      BY <1>0, <1>3, <1>4, <1>5, <1>7, <1>9, CallBackPasses DEF Callbacks
<1> QED BY <1>2, <1>8, <1>9

LEMMA NotifyPassEndsLively ==
    ASSUME Lively, Skeleton', NEW t \in Threads, NotifyPassEnds(t)
    PROVE  Unlisted' /\ Passes' /\ Reasons'
<1>1. /\ stack[t] # <<>> /\ Top(t).call = "shutdownPlugins" /\ Goto(t, "unload", Len(loadOrder))
      /\ Top(t).at = "notify" /\ ~InOrder(t)
      /\ UNCHANGED <<loadOrder, required, shutdownFinished>> /\ UNCHANGED <<specs, calls>>
      BY DEF NotifyPassEnds, At, resolution, flags
<1>2. \A p \in Plugins : Same(p)
      BY <1>1, NothingHappens
<1>3. /\ loadOrder \in Seq(Plugins) /\ Len(loadOrder) \in Nat
      /\ Places' = Places /\ Downward' = Downward
      BY <1>1 DEF Lively, Typed, Values, Places, Downward
<1>4. \A k \in Places : loadOrder'[k] = loadOrder[k]
                        /\ (Told(loadOrder[k])' \/ Bad(loadOrder[k])')
  <2> TAKE k \in Places
  <2>1. NotifyPhase(Top(t).next)
        BY <1>1, TopPass DEF Lively
  <2>2. Top(t).next = 0
        BY <1>1, <1>3, <2>1 DEF NotifyPhase, Downward, InOrder
  <2>3. (Told(loadOrder[k]) \/ Bad(loadOrder[k])) /\ loadOrder[k] \in Plugins
        BY <1>3, <2>1, <2>2 DEF NotifyPhase, Places
  <2> QED BY <1>1, <1>2, <2>3, SameStage
<1>5. PICK n \in Nat : n = Len(loadOrder)
      BY <1>3
<1>6. UnloadPhase(n)'
      BY <1>3, <1>4, <1>5 DEF UnloadPhase, Downward, Places
<1>7. Passes'
      BY <1>1, <1>5, <1>6, GotoPasses DEF Lively
<1> QED BY <1>1, <1>2, <1>7, QuietReasons DEF Lively

\* Stages from which a plugin's library is unloaded.
LEMMA UnloadEffect ==
    ASSUME Lively, NEW t \in Threads, UnloadStep(t), NEW i \in Places, i = Top(t).next
    PROVE  /\ OnlyAt(i) /\ UnloadPhase(i) /\ Ended(loadOrder[i])'
           /\ \/ Same(loadOrder[i]) /\ Rejected(loadOrder[i])
              \/ /\ Gone(loadOrder[i])' \/ Stuck(loadOrder[i])'
                 /\ \/ Told(loadOrder[i]) \/ Unusable(loadOrder[i])
                    \/ Skipped(loadOrder[i]) \/ Failed(loadOrder[i])
           /\ UNCHANGED <<loadOrder, required, shutdownFinished, calls>>
           /\ shutdownFinished
<1> DEFINE p == loadOrder[i]
<1>0. stack[t] # <<>> /\ InOrder(t) /\ Top(t).call = "shutdownPlugins" /\ Top(t).at = "unload"
      BY DEF UnloadStep, At
<1>1. p \in Plugins /\ Current(t) = p /\ Typed
      BY <1>0, LoopAt DEF Lively
<1>2. UnloadPhase(i) /\ shutdownFinished
      BY <1>0, TopPass, TopOK DEF Lively, Typed, EndPass
<1>3. Told(p) \/ Bad(p)
      BY <1>2 DEF UnloadPhase, Places
<1>4. UNCHANGED <<loadOrder, required, shutdownFinished, calls>> /\ loadOrder'[i] = p
      BY DEF UnloadStep, flags, resolution
<1>5. \/ ~mapped[p] /\ UNCHANGED <<state, error, mapped>>
      \/ mapped[p] /\ error' = [error EXCEPT ![p] = "unload"] /\ UNCHANGED <<state, mapped>>
      \/ /\ mapped[p] /\ mapped' = [mapped EXCEPT ![p] = FALSE]
         /\ state' = [state EXCEPT ![p] = "Stopped"] /\ UNCHANGED error
      BY <1>1 DEF UnloadStep, UnloadPlugin, specs, ReportError, SetState
<1>6. /\ state \in [Plugins -> States] /\ error \in [Plugins -> Errors]
      /\ mapped \in [Plugins -> BOOLEAN]
      BY <1>1 DEF Typed, Values
<1> HIDE DEF p
<1>7. \A q \in Plugins : q # p => Same(q)
      BY <1>4, <1>5, <1>6 DEF Same
<1>8. ASSUME ~mapped[p]
      PROVE  Same(p) /\ Rejected(p) /\ Rejected(p)'
  <2>1. Same(p)
        BY <1>4, <1>5, <1>8 DEF Same, p
  <2>2. Rejected(p)
        BY <1>3, <1>8 DEF Told, Bad, Unusable, Skipped, Failed
  <2> QED BY <1>4, <2>1, <2>2 DEF Same, Rejected, p
<1>9. ASSUME mapped[p]
      PROVE  /\ Gone(p)' \/ Stuck(p)'
             /\ Told(p) \/ Unusable(p) \/ Skipped(p) \/ Failed(p)
  <2>1. Told(p) \/ Unusable(p) \/ Skipped(p) \/ Failed(p)
        BY <1>3, <1>9 DEF Bad, Rejected
  <2>2. state[p] # "Stopped"
        BY <2>1 DEF Told, Unusable, Skipped, Failed
  <2>3. Gone(p)' \/ Stuck(p)'
        BY <1>1, <1>4, <1>5, <1>6, <1>9, <2>2 DEF Gone, Stuck, p
  <2> QED BY <2>1, <2>3
<1>10. Ended(p)'
       BY <1>8, <1>9 DEF Ended
<1> QED BY <1>2, <1>4, <1>7, <1>8, <1>9, <1>10 DEF OnlyAt, p

LEMMA UnloadStepLively ==
    ASSUME Lively, Skeleton', NEW t \in Threads, UnloadStep(t)
    PROVE  Unlisted' /\ Passes' /\ Reasons'
<1>0. stack[t] # <<>> /\ InOrder(t) /\ Top(t).call = "shutdownPlugins" /\ Typed /\ Ordering
      BY DEF UnloadStep, At, Lively
<1>1. PICK i \in Places : i = Top(t).next
      BY <1>0, LoopAt
<1>2. /\ OnlyAt(i) /\ UnloadPhase(i) /\ Ended(loadOrder[i])'
      /\ UNCHANGED <<loadOrder, required, shutdownFinished>> /\ shutdownFinished
      BY <1>1, UnloadEffect
<1>3. i - 1 \in Nat
      BY DEF Places
<1>4. UnloadPhase(i - 1)'
      BY <1>0, <1>2, UnloadAdvances
<1>5. Goto(t, "unload", i - 1)
      BY <1>1 DEF UnloadStep
<1>6. Passes'
      BY <1>0, <1>3, <1>4, <1>5, GotoPasses
<1>7. Unlisted'
      BY <1>0, <1>2, UnlistedKept DEF Lively
<1> QED BY <1>2, <1>6, <1>7 DEF Reasons

LEMMA ShutdownReturnLively ==
    ASSUME Lively, Skeleton', NEW t \in Threads, ShutdownReturn(t)
    PROVE  Unlisted' /\ Passes' /\ Reasons' /\ Over
<1>1. /\ stack[t] # <<>> /\ Top(t).call = "shutdownPlugins" /\ Top(t).at = "unload"
      /\ Return(t) /\ ~InOrder(t)
      /\ UNCHANGED <<loadOrder, required, shutdownFinished>> /\ UNCHANGED <<specs, calls>>
      /\ Typed
      BY DEF ShutdownReturn, At, resolution, flags, Lively
<1>2. \A p \in Plugins : Same(p)
      BY <1>1, NothingHappens
<1>3. Passing(Top(t)) /\ EndPass(Top(t))
      BY <1>1 DEF Passing, EndPass
<1>4. shutdownFinished
      BY <1>1, <1>3, TopOK DEF Typed
<1>5. Over /\ Over'
  <2>1. UnloadPhase(Top(t).next)
        BY <1>1, TopPass DEF Lively
  <2>2. /\ loadOrder \in Seq(Plugins) /\ Len(loadOrder) \in Nat /\ Places' = Places
        BY <1>1 DEF Lively, Typed, Values, Places
  <2>3. Top(t).next = 0
        BY <1>1, <2>1, <2>2 DEF UnloadPhase, Downward, InOrder
  <2>4. \A k \in Places : Ended(loadOrder[k]) /\ loadOrder[k] \in Plugins
        BY <2>1, <2>2, <2>3 DEF UnloadPhase, Places
  <2> QED BY <1>1, <1>2, <2>2, <2>4, SameStage DEF Over
<1>6. Between'
      BY <1>1, <1>4, <1>5 DEF Between
<1>7. Passes'
      BY <1>1, <1>3, <1>6, OnlyPassEnds, PassIsOver
<1> QED BY <1>1, <1>2, <1>5, <1>7, QuietReasons DEF Lively


-----------------------------------------------------------------------------
(* The invariant.                                                          *)

LEMMA InitLively == Init => Lively
<1> SUFFICES ASSUME Init PROVE Lively
    OBVIOUS
<1>1. Typed /\ loadOrder = <<>> /\ Places = {} /\ \A t \in Threads : Len(stack[t]) = 0
      BY InitTyped DEF Init, Places
<1>2. Ordering
      BY <1>1 DEF Ordering
<1>3. Unlisted
      BY DEF Init, Unlisted, Fresh
<1>4. Passes
      BY <1>1 DEF Passes, PassesOK, Between, Init
<1>5. Reasons
      BY DEF Init, Reasons, CalledBecause, Blamed
<1> QED BY <1>1, <1>2, <1>3, <1>4, <1>5 DEF Lively

LEMMA NextLively ==
    ASSUME Lively, [Next]_vars
    PROVE  Lively'
<1>1. Typed /\ Typed' /\ Skeleton' /\ Ordering
      BY NextTyped DEF Lively, Typed
<1>2. CASE UNCHANGED vars
      BY <1>1, <1>2 DEF Lively, vars, flags, commands, resolution, specs, Ordering, Places,
         Unlisted, Fresh, Passes, PassesOK, PassOK, LoadPhase, InitializePhase, InitializeCalled,
         ReadyPhase, ReadyCalled, NotifyPhase, UnloadPhase, Upward, Downward, Between, Settled,
         Over, NoLoadPass, NoEndPass, Reasons, CalledBecause, Blamed, Resolved, Rejected, Unusable,
         Loaded, Skipped, Initializing, Failed, Initialized, Readying, Running, Told, Gone, Stuck,
         Bad, Tried, Ended
<1>3. ASSUME NEW t \in Threads, Environment(t) \/ System(t) \/ CallbackReturn(t)
      PROVE  Lively'
  <2>1. CASE Resolve(t)
        BY <1>1, <2>1, ResolveLively DEF Lively
  <2>2. CASE LoadStep(t) \/ InitializeStep(t) \/ ReadyStep(t)
    <3>1. Unlisted' /\ Passes' /\ Reasons'
          BY <1>1, <2>2, LoadStepLively, InitializeStepLively, ReadyStepLively
    <3>2. UNCHANGED resolution
          BY <2>2 DEF LoadStep, InitializeStep, ReadyStep
    <3> QED BY <1>1, <3>1, <3>2 DEF Lively, Ordering, Places, resolution
  <2>3. CASE LoadStart(t) \/ LoadPassEnds(t) \/ InitializePassEnds(t) \/ ReadyPassEnds(t)
    <3>1. Unlisted' /\ Passes' /\ Reasons'
          BY <1>1, <2>3, LoadStartLively, LoadPassEndsLively, InitializePassEndsLively,
             ReadyPassEndsLively
    <3>2. UNCHANGED resolution
          BY <2>3 DEF LoadStart, LoadPassEnds, InitializePassEnds, ReadyPassEnds
    <3> QED BY <1>1, <3>1, <3>2 DEF Lively, Ordering, Places, resolution
  <2>4. CASE Quiet(t)
    <3>1. Unlisted' /\ Passes' /\ Reasons'
          BY <2>4, QuietLively
    <3>2. UNCHANGED <<loadOrder, required>>
          BY <2>4, QuietEffect
    <3> QED BY <1>1, <3>1, <3>2 DEF Lively, Ordering, Places
  <2>5. CASE DispatchStep(t) \/ InitializeReturn(t) \/ ReadyReturn(t)
    <3>1. Unlisted' /\ Passes' /\ Reasons'
          BY <1>1, <2>5, DispatchStepLively, InitializeReturnLively, ReadyReturnLively
    <3>2. UNCHANGED resolution
          BY <2>5 DEF DispatchStep, InitializeReturn, ReadyReturn
    <3> QED BY <1>1, <3>1, <3>2 DEF Lively, Ordering, Places, resolution
  <2>6. CASE \/ ShutdownStart(t) \/ NotifyStep(t) \/ NotifyPassEnds(t)
             \/ UnloadStep(t) \/ ShutdownReturn(t)
    <3>1. Unlisted' /\ Passes' /\ Reasons'
          BY <1>1, <2>6, ShutdownStartLively, NotifyStepLively, NotifyPassEndsLively,
             UnloadStepLively, ShutdownReturnLively
    <3>2. UNCHANGED resolution
          BY <2>6 DEF ShutdownStart, NotifyStep, NotifyPassEnds, UnloadStep, ShutdownReturn
    <3> QED BY <1>1, <3>1, <3>2 DEF Lively, Ordering, Places, resolution
  <2> QED BY <1>3, <2>1, <2>2, <2>3, <2>4, <2>5, <2>6
          DEF System, LoadPlugins, Dispatch, ShutdownPlugins, CallbackReturn, Quiet
<1> QED BY <1>2, <1>3 DEF Next

\* Every plugin is in the stage that the passes have come to, at all times.
LEMMA AlwaysLively == Spec => []Lively
BY InitLively, NextLively, PTL DEF Spec


-----------------------------------------------------------------------------
(* What follows for loadPlugins().                                         *)

\* Required dependencies that were never in doubt: a plugin that was called and
\* has no error has providers that run, once loading is over.
LEMMA ProvidersRun ==
    ASSUME Lively, Settled, ~shutdownFinished, NEW k \in Places, Running(loadOrder[k]),
           NEW d \in required[loadOrder[k]]
    PROVE  Running(d)
<1>1. loadOrder[k] \in Plugins /\ d \in Plugins /\ \E j \in Places : loadOrder[j] = d
      BY ProviderEarlier DEF Lively, Typed, Values, Places
<1>2. Running(d) \/ Bad(d)
      BY <1>1 DEF Settled
<1>3. calls[loadOrder[k]] # <<>> /\ error[loadOrder[k]] = "none"
  <2>1. calls[loadOrder[k]] = <<>> => Len(calls[loadOrder[k]]) = 0
        OBVIOUS
  <2> QED BY <2>1 DEF Running
<1>4. error[d] = "none"
      BY <1>1, <1>3 DEF Lively, Reasons, CalledBecause
<1>5. ~Bad(d)
      BY <1>4 DEF Bad, Rejected, Unusable, Skipped, Failed
<1> QED BY <1>2, <1>5

LEMMA LivelyErrors == Lively => ErrorsPropagate
<1> SUFFICES ASSUME Lively, loadFinished, ~shutdownFinished, NEW p \in ToSet(loadOrder)
             PROVE  /\ state[p] = "Running" <=> error[p] = "none"
                    /\ error[p] = "dependency" => \E d \in required[p] : error[d] # "none"
                    /\ \A d \in required[p] : error[d] # "none" => error[p] # "none"
    BY DEF ErrorsPropagate
<1>1. PICK k \in Places : loadOrder[k] = p /\ p \in Plugins
      BY DEF ToSet, Lively, Typed, Values, Places
<1>2. loadStarted /\ NoLoadPass
      BY DEF Lively, Typed, Skeleton, Discipline, FlagsOK, FramesOK, NoLoadPass, LoadPass
<1>3. Settled
      BY <1>2, SettledNow
<1>4. Running(p) \/ Bad(p)
      BY <1>1, <1>3 DEF Settled
<1>5. state[p] = "Running" <=> error[p] = "none"
      BY <1>4 DEF Running, Bad, Rejected, Unusable, Skipped, Failed
<1>6. error[p] = "dependency" => \E d \in required[p] : error[d] # "none"
      BY <1>1 DEF Lively, Reasons, Blamed
<1>7. \A d \in required[p] : error[d] # "none" => error[p] # "none"
  <2> TAKE d \in required[p]
  <2>1. Running(p) => Running(d)
        BY <1>1, <1>3, ProvidersRun
  <2> QED BY <1>4, <2>1 DEF Running, Bad, Rejected, Unusable, Skipped, Failed
<1> QED BY <1>5, <1>6, <1>7

\* After loading, a plugin runs unless it has an error, and an error comes from
\* the plugin itself or from a provider whose error never goes unnoticed: for any
\* plugins, dependencies, failures, threads and calls.
THEOREM ErrorsAlwaysPropagate == Spec => []ErrorsPropagate
BY AlwaysLively, LivelyErrors, PTL

\* Once loading is over, a listed plugin runs, was told, has ended or never ran.
LEMMA AfterLoading ==
    ASSUME Lively, loadStarted, NoLoadPass, NEW k \in Places
    PROVE  LET p == loadOrder[k] IN Running(p) \/ Told(p) \/ Bad(p) \/ Ended(p)
<1>1. CASE ~shutdownFinished
      BY <1>1, SettledNow DEF Settled
<1>2. CASE shutdownFinished /\ NoEndPass
      BY <1>2 DEF Lively, Passes, Between, Over
<1>3. CASE ~NoEndPass
  <2>1. PICK u \in Threads : \E i \in 1 .. Len(stack[u]) : EndPass(stack[u][i])
        BY <1>3 DEF NoEndPass
  <2>2. PICK i \in 1 .. Len(stack[u]) : EndPass(stack[u][i])
        BY <2>1
  <2>3. stack[u][i].next \in Nat /\ FrameOK(stack[u][i])
    <3>1. stack[u] \in Seq(Frame)
          BY DEF Lively, Typed, Skeleton, Stacks
    <3>2. stack[u][i] \in Frame
          BY <3>1, ElementOfSeq
    <3> QED BY <3>2 DEF Frame, Lively, Typed, Skeleton, StackOK
  <2>4. PICK n \in Nat : n = stack[u][i].next
        BY <2>3
  <2>5. PassOK(u, i, n)
        BY DEF Lively, Passes, PassesOK
  <2>6. NotifyPhase(n) \/ UnloadPhase(n)
        BY <2>2, <2>3, <2>4, <2>5 DEF PassOK, EndPass, FrameOK
  <2> QED BY <2>6 DEF NotifyPhase, UnloadPhase
<1> QED BY <1>1, <1>2, <1>3

-----------------------------------------------------------------------------
(* What returns.                                                           *)

LEMMA NeverShorter ==
    ASSUME stack \in Stacks, NEW t \in Threads,
           \/ stack' = stack
           \/ \E f : Push(t, f)
           \/ stack[t] # <<>> /\ \E at, next : Goto(t, at, next)
           \/ stack[t] # <<>> /\ \E next, f : PushFromLoop(t, next, f)
    PROVE  \A u \in Threads : ~(Len(stack'[u]) < Len(stack[u]))
<1> DEFINE s == stack[t]
<1>1. s \in Seq(Frame) /\ Len(s) \in Nat /\ \A u \in Threads : Len(stack[u]) \in Nat
      BY DEF Stacks
<1>2. ASSUME NEW f, Push(t, f)
      PROVE  \A u \in Threads : ~(Len(stack'[u]) < Len(stack[u]))
  <2>1. stack'[t] = Append(s, f) /\ \A u \in Threads \ {t} : stack'[u] = stack[u]
        BY <1>2 DEF Push, Stacks
  <2>2. s \in Seq(Frame \cup {f})
        BY <1>1, SeqMonotonic
  <2>3. Len(Append(s, f)) = Len(s) + 1
        BY <2>2, AppendProperties
  <2> QED BY <1>1, <2>1, <2>3
<1>3. ASSUME NEW g, s # <<>>, stack' = [stack EXCEPT ![t] = Append(Front(@), g)]
      PROVE  \A u \in Threads : ~(Len(stack'[u]) < Len(stack[u]))
  <2>1. stack'[t] = Append(Front(s), g) /\ \A u \in Threads \ {t} : stack'[u] = stack[u]
        BY <1>3 DEF Stacks
  <2>2. Front(s) \in Seq(Frame) /\ Len(Front(s)) = Len(s) - 1
        BY <1>1, <1>3 DEF Front
  <2>3. Front(s) \in Seq(Frame \cup {g})
        BY <2>2, SeqMonotonic
  <2>4. Len(Append(Front(s), g)) = Len(s)
        BY <1>1, <2>2, <2>3, AppendProperties
  <2> QED BY <1>1, <2>1, <2>4
<1>4. ASSUME NEW g, NEW f, s # <<>>, stack' = [stack EXCEPT ![t] = Front(@) \o <<g, f>>]
      PROVE  \A u \in Threads : ~(Len(stack'[u]) < Len(stack[u]))
  <2>1. stack'[t] = Front(s) \o <<g, f>> /\ \A u \in Threads \ {t} : stack'[u] = stack[u]
        BY <1>4 DEF Stacks
  <2> DEFINE S == Frame \cup {g, f}
  <2>2. Front(s) \in Seq(Frame) /\ Len(Front(s)) = Len(s) - 1
        BY <1>1, <1>4 DEF Front
  <2>3. Front(s) \in Seq(S) /\ g \in S /\ f \in S
        BY <2>2, SeqMonotonic
  <2> HIDE DEF S
  <2>4. Front(s) \o <<g, f>> = Append(Append(Front(s), g), f)
        BY <2>3, ConcatTwo
  <2>5. Append(Front(s), g) \in Seq(S) /\ Len(Append(Front(s), g)) = Len(s)
        BY <1>1, <2>2, <2>3, AppendProperties
  <2>6. Len(Append(Append(Front(s), g), f)) = Len(s) + 1
        BY <2>3, <2>5, AppendProperties
  <2> QED BY <1>1, <2>1, <2>4, <2>6
<1>5. CASE stack' = stack
      BY <1>1, <1>5
<1>6. CASE stack[t] # <<>> /\ \E at, next : Goto(t, at, next)
      BY <1>3, <1>6 DEF Goto
<1>7. CASE stack[t] # <<>> /\ \E next, f : PushFromLoop(t, next, f)
      BY <1>4, <1>7 DEF PushFromLoop
<1> QED BY <1>2, <1>5, <1>6, <1>7

\* A call is over when its frame returns.
LEMMA CallOver ==
    ASSUME Typed, NEW t \in Threads, Environment(t) \/ System(t) \/ CallbackReturn(t),
           NEW u \in Threads, Len(stack'[u]) < Len(stack[u]),
           Top(u).call \in {"loadPlugins", "shutdownPlugins"}
    PROVE  /\ u = t
           /\ LoadAgain(t) \/ LoadReturn(t) \/ ShutdownAgain(t) \/ ShutdownReturn(t)
<1>1. stack \in Stacks
      BY DEF Typed, Skeleton
<1>2. ASSUME stack[t] # <<>>, Return(t)
      PROVE  u = t
  <2>1. \A v \in Threads \ {t} : stack'[v] = stack[v]
        BY <1>1, <1>2, ReturnStack
  <2>2. Len(stack[u]) \in Nat
        BY <1>1 DEF Stacks
  <2> QED BY <2>1, <2>2
<1>3. ~(\/ Environment(t) \/ DispatchStep(t) \/ LoadStart(t) \/ Resolve(t) \/ LoadStep(t)
        \/ LoadPassEnds(t) \/ InitializeStep(t) \/ InitializePassEnds(t) \/ ReadyStep(t)
        \/ ReadyPassEnds(t) \/ TakePending(t) \/ ShutdownStart(t) \/ NotifyStep(t)
        \/ NotifyPassEnds(t) \/ UnloadStep(t))
  <2>1. ASSUME Environment(t) \/ TakePending(t)
        PROVE  stack' = stack \/ \E f : Push(t, f)
        BY <2>1 DEF Environment, Call, KeepCommand, PassCommand, TakePending
  <2>2. ASSUME \/ LoadStart(t) \/ Resolve(t) \/ LoadStep(t)
               \/ LoadPassEnds(t) \/ InitializePassEnds(t) \/ ReadyPassEnds(t)
               \/ ShutdownStart(t) \/ NotifyPassEnds(t) \/ UnloadStep(t)
        PROVE  stack[t] # <<>> /\ \E at, next : Goto(t, at, next)
        BY <2>2 DEF LoadStart, Resolve, LoadStep, LoadPassEnds, InitializePassEnds,
                    ReadyPassEnds, ShutdownStart, NotifyPassEnds, UnloadStep, At
  <2>3. ASSUME DispatchStep(t) \/ InitializeStep(t) \/ ReadyStep(t) \/ NotifyStep(t)
        PROVE  \/ stack[t] # <<>> /\ \E at, next : Goto(t, at, next)
               \/ stack[t] # <<>> /\ \E next, f : PushFromLoop(t, next, f)
        BY <2>3 DEF DispatchStep, InitializeStep, ReadyStep, NotifyStep, CallBack, At
  <2> QED BY <1>1, <2>1, <2>2, <2>3, NeverShorter
<1>4. ASSUME DispatchReturn(t) \/ CallbackReturn(t)
      PROVE  FALSE
  <2>1. stack[t] # <<>> /\ Return(t) /\ Top(t).call \in {"dispatch", "callback"}
        BY <1>4 DEF DispatchReturn, CallbackReturn, InitializeReturn, ReadyReturn,
                    HandlerReturn, CallbackReturns, At
  <2> QED BY <1>2, <2>1
<1>5. LoadAgain(t) \/ LoadReturn(t) \/ ShutdownAgain(t) \/ ShutdownReturn(t)
      BY <1>3, <1>4 DEF System, LoadPlugins, Dispatch, ShutdownPlugins
<1> QED BY <1>2, <1>5 DEF LoadAgain, LoadReturn, ShutdownAgain, ShutdownReturn, At


LEMMA StepSettled ==
    ASSUME Lively, Next, NEW u \in Threads, Len(stack'[u]) < Len(stack[u]),
           Top(u).call = "loadPlugins", NEW p \in ToSet(loadOrder), error[p] = "none"
    PROVE  state[p] \in {"Running", "Stopped"}
<1>1. PICK t \in Threads : Environment(t) \/ System(t) \/ CallbackReturn(t)
      BY DEF Next
<1>2. LoadAgain(u) \/ LoadReturn(u)
      BY <1>1, CallOver DEF ShutdownAgain, ShutdownReturn, At, Lively
<1>4. loadStarted /\ NoLoadPass
  <2>1. CASE LoadReturn(u)
    <3>1. stack[u] # <<>> /\ LoaderFrame(Top(u)) /\ ~LoadPass(Top(u))
          BY <2>1 DEF LoadReturn, At, LoaderFrame, LoadPass
    <3>2. Len(stack[u]) \in 1 .. Len(stack[u]) /\ Top(u) = stack[u][Len(stack[u])]
          BY <3>1, TopFrame DEF Lively, Typed, Skeleton
    <3>3. loadStarted
          BY <3>1, TopOK DEF Lively, Typed
    <3> QED BY <3>1, <3>2, <3>3 DEF Lively, Typed, Skeleton, Discipline, Exclusive, NoLoadPass,
                                    LoadPass
  <2>2. CASE LoadAgain(u)
        BY <2>2, FreeLock DEF LoadAgain, NothingToLoad, Lockable, Lively, Typed
  <2> QED BY <1>2, <2>1, <2>2
<1>3. DOMAIN loadOrder = Places
      BY DEF Lively, Typed, Values, Places
<1>5. PICK k \in Places : loadOrder[k] = p
      BY <1>3 DEF ToSet
<1>6. Running(p) \/ Told(p) \/ Bad(p) \/ Ended(p)
      BY <1>4, <1>5, AfterLoading
<1> QED BY <1>6 DEF Running, Told, Bad, Rejected, Unusable, Skipped, Failed, Ended, Gone, Stuck

\* Whichever call of loadPlugins() returns, the first or one that found nothing to
\* do, on whichever thread, each listed plugin runs, has stopped or has an error.
THEOREM LoadAlwaysSettled == Spec => LoadSettled
<1> DEFINE A == \A t \in Threads :
                    (Len(stack'[t]) < Len(stack[t]) /\ Top(t).call = "loadPlugins")
                        => \A p \in ToSet(loadOrder) :
                               error[p] = "none" => state[p] \in {"Running", "Stopped"}
<1>1. Lively /\ [Next]_vars => [A]_vars
      BY StepSettled
<1> QED BY <1>1, AlwaysLively, PTL DEF Spec, LoadSettled

-----------------------------------------------------------------------------
(* What follows for shutdownPlugins().                                     *)

LEMMA StepComplete ==
    ASSUME Lively, Next, NEW u \in Threads, Len(stack'[u]) < Len(stack[u]),
           Top(u).call = "shutdownPlugins", loadStarted, NEW p \in Plugins, mapped'[p]
    PROVE  error'[p] = "unload"
<1>1. PICK t \in Threads : Environment(t) \/ System(t) \/ CallbackReturn(t)
      BY DEF Next
<1>2. ShutdownAgain(u) \/ ShutdownReturn(u)
      BY <1>1, CallOver DEF LoadAgain, LoadReturn, At, Lively
<1>3. UNCHANGED <<mapped, error>>
      BY <1>2 DEF ShutdownAgain, ShutdownReturn, specs
<1>4. Over
  <2>1. CASE ShutdownAgain(u)
    <3>1. lifecycleMtx = NoThread /\ shutdownFinished
          BY <2>1 DEF ShutdownAgain, NothingToShutDown, Lockable
    <3> QED BY <3>1, FreeLock DEF Lively, Typed, Passes, Between
  <2>2. CASE ShutdownReturn(u)
    <3>1. stack[u] # <<>> /\ Top(u).call = "shutdownPlugins" /\ Top(u).at = "unload" /\ ~InOrder(u)
          BY <2>2 DEF ShutdownReturn, At
    <3>2. UnloadPhase(Top(u).next)
          BY <3>1, TopPass DEF Lively
    <3>3. loadOrder \in Seq(Plugins) /\ Len(loadOrder) \in Nat
          BY DEF Lively, Typed, Values
    <3>4. Top(u).next = 0
          BY <3>1, <3>2, <3>3 DEF UnloadPhase, Downward, InOrder
    <3> QED BY <3>2, <3>3, <3>4 DEF UnloadPhase, Over, Places
  <2> QED BY <1>2, <2>1, <2>2
<1>5. ~Fresh(p)
      BY <1>3 DEF Fresh
<1>6. Ended(p)
      BY <1>4, <1>5 DEF Lively, Unlisted, Over
<1> QED BY <1>3, <1>6 DEF Ended, Gone, Stuck, Rejected

\* Whichever call of shutdownPlugins() returns after loading was started, the one
\* that shuts down or another that waited for it, no library is left loaded but
\* those that could not be unloaded.
THEOREM ShutdownAlwaysComplete == Spec => ShutdownComplete
<1> DEFINE A == \A t \in Threads :
                    (Len(stack'[t]) < Len(stack[t]) /\ Top(t).call = "shutdownPlugins"
                         /\ loadStarted)
                        => \A p \in Plugins : mapped'[p] => error'[p] = "unload"
<1>1. Lively /\ [Next]_vars => [A]_vars
      BY StepComplete
<1> QED BY <1>1, AlwaysLively, PTL DEF Spec, ShutdownComplete

\* A callback that is no command leaves the commands a plugin has heard.
LEMMA CallBackKeepsHeard ==
    ASSUME Typed, NEW t \in Threads, stack[t] # <<>>, InOrder(t), NEW at \in Callbacks, NEW next,
           CallBack(t, at, next), at # "remoteCommand"
    PROVE  \A p \in Plugins : Handed(p)' = Handed(p) /\ Heard(p)' = Heard(p)
<1> DEFINE c == [at |-> at, command |-> Top(t).command]
<1>1. Current(t) \in Plugins
      BY LoopAt
<1>2. Top(t).command \in Nat
      BY TopFrame DEF Typed, Skeleton, Frame
<1>3. c \in Given /\ c.at = at
      BY <1>2 DEF Given
<1>4. calls' = [calls EXCEPT ![Current(t)] = Append(@, c)] /\ calls \in [Plugins -> Seq(Given)]
      BY DEF CallBack, Typed, Values
<1> HIDE DEF c
<1> TAKE p \in Plugins
<1>5. CASE p # Current(t)
  <2>1. calls'[p] = calls[p]
        BY <1>1, <1>4, <1>5
  <2> QED BY <2>1 DEF Handed, Heard
<1>6. CASE p = Current(t)
  <2>1. calls'[p] = Append(calls[p], c) /\ calls[p] \in Seq(Given)
        BY <1>1, <1>4, <1>6
  <2>2. /\ Len(calls[p]) \in Nat /\ Len(calls'[p]) = Len(calls[p]) + 1
        /\ \A i \in 1 .. Len(calls[p]) : calls'[p][i] = calls[p][i]
        /\ calls'[p][Len(calls[p]) + 1] = c
        /\ DOMAIN calls[p] = 1 .. Len(calls[p]) /\ DOMAIN calls'[p] = 1 .. Len(calls'[p])
    <3>1. Append(calls[p], c) \in Seq(Given)
          BY <1>3, <2>1
    <3> QED BY <1>3, <2>1, <3>1, AppendProperties
  <2>3. {i \in DOMAIN calls[p] : calls[p][i].at = "remoteCommand"}
            = {i \in DOMAIN calls'[p] : calls'[p][i].at = "remoteCommand"}
    <3>1. ASSUME NEW i
          PROVE  i \in DOMAIN calls[p] /\ calls[p][i].at = "remoteCommand"
                     <=> i \in DOMAIN calls'[p] /\ calls'[p][i].at = "remoteCommand"
          BY <1>3, <2>2
    <3> QED BY <3>1
  <2>4. \A i \in {j \in DOMAIN calls[p] : calls[p][j].at = "remoteCommand"} :
            calls'[p][i] = calls[p][i]
        BY <2>2
  <2>5. Handed(p)' = Handed(p)
        BY <2>3, <2>4 DEF Handed
  <2>6. Heard(p)' = Heard(p)
        BY <2>3 DEF Heard
  <2> QED BY <2>5, <2>6
<1> QED BY <1>5, <1>6

LEMMA StepNoCommand ==
    ASSUME Lively, Next, shutdownFinished, NEW p \in Plugins
    PROVE  Handed(p)' = Handed(p)
<1>1. PICK t \in Threads : Environment(t) \/ System(t) \/ CallbackReturn(t)
      BY DEF Next
<1>2. Typed
      BY DEF Lively
<1>3. CASE NotifyStep(t)
  <2>1. stack[t] # <<>> /\ InOrder(t)
        /\ (CallBack(t, "aboutToShutdown", Top(t).next - 1) \/ UNCHANGED calls)
        BY <1>3 DEF NotifyStep, At
  <2> QED BY <1>2, <2>1, CallBackKeepsHeard DEF Callbacks, Handed
<1>4. ~(InitializeStep(t) \/ ReadyStep(t) \/ DispatchStep(t))
  <2>1. stack[t] # <<>> => ~LoadPass(Top(t))
        BY <1>2, TopOK DEF Typed
  <2> QED BY <2>1 DEF InitializeStep, ReadyStep, DispatchStep, DispatchOver, At, LoadPass,
                      LoaderFrame
<1>5. CASE ~NotifyStep(t)
  <2>1. UNCHANGED calls
        BY <1>1, <1>4, <1>5
           DEF Environment, Call, KeepCommand, PassCommand, System, LoadPlugins, LoadAgain,
               LoadStart, Resolve, LoadStep, LoadPassEnds, InitializePassEnds, ReadyPassEnds,
               TakePending, LoadReturn, Dispatch, DispatchReturn, ShutdownPlugins,
               ShutdownAgain, ShutdownStart, NotifyPassEnds, UnloadStep, ShutdownReturn,
               CallbackReturn, InitializeReturn, ReadyReturn, HandlerReturn
  <2> QED BY <2>1 DEF Handed
<1> QED BY <1>3, <1>5

\* Where commands and shutdown are calls of one thread, which may nest in any way: from
\* the moment shutdownPlugins() has started no plugin is given a command, neither by a
\* dispatch that is under way, whose handler made that call, nor out of the kept ones.
THEOREM NoCommandEverAfterShutdown == SingleThread => (Spec => NoCommandAfterShutdown)
<1> SUFFICES ASSUME SingleThread PROVE Spec => NoCommandAfterShutdown
    OBVIOUS
<1> DEFINE A == shutdownFinished => \A p \in Plugins : Handed(p)' = Handed(p)
<1>1. Lively /\ [Next]_vars => [A]_vars
      BY StepNoCommand
<1> QED BY <1>1, AlwaysLively, PTL DEF Spec, NoCommandAfterShutdown


-----------------------------------------------------------------------------
(* The refinement: every step of a thread is a step of the lives of plugins.  *)

\* The stage of every plugin is among some, if that of every listed one is.
LEMMA Everyone ==
    ASSUME Typed, Unlisted, NEW S, "absent" \in S,
           \A k \in Places : Life(loadOrder[k]) \in S
    PROVE  \A q \in Plugins : Life(q) \in S
<1> TAKE q \in Plugins
<1>1. CASE Fresh(q)
      BY <1>1, StageLife DEF Typed
<1>2. CASE \E k \in Places : loadOrder[k] = q
      BY <1>2
<1> QED BY <1>1, <1>2 DEF Unlisted

\* ... and so for the plugins that require one of them.
LEMMA EveryDependent ==
    ASSUME Typed, Ordering, Unlisted, NEW i \in Places, NEW S, "absent" \in S,
           \A k \in Places : k > i => Life(loadOrder[k]) \in S
    PROVE  \A q \in Plugins : loadOrder[i] \in required[q] => Life(q) \in S
<1> SUFFICES ASSUME NEW q \in Plugins, loadOrder[i] \in required[q]
             PROVE  Life(q) \in S
    OBVIOUS
<1>1. CASE Fresh(q)
      BY <1>1, StageLife DEF Typed
<1>2. CASE \E j \in Places : j > i /\ loadOrder[j] = q
      BY <1>2
<1> QED BY <1>1, <1>2, DependentLater

LEMMA BadLife ==
    ASSUME Values, NEW p \in Plugins, Bad(p)
    PROVE  Life(p) \in {"absent", "unusable", "loaded", "failed"}
BY StageLife DEF Bad

LEMMA TriedLife ==
    ASSUME Values, NEW p \in Plugins, Tried(p) \/ Resolved(p)
    PROVE  Life(p) \in {"absent", "unusable", "loaded"}
BY StageLife DEF Tried, Resolved

LEMMA EndedLife ==
    ASSUME Values, NEW p \in Plugins, Ended(p)
    PROVE  Life(p) \in {"absent", "gone", "stuck"}
BY StageLife DEF Ended

\* The stages in the next state.
StagesNamed ==
    \A p \in Plugins :
        /\ Fresh(p) \/ Rejected(p) => Life(p) = "absent"
        /\ Unusable(p) => Life(p) = "unusable"
        /\ Loaded(p) \/ Skipped(p) => Life(p) = "loaded"
        /\ Initializing(p) => Life(p) = "initializing"
        /\ Failed(p) => Life(p) = "failed"
        /\ Initialized(p) => Life(p) = "initialized"
        /\ Readying(p) => Life(p) = "readying"
        /\ Running(p) => Life(p) = "running"
        /\ Told(p) => Life(p) = "told"
        /\ Gone(p) => Life(p) = "gone"
        /\ Stuck(p) => Life(p) = "stuck"

LEMMA TypedStages == Typed => StagesNamed
BY StageLife DEF Typed, StagesNamed

LEMMA StagesNext == Typed' => StagesNamed'
BY TypedStages, PTL

\* Only the plugin at i changes its stage; nobody hears anything.
LEMMA LifeBecomes ==
    ASSUME Lively, NEW i \in Places, OnlyAt(i), UNCHANGED <<loadOrder, required>>,
           \A q \in Plugins : Heard(q)' = Heard(q),
           NEW from, NEW to, Life(loadOrder[i]) = from, Life(loadOrder[i])' = to
    PROVE  /\ Lives!Becomes(loadOrder[i], from, to)
           /\ UNCHANGED <<required, [p \in Plugins |-> Heard(p)]>>
           /\ loadOrder[i] \in Plugins
<1>1. loadOrder[i] \in Plugins /\ loadOrder'[i] = loadOrder[i]
      BY DEF Lively, Typed, Values, Places
<1>2. \A q \in Plugins : q # loadOrder[i] => Life(q)' = Life(q)
      BY SameStage DEF OnlyAt
<1> DEFINE life == [p \in Plugins |-> Life(p)]
<1>3. life' = [life EXCEPT ![loadOrder[i]] = to]
      BY <1>1, <1>2
<1>4. UNCHANGED [p \in Plugins |-> Heard(p)]
      OBVIOUS
<1> QED BY <1>1, <1>3, <1>4 DEF Lives!Becomes

\* Nothing changes in the lives of plugins.
LEMMA LifeKept ==
    ASSUME UNCHANGED required, \A q \in Plugins : Life(q)' = Life(q) /\ Heard(q)' = Heard(q)
    PROVE  UNCHANGED Lives!livesVars
BY DEF Lives!livesVars


LEMMA LoadStepLives ==
    ASSUME Lively, Typed', NEW t \in Threads, LoadStep(t)
    PROVE  [Lives!Next]_(Lives!livesVars)
<1>0. stack[t] # <<>> /\ InOrder(t) /\ Typed /\ Ordering /\ Values /\ Unlisted
      BY DEF LoadStep, At, Lively, Typed
<1>1. PICK i \in Places : i = Top(t).next
      BY <1>0, LoopAt
<1>2. /\ OnlyAt(i) /\ LoadPhase(i) /\ Resolved(loadOrder[i])
      /\ \/ Rejected(loadOrder[i])'
         \/ /\ Unusable(loadOrder[i])' \/ Loaded(loadOrder[i])'
            /\ \A d \in required[loadOrder[i]] : Loaded(d)
      /\ UNCHANGED <<loadOrder, required, calls>>
      BY <1>1, LoadEffect
<1> DEFINE p == loadOrder[i]
<1>3. p \in Plugins /\ loadOrder'[i] = p /\ required[p] \subseteq Plugins
      BY <1>0, <1>2 DEF Typed, Values, Places
<1>4. \A q \in Plugins : Heard(q)' = Heard(q)
      BY <1>2 DEF Heard
<1>5. StagesNamed /\ StagesNamed'
      BY <1>0, TypedStages, StagesNext
<1>6. Life(p) = "absent"
      BY <1>2, <1>3, <1>5 DEF StagesNamed, Resolved
<1>7. CASE Rejected(p)'
  <2>1. Life(p)' = "absent"
        BY <1>2, <1>3, <1>5, <1>7 DEF StagesNamed
  <2>2. \A q \in Plugins : Life(q)' = Life(q)
        BY <1>2, <1>6, <2>1, SameStage DEF OnlyAt
  <2> QED BY <1>2, <1>4, <2>2, LifeKept
<1>8. CASE /\ Unusable(p)' \/ Loaded(p)'
           /\ \A d \in required[p] : Loaded(d)
  <2>1. Life(p)' = "loaded" \/ Life(p)' = "unusable"
        BY <1>3, <1>5, <1>8 DEF StagesNamed
  <2>2. \A k \in Places : Life(loadOrder[k]) \in {"absent", "unusable", "loaded"}
    <3> TAKE k \in Places
    <3>1. loadOrder[k] \in Plugins /\ (Tried(loadOrder[k]) \/ Resolved(loadOrder[k]))
          BY <1>0, <1>2 DEF LoadPhase, Typed, Values, Places
    <3> QED BY <1>0, <3>1, TriedLife
  <2>3. \A q \in Plugins : Life(q) \in {"absent", "unusable", "loaded"}
        BY <1>0, <2>2, Everyone
  <2>4. Lives!Starting
        BY <2>3 DEF Lives!Starting, Lives!Over
  <2>5. Lives!All(Lives!Providers(p), {"loaded"})
        BY <1>3, <1>5, <1>8 DEF Lives!All, Lives!Providers, StagesNamed
  <2>6. Lives!Becomes(p, "absent", "loaded") \/ Lives!Becomes(p, "absent", "unusable")
        BY <1>2, <1>4, <1>6, <2>1, LifeBecomes
  <2>7. UNCHANGED <<required, [q \in Plugins |-> Heard(q)]>>
        BY <1>2, <1>4
  <2>8. Lives!Load(p)
        BY <2>4, <2>5, <2>6 DEF Lives!Load
  <2> HIDE DEF p
  <2> QED BY <1>3, <2>7, <2>8 DEF Lives!Next
<1> QED BY <1>2, <1>7, <1>8

LEMMA InitializeStepLives ==
    ASSUME Lively, Typed', NEW t \in Threads, InitializeStep(t)
    PROVE  [Lives!Next]_(Lives!livesVars)
<1>0. stack[t] # <<>> /\ InOrder(t) /\ Typed /\ Ordering /\ Values /\ Unlisted
      BY DEF InitializeStep, At, Lively, Typed
<1>1. PICK i \in Places : i = Top(t).next
      BY <1>0, LoopAt
<1>2. /\ OnlyAt(i) /\ InitializePhase(i)
      /\ \/ Goto(t, "initialize", i + 1) /\ Same(loadOrder[i]) /\ Bad(loadOrder[i])
         \/ /\ Goto(t, "initialize", i + 1) /\ Loaded(loadOrder[i]) /\ Skipped(loadOrder[i])'
            /\ calls' = calls
            /\ \E d \in required[loadOrder[i]] : error[d] # "none"
         \/ /\ CallBack(t, "initialize", i + 1)
            /\ Loaded(loadOrder[i]) /\ Initializing(loadOrder[i])'
            /\ \A d \in required[loadOrder[i]] : Initialized(d)
      /\ UNCHANGED <<loadOrder, required, shutdownFinished, state, mapped>>
      BY <1>1, InitializeEffect
<1> DEFINE p == loadOrder[i]
<1>3. p \in Plugins /\ loadOrder'[i] = p /\ required[p] \subseteq Plugins
      BY <1>0, <1>2 DEF Typed, Values, Places
<1>4. StagesNamed /\ StagesNamed'
      BY <1>0, TypedStages, StagesNext
<1>5. CASE Same(p)
  <2>1. \A q \in Plugins : Same(q)
        BY <1>2, <1>5 DEF OnlyAt
  <2> QED BY <1>2, <2>1, SameStage, LifeKept
<1>6. CASE Loaded(p) /\ Skipped(p)' /\ calls' = calls
  <2>1. Life(p) = "loaded" /\ Life(p)' = "loaded"
        BY <1>3, <1>4, <1>6 DEF StagesNamed
  <2>2. \A q \in Plugins : Life(q)' = Life(q) /\ Heard(q)' = Heard(q)
        BY <1>2, <1>6, <2>1, SameStage DEF OnlyAt, Heard
  <2> QED BY <1>2, <2>2, LifeKept
<1>7. CASE /\ CallBack(t, "initialize", i + 1)
           /\ Loaded(p) /\ Initializing(p)'
           /\ \A d \in required[p] : Initialized(d)
  <2>1. Life(p) = "loaded" /\ Life(p)' = "initializing"
        BY <1>3, <1>4, <1>7 DEF StagesNamed
  <2>2. \A k \in Places :
            Life(loadOrder[k]) \in {"absent", "loaded", "unusable", "initialized", "failed"}
    <3> TAKE k \in Places
    <3>0. loadOrder[k] \in Plugins
          BY <1>0 DEF Typed, Values, Places
    <3>1. loadOrder[k] \in Plugins
          /\ (Initialized(loadOrder[k]) \/ Bad(loadOrder[k]) \/ Tried(loadOrder[k]))
          BY <1>2, <3>0 DEF InitializePhase
    <3>2. Initialized(loadOrder[k]) => Life(loadOrder[k]) = "initialized"
          BY <1>4, <3>1 DEF StagesNamed
    <3> QED BY <1>0, <3>1, <3>2, TriedLife, BadLife
  <2>3. \A q \in Plugins : Life(q) \in {"absent", "loaded", "unusable", "initialized", "failed"}
        BY <1>0, <2>2, Everyone
  <2>4. Lives!Starting
        BY <2>3 DEF Lives!Starting, Lives!Over
  <2>5. Lives!All(Lives!Providers(p), {"initialized"})
        BY <1>3, <1>4, <1>7 DEF Lives!All, Lives!Providers, StagesNamed
  <2>6. Lives!All(Plugins, {"absent", "loaded", "unusable", "initialized", "failed"})
        BY <2>3 DEF Lives!All
  <2>7. \A q \in Plugins : Heard(q)' = Heard(q)
        BY <1>0, <1>7, CallBackKeepsHeard DEF Callbacks
  <2>8. /\ Lives!Becomes(p, "loaded", "initializing")
        /\ UNCHANGED <<required, [q \in Plugins |-> Heard(q)]>>
        BY <1>2, <2>1, <2>7, LifeBecomes
  <2>9. Lives!Initialize(p)
        BY <2>4, <2>5, <2>6, <2>8 DEF Lives!Initialize
  <2> HIDE DEF p
  <2> QED BY <1>3, <2>8, <2>9 DEF Lives!Next
<1> QED BY <1>2, <1>5, <1>6, <1>7

LEMMA InitializeReturnLives ==
    ASSUME Lively, Typed', NEW t \in Threads, InitializeReturn(t)
    PROVE  [Lives!Next]_(Lives!livesVars)
<1>0. stack[t] # <<>> /\ Top(t).call = "callback" /\ Typed /\ Passes /\ Values
      BY DEF InitializeReturn, CallbackReturns, Lively, Typed
<1>1. PICK i \in Places : i = Top(t).next
      BY <1>0, UnderTop
<1>2. /\ OnlyAt(i) /\ Initializing(loadOrder[i])
      /\ Initialized(loadOrder[i])' \/ Failed(loadOrder[i])'
      /\ UNCHANGED <<loadOrder, required, calls>>
      BY <1>1, InitializeReturnEffect
<1> DEFINE p == loadOrder[i]
<1>3. p \in Plugins /\ loadOrder'[i] = p
      BY <1>0, <1>2 DEF Typed, Values, Places
<1>4. StagesNamed /\ StagesNamed'
      BY <1>0, TypedStages, StagesNext
<1>5. Life(p) = "initializing" /\ (Life(p)' = "initialized" \/ Life(p)' = "failed")
      BY <1>2, <1>3, <1>4 DEF StagesNamed
<1>6. \A q \in Plugins : Heard(q)' = Heard(q)
      BY <1>2 DEF Heard
<1>7. /\ Lives!Becomes(p, "initializing", "initialized") \/ Lives!Becomes(p, "initializing", "failed")
      /\ UNCHANGED <<required, [q \in Plugins |-> Heard(q)]>>
      BY <1>2, <1>5, <1>6, LifeBecomes
<1> HIDE DEF p
<1> QED BY <1>3, <1>7 DEF Lives!Next, Lives!Initialized

LEMMA ReadyStepLives ==
    ASSUME Lively, Typed', NEW t \in Threads, ReadyStep(t)
    PROVE  [Lives!Next]_(Lives!livesVars)
<1>0. stack[t] # <<>> /\ InOrder(t) /\ Typed /\ Ordering /\ Values /\ Unlisted
      BY DEF ReadyStep, At, Lively, Typed
<1>1. PICK i \in Places : i = Top(t).next
      BY <1>0, LoopAt
<1>2. /\ OnlyAt(i) /\ ReadyPhase(i)
      /\ \/ Goto(t, "ready", i - 1) /\ Same(loadOrder[i]) /\ Bad(loadOrder[i])
         \/ /\ CallBack(t, "pluginsInitialized", i - 1)
            /\ Initialized(loadOrder[i]) /\ Readying(loadOrder[i])'
      /\ UNCHANGED <<loadOrder, required, shutdownFinished, state, error, mapped>>
      BY <1>1, ReadyEffect
<1> DEFINE p == loadOrder[i]
<1>3. p \in Plugins /\ loadOrder'[i] = p
      BY <1>0, <1>2 DEF Typed, Values, Places
<1>4. StagesNamed /\ StagesNamed'
      BY <1>0, TypedStages, StagesNext
<1>5. CASE Same(p)
  <2>1. \A q \in Plugins : Same(q)
        BY <1>2, <1>5 DEF OnlyAt
  <2> QED BY <1>2, <2>1, SameStage, LifeKept
<1>6. CASE CallBack(t, "pluginsInitialized", i - 1) /\ Initialized(p) /\ Readying(p)'
  <2>1. Life(p) = "initialized" /\ Life(p)' = "readying"
        BY <1>3, <1>4, <1>6 DEF StagesNamed
  <2>2. \A k \in Places :
            /\ loadOrder[k] \in Plugins
            /\ Life(loadOrder[k]) \in {"absent", "loaded", "unusable", "initialized", "failed",
                                       "running"}
            /\ k > i => Life(loadOrder[k]) \in {"absent", "loaded", "unusable", "failed", "running"}
    <3> TAKE k \in Places
    <3>1. loadOrder[k] \in Plugins /\ i \in Nat /\ k \in Nat
          BY <1>0 DEF Typed, Values, Places
    <3>2. /\ Initialized(loadOrder[k]) \/ Running(loadOrder[k]) \/ Bad(loadOrder[k])
          /\ k > i => Running(loadOrder[k]) \/ Bad(loadOrder[k])
          BY <1>2, <3>1 DEF ReadyPhase
    <3>3. /\ Initialized(loadOrder[k]) => Life(loadOrder[k]) = "initialized"
          /\ Running(loadOrder[k]) => Life(loadOrder[k]) = "running"
          BY <1>4, <3>1 DEF StagesNamed
    <3> QED BY <1>0, <3>1, <3>2, <3>3, BadLife
  <2>3. \A q \in Plugins :
            Life(q) \in {"absent", "loaded", "unusable", "initialized", "failed", "running"}
        BY <1>0, <2>2, Everyone
  <2>4. \A q \in Plugins :
            p \in required[q] => Life(q) \in {"absent", "loaded", "unusable", "failed", "running"}
        BY <1>0, <2>2, EveryDependent
  <2>5. Lives!Starting
        BY <2>3 DEF Lives!Starting, Lives!Over
  <2>6. Lives!All(Plugins, {"absent", "loaded", "unusable", "initialized", "failed", "running"})
        BY <2>3 DEF Lives!All
  <2>7. \A q \in Lives!Dependents(p) : [r \in Plugins |-> Life(r)][q] # "initialized"
        BY <2>4 DEF Lives!Dependents
  <2>8. \A q \in Plugins : Heard(q)' = Heard(q)
        BY <1>0, <1>6, CallBackKeepsHeard DEF Callbacks
  <2>9. /\ Lives!Becomes(p, "initialized", "readying")
        /\ UNCHANGED <<required, [q \in Plugins |-> Heard(q)]>>
        BY <1>2, <2>1, <2>8, LifeBecomes
  <2> HIDE DEF p
  <2>10. Lives!BecomeReady(p)
         BY <2>5, <2>6, <2>7, <2>9 DEF Lives!BecomeReady
  <2> QED BY <1>3, <2>9, <2>10 DEF Lives!Next
<1> QED BY <1>2, <1>5, <1>6

LEMMA ReadyReturnLives ==
    ASSUME Lively, Typed', NEW t \in Threads, ReadyReturn(t)
    PROVE  [Lives!Next]_(Lives!livesVars)
<1>0. stack[t] # <<>> /\ Top(t).call = "callback" /\ Typed /\ Passes /\ Values
      BY DEF ReadyReturn, CallbackReturns, Lively, Typed
<1>1. PICK i \in Places : i = Top(t).next
      BY <1>0, UnderTop
<1>2. /\ OnlyAt(i) /\ Readying(loadOrder[i]) /\ Running(loadOrder[i])'
      /\ UNCHANGED <<loadOrder, required, calls>>
      BY <1>1, ReadyReturnEffect
<1> DEFINE p == loadOrder[i]
<1>3. p \in Plugins /\ loadOrder'[i] = p
      BY <1>0, <1>2 DEF Typed, Values, Places
<1>4. StagesNamed /\ StagesNamed'
      BY <1>0, TypedStages, StagesNext
<1>5. Life(p) = "readying" /\ Life(p)' = "running"
      BY <1>2, <1>3, <1>4 DEF StagesNamed
<1>6. \A q \in Plugins : Heard(q)' = Heard(q)
      BY <1>2 DEF Heard
<1>7. /\ Lives!Becomes(p, "readying", "running")
      /\ UNCHANGED <<required, [q \in Plugins |-> Heard(q)]>>
      BY <1>2, <1>5, <1>6, LifeBecomes
<1> HIDE DEF p
<1> QED BY <1>3, <1>7 DEF Lives!Next, Lives!Run


LEMMA DispatchHeard ==
    ASSUME Typed, NEW p \in Plugins, NEW c \in Given, c.at = "remoteCommand",
           calls' = [calls EXCEPT ![p] = Append(@, c)]
    PROVE  /\ Heard(p) \in Nat /\ Heard(p)' = Heard(p) + 1
           /\ \A q \in Plugins : q # p => Heard(q)' = Heard(q)
<1>1. calls'[p] = Append(calls[p], c) /\ calls[p] \in Seq(Given)
      /\ \A q \in Plugins : q # p => calls'[q] = calls[q]
      BY DEF Typed, Values
<1>2. /\ Len(calls[p]) \in Nat /\ Len(calls'[p]) = Len(calls[p]) + 1
      /\ \A i \in 1 .. Len(calls[p]) : calls'[p][i] = calls[p][i]
      /\ calls'[p][Len(calls[p]) + 1] = c
      /\ DOMAIN calls[p] = 1 .. Len(calls[p]) /\ DOMAIN calls'[p] = 1 .. Len(calls'[p])
  <2>1. Append(calls[p], c) \in Seq(Given)
        BY <1>1
  <2> QED BY <1>1, <2>1, AppendProperties
<1> DEFINE n == Len(calls[p])
           H == {i \in DOMAIN calls[p] : calls[p][i].at = "remoteCommand"}
           G == {i \in DOMAIN calls'[p] : calls'[p][i].at = "remoteCommand"}
<1>3. G = H \cup {n + 1} /\ n + 1 \notin H
  <2>1. ASSUME NEW i PROVE i \in G <=> i \in H \cup {n + 1}
        BY <1>2
  <2>2. n + 1 \notin H
        BY <1>2
  <2> QED BY <2>1, <2>2
<1>4. IsFiniteSet(H)
  <2>1. IsFiniteSet(1 .. n) /\ H \in SUBSET (1 .. n)
        BY <1>2, FS_Interval
  <2> QED BY <2>1, FS_Subset
<1> HIDE DEF H, G
<1>5. Cardinality(H) \in Nat /\ Cardinality(G) = Cardinality(H) + 1
      BY <1>3, <1>4, FS_AddElement, FS_CardinalityType
<1>6. Heard(p) = Cardinality(H) /\ Heard(p)' = Cardinality(G)
      BY DEF Heard, H, G
<1> QED BY <1>1, <1>5, <1>6 DEF Heard

LEMMA DispatchStepLives ==
    ASSUME Lively, Typed', NEW t \in Threads, DispatchStep(t)
    PROVE  [Lives!Next]_(Lives!livesVars)
<1>0. stack[t] # <<>> /\ InOrder(t) /\ Typed /\ Ordering /\ Values
      BY DEF DispatchStep, DispatchOver, At, Lively, Typed
<1>1. PICK i \in Places : i = Top(t).next
      BY <1>0, LoopAt
<1> DEFINE p == loadOrder[i]  c == [at |-> "remoteCommand", command |-> Top(t).command]
<1>2. /\ OnlyAt(i) /\ Settled /\ ~shutdownFinished
      /\ \/ UNCHANGED calls
         \/ Running(p) /\ Running(p)' /\ calls' = [calls EXCEPT ![p] = Append(@, c)]
      /\ UNCHANGED <<loadOrder, required, state, error, mapped>>
      BY <1>1, DispatchEffect
<1>3. p \in Plugins /\ loadOrder'[i] = p /\ required[p] \subseteq Plugins
      BY <1>0, <1>2 DEF Typed, Values, Places
<1>4. StagesNamed /\ StagesNamed'
      BY <1>0, TypedStages, StagesNext
<1>5. CASE UNCHANGED calls
  <2>1. \A q \in Plugins : Same(q)
        BY <1>2, <1>5 DEF Same
  <2> QED BY <1>2, <2>1, SameStage, LifeKept
<1>6. CASE Running(p) /\ Running(p)' /\ calls' = [calls EXCEPT ![p] = Append(@, c)]
  <2>1. Life(p) = "running" /\ Life(p)' = "running"
        BY <1>3, <1>4, <1>6 DEF StagesNamed
  <2>2. \A q \in Plugins : Life(q)' = Life(q)
        BY <1>2, <2>1, SameStage DEF OnlyAt
  <2>3. \A d \in required[p] : Life(d) = "running"
    <3> TAKE d \in required[p]
    <3>1. Running(d) /\ d \in Plugins
          BY <1>2, <1>3, <1>6, ProvidersRun
    <3> QED BY <1>4, <3>1 DEF StagesNamed
  <2>4. Lives!All({p} \cup Lives!Providers(p), {"running"})
        BY <1>3, <2>1, <2>3 DEF Lives!All, Lives!Providers
  <2>5. c \in Given /\ c.at = "remoteCommand"
    <3>1. Top(t).command \in Nat
          BY <1>0, TopFrame DEF Typed, Skeleton, Frame
    <3> QED BY <3>1 DEF Given, Callbacks
  <2> HIDE DEF c
  <2>6. /\ Heard(p)' = Heard(p) + 1
        /\ \A q \in Plugins : q # p => Heard(q)' = Heard(q)
        BY <1>0, <1>3, <1>6, <2>5, DispatchHeard
  <2> HIDE DEF p
  <2> DEFINE heard == [q \in Plugins |-> Heard(q)]
  <2>7. heard' = [heard EXCEPT ![p] = @ + 1]
    <3>1. PICK r \in Plugins : r = p
          BY <1>3
    <3>2. Heard(r)' = Heard(r) + 1 /\ \A q \in Plugins : q # r => Heard(q)' = Heard(q)
          BY <1>3, <2>6, <3>1 DEF p
    <3>3. heard' = [heard EXCEPT ![r] = @ + 1]
          BY <3>2
    <3> QED BY <3>1, <3>3
  <2>8. Lives!Hear(p)
        BY <2>2, <2>4, <2>7 DEF Lives!Hear
  <2> QED BY <1>2, <1>3, <2>8 DEF Lives!Next
<1> QED BY <1>2, <1>5, <1>6

LEMMA NotifyStepLives ==
    ASSUME Lively, Typed', NEW t \in Threads, NotifyStep(t)
    PROVE  [Lives!Next]_(Lives!livesVars)
<1>0. stack[t] # <<>> /\ InOrder(t) /\ Typed /\ Ordering /\ Values /\ Unlisted
      BY DEF NotifyStep, At, Lively, Typed
<1>1. PICK i \in Places : i = Top(t).next
      BY <1>0, LoopAt
<1>2. /\ OnlyAt(i) /\ NotifyPhase(i)
      /\ \/ Goto(t, "notify", i - 1) /\ Same(loadOrder[i]) /\ Bad(loadOrder[i])
         \/ /\ CallBack(t, "aboutToShutdown", i - 1)
            /\ Running(loadOrder[i]) /\ Told(loadOrder[i])'
      /\ UNCHANGED <<loadOrder, required, shutdownFinished, state, error, mapped>>
      BY <1>1, NotifyEffect
<1> DEFINE p == loadOrder[i]
<1>3. p \in Plugins /\ loadOrder'[i] = p
      BY <1>0, <1>2 DEF Typed, Values, Places
<1>4. StagesNamed /\ StagesNamed'
      BY <1>0, TypedStages, StagesNext
<1>5. CASE Same(p)
  <2>1. \A q \in Plugins : Same(q)
        BY <1>2, <1>5 DEF OnlyAt
  <2> QED BY <1>2, <2>1, SameStage, LifeKept
<1>6. CASE CallBack(t, "aboutToShutdown", i - 1) /\ Running(p) /\ Told(p)'
  <2>1. Life(p) = "running" /\ Life(p)' = "told"
        BY <1>3, <1>4, <1>6 DEF StagesNamed
  <2>2. \A k \in Places :
            /\ loadOrder[k] \in Plugins
            /\ Life(loadOrder[k]) \in {"absent", "loaded", "unusable", "failed", "running", "told"}
            /\ k > i => Life(loadOrder[k]) \in {"absent", "loaded", "unusable", "failed", "told"}
    <3> TAKE k \in Places
    <3>1. loadOrder[k] \in Plugins /\ i \in Nat /\ k \in Nat
          BY <1>0 DEF Typed, Values, Places
    <3>2. /\ Told(loadOrder[k]) \/ Running(loadOrder[k]) \/ Bad(loadOrder[k])
          /\ k > i => Told(loadOrder[k]) \/ Bad(loadOrder[k])
          BY <1>2, <3>1 DEF NotifyPhase
    <3>3. /\ Told(loadOrder[k]) => Life(loadOrder[k]) = "told"
          /\ Running(loadOrder[k]) => Life(loadOrder[k]) = "running"
          BY <1>4, <3>1 DEF StagesNamed
    <3> QED BY <1>0, <3>1, <3>2, <3>3, BadLife
  <2>3. \A q \in Plugins :
            Life(q) \in {"absent", "loaded", "unusable", "failed", "running", "told"}
        BY <1>0, <2>2, Everyone
  <2>4. \A q \in Plugins :
            p \in required[q] => Life(q) \in {"absent", "loaded", "unusable", "failed", "told"}
        BY <1>0, <2>2, EveryDependent
  <2>5. Lives!All(Plugins, {"absent", "loaded", "unusable", "failed", "running", "told"})
        BY <2>3 DEF Lives!All
  <2>6. \A q \in Lives!Dependents(p) : [r \in Plugins |-> Life(r)][q] # "running"
        BY <2>4 DEF Lives!Dependents
  <2>7. \A q \in Plugins : Heard(q)' = Heard(q)
        BY <1>0, <1>6, CallBackKeepsHeard DEF Callbacks
  <2>8. /\ Lives!Becomes(p, "running", "told")
        /\ UNCHANGED <<required, [q \in Plugins |-> Heard(q)]>>
        BY <1>2, <2>1, <2>7, LifeBecomes
  <2> HIDE DEF p
  <2>9. Lives!Tell(p)
        BY <2>5, <2>6, <2>8 DEF Lives!Tell
  <2> QED BY <1>3, <2>8, <2>9 DEF Lives!Next
<1> QED BY <1>2, <1>5, <1>6

LEMMA UnloadStepLives ==
    ASSUME Lively, Typed', NEW t \in Threads, UnloadStep(t)
    PROVE  [Lives!Next]_(Lives!livesVars)
<1>0. stack[t] # <<>> /\ InOrder(t) /\ Typed /\ Ordering /\ Values /\ Unlisted
      BY DEF UnloadStep, At, Lively, Typed
<1>1. PICK i \in Places : i = Top(t).next
      BY <1>0, LoopAt
<1>2. /\ OnlyAt(i) /\ UnloadPhase(i) /\ Ended(loadOrder[i])'
      /\ \/ Same(loadOrder[i]) /\ Rejected(loadOrder[i])
         \/ /\ Gone(loadOrder[i])' \/ Stuck(loadOrder[i])'
            /\ \/ Told(loadOrder[i]) \/ Unusable(loadOrder[i])
               \/ Skipped(loadOrder[i]) \/ Failed(loadOrder[i])
      /\ UNCHANGED <<loadOrder, required, shutdownFinished, calls>>
      BY <1>1, UnloadEffect
<1> DEFINE p == loadOrder[i]
<1>3. p \in Plugins /\ loadOrder'[i] = p
      BY <1>0, <1>2 DEF Typed, Values, Places
<1>4. StagesNamed /\ StagesNamed'
      BY <1>0, TypedStages, StagesNext
<1>5. CASE Same(p)
  <2>1. \A q \in Plugins : Same(q)
        BY <1>2, <1>5 DEF OnlyAt
  <2> QED BY <1>2, <2>1, SameStage, LifeKept
<1>6. CASE /\ Gone(p)' \/ Stuck(p)'
           /\ Told(p) \/ Unusable(p) \/ Skipped(p) \/ Failed(p)
  <2>1. Life(p) \in {"told", "unusable", "loaded", "failed"} /\ Life(p)' \in {"gone", "stuck"}
        BY <1>3, <1>4, <1>6 DEF StagesNamed
  <2>2. \A k \in Places :
            /\ loadOrder[k] \in Plugins
            /\ Life(loadOrder[k]) \in {"absent", "loaded", "unusable", "failed", "told", "gone",
                                       "stuck"}
            /\ k > i => Life(loadOrder[k]) \in {"absent", "gone", "stuck"}
    <3> TAKE k \in Places
    <3>1. loadOrder[k] \in Plugins /\ i \in Nat /\ k \in Nat
          BY <1>0 DEF Typed, Values, Places
    <3>2. /\ Told(loadOrder[k]) \/ Ended(loadOrder[k]) \/ Bad(loadOrder[k])
          /\ k > i => Ended(loadOrder[k])
          BY <1>2, <3>1 DEF UnloadPhase
    <3>3. Told(loadOrder[k]) => Life(loadOrder[k]) = "told"
          BY <1>4, <3>1 DEF StagesNamed
    <3> QED BY <1>0, <3>1, <3>2, <3>3, BadLife, EndedLife
  <2>3. \A q \in Plugins :
            Life(q) \in {"absent", "loaded", "unusable", "failed", "told", "gone", "stuck"}
        BY <1>0, <2>2, Everyone
  <2>4. \A q \in Plugins : p \in required[q] => Life(q) \in {"absent", "gone", "stuck"}
        BY <1>0, <2>2, EveryDependent
  <2>5. Lives!All(Plugins, {"absent", "loaded", "unusable", "failed"} \cup Lives!Over)
        BY <2>3 DEF Lives!All, Lives!Over
  <2>6. Lives!All(Lives!Dependents(p), {"absent", "gone", "stuck"})
        BY <2>4 DEF Lives!Dependents, Lives!All
  <2>7. \A q \in Plugins : Heard(q)' = Heard(q)
        BY <1>2 DEF Heard
  <2>8. PICK end \in {"gone", "stuck"} : Life(p)' = end
        BY <2>1
  <2>9. PICK from \in {"told", "unusable", "loaded", "failed"} : Life(p) = from
        BY <2>1
  <2>10. /\ Lives!Becomes(p, from, end)
         /\ UNCHANGED <<required, [q \in Plugins |-> Heard(q)]>>
         BY <1>2, <2>7, <2>8, <2>9, LifeBecomes
  <2> HIDE DEF p
  <2>11. Lives!Unload(p)
         BY <2>5, <2>6, <2>10 DEF Lives!Unload, Lives!Becomes, Lives!Up
  <2> QED BY <1>3, <2>10, <2>11 DEF Lives!Next
<1> QED BY <1>2, <1>5, <1>6

LEMMA ResolveLives ==
    ASSUME Lively, Typed', NEW t \in Threads, Resolve(t)
    PROVE  [Lives!Next]_(Lives!livesVars)
<1>1. /\ \A p \in Plugins : Fresh(p) /\ Fresh(p)' /\ calls'[p] = calls[p]
      /\ required' \in [Plugins -> SUBSET Plugins]
      BY ResolveEffect
<1>2. StagesNamed /\ StagesNamed'
      BY TypedStages, StagesNext DEF Lively
<1>3. \A p \in Plugins : Life(p) = "absent" /\ Life(p)' = "absent" /\ Heard(p)' = Heard(p)
      BY <1>1, <1>2 DEF StagesNamed, Heard
<1>4. Lives!All(Plugins, {"absent"})
      BY <1>3 DEF Lives!All
<1>5. UNCHANGED <<[p \in Plugins |-> Life(p)], [p \in Plugins |-> Heard(p)]>>
      BY <1>3
<1> QED BY <1>1, <1>4, <1>5 DEF Lives!Next, Lives!Resolve

LEMMA InitLives == Init => Lives!Init
<1> SUFFICES ASSUME Init PROVE Lives!Init
    OBVIOUS
<1>1. \A p \in Plugins : Fresh(p)
      BY DEF Init, Fresh
<1>2. \A p \in Plugins : Life(p) = "absent"
      BY <1>1, InitTyped, StageLife DEF Typed
<1>3. \A p \in Plugins : Heard(p) = 0
  <2> TAKE p \in Plugins
  <2>1. {i \in DOMAIN calls[p] : calls[p][i].at = "remoteCommand"} = {}
        BY DEF Init
  <2> QED BY <2>1, FS_EmptySet DEF Heard
<1> QED BY <1>2, <1>3 DEF Lives!Init, Init

LEMMA NextLives ==
    ASSUME Lively, Typed', [Next]_vars
    PROVE  [Lives!Next]_(Lives!livesVars)
<1>1. CASE UNCHANGED vars
  <2>1. UNCHANGED required /\ \A p \in Plugins : Same(p)
        BY <1>1 DEF vars, specs, resolution, Same
  <2> QED BY <2>1, SameStage, LifeKept
<1>2. ASSUME NEW t \in Threads, Environment(t) \/ System(t) \/ CallbackReturn(t)
      PROVE  [Lives!Next]_(Lives!livesVars)
  <2>1. CASE Resolve(t)
        BY <2>1, ResolveLives
  <2>2. CASE LoadStep(t) \/ InitializeStep(t) \/ ReadyStep(t) \/ NotifyStep(t) \/ UnloadStep(t)
        BY <2>2, LoadStepLives, InitializeStepLives, ReadyStepLives, NotifyStepLives,
           UnloadStepLives
  <2>3. CASE DispatchStep(t) \/ InitializeReturn(t) \/ ReadyReturn(t)
        BY <2>3, DispatchStepLives, InitializeReturnLives, ReadyReturnLives
  <2>4. CASE Quiet(t)
        BY <2>4, QuietEffect, SameStage, LifeKept
  <2>5. CASE \/ LoadStart(t) \/ LoadPassEnds(t) \/ InitializePassEnds(t) \/ ReadyPassEnds(t)
             \/ ShutdownStart(t) \/ NotifyPassEnds(t) \/ ShutdownReturn(t)
    <3>1. UNCHANGED <<specs, calls>> /\ UNCHANGED required
          BY <2>5 DEF LoadStart, LoadPassEnds, InitializePassEnds, ReadyPassEnds, ShutdownStart,
                      NotifyPassEnds, ShutdownReturn, resolution
    <3> QED BY <3>1, NothingHappens, SameStage, LifeKept
  <2> QED BY <1>2, <2>1, <2>2, <2>3, <2>4, <2>5
          DEF System, LoadPlugins, Dispatch, ShutdownPlugins, CallbackReturn, Quiet
<1> QED BY <1>1, <1>2 DEF Next

\* Whatever failures and reentrant calls there are, on several threads or, with
\* commands, on one, every plugin lives the life that PluginLives promises:
\* PluginLifecycle implements it.
THEOREM PluginsKeepTheirLives == Spec => KeepsLives
<1>1. Typed /\ Lively /\ [Next]_vars /\ Typed' => [Lives!Next]_(Lives!livesVars)
      BY NextLives
<1> QED BY <1>1, InitLives, AlwaysTyped, AlwaysLively, PTL DEF Spec, KeepsLives, Lives!Spec


-----------------------------------------------------------------------------
(* Where threads are: in libraries that are loaded, but for handlers.      *)

\* A callback of one of the passes is in a loaded library.
CallbackMapped(f) ==
    f.call = "callback" /\ f.at # "remoteCommand" => mapped[loadOrder[f.next]]

FramesMapped == \A t \in Threads : \A i \in 1 .. Len(stack[t]) : CallbackMapped(stack[t][i])

Sheltered == Lively /\ FramesMapped

\* What a step leaves on the stacks.
LEMMA PushFrames ==
    ASSUME stack \in Stacks, NEW t \in Threads, NEW f \in Frame, Push(t, f)
    PROVE  \A u \in Threads : \A j \in 1 .. Len(stack'[u]) :
               \/ j \in 1 .. Len(stack[u]) /\ stack'[u][j] = stack[u][j]
               \/ stack'[u][j] = f
<1>1. Len(stack[t]) \in Nat
      BY DEF Stacks
<1> QED BY <1>1, PushStack

LEMMA ReturnFrames ==
    ASSUME stack \in Stacks, NEW t \in Threads, stack[t] # <<>>, Return(t)
    PROVE  \A u \in Threads : \A j \in 1 .. Len(stack'[u]) :
               j \in 1 .. Len(stack[u]) /\ stack'[u][j] = stack[u][j]
<1>1. /\ stack' \in Stacks
      /\ Len(stack[t]) \in Nat \ {0}
      /\ Len(stack'[t]) = Len(stack[t]) - 1
      /\ \A i \in 1 .. Len(stack[t]) - 1 : stack'[t][i] = stack[t][i]
      /\ \A u \in Threads \ {t} : stack'[u] = stack[u]
      BY ReturnStack
<1> QED BY <1>1

LEMMA GotoFrames ==
    ASSUME stack \in Stacks, NEW t \in Threads, stack[t] # <<>>,
           NEW at \in Callbacks \cup {"enter", "resolve", "load", "ready", "pending",
                                       "pass", "notify", "unload"},
           NEW next \in Nat, Goto(t, at, next)
    PROVE  \A u \in Threads : \A j \in 1 .. Len(stack'[u]) :
               \/ j \in 1 .. Len(stack[u]) /\ stack'[u][j] = stack[u][j]
               \/ u = t /\ stack'[u][j].call = Top(t).call /\ stack'[u][j].next = next
                  /\ stack'[u][j].command = Top(t).command
<1> DEFINE g == [Top(t) EXCEPT !.at = at, !.next = next]
<1>1. Top(t) \in Frame /\ Len(stack[t]) \in Nat \ {0}
      BY TopFrame
<1>2. g.call = Top(t).call /\ g.next = next /\ g.command = Top(t).command /\ g \in Frame
      BY <1>1 DEF Frame
<1>3. /\ stack' \in Stacks
      /\ Len(stack'[t]) = Len(stack[t])
      /\ \A i \in 1 .. Len(stack[t]) - 1 : stack'[t][i] = stack[t][i]
      /\ stack'[t][Len(stack[t])] = g
      /\ \A u \in Threads \ {t} : stack'[u] = stack[u]
      BY <1>2, GotoStack
<1> HIDE DEF g
<1> QED BY <1>1, <1>2, <1>3

LEMMA PushFromLoopFrames ==
    ASSUME stack \in Stacks, NEW t \in Threads, stack[t] # <<>>,
           NEW f \in Frame, NEW next \in Nat, PushFromLoop(t, next, f)
    PROVE  \A u \in Threads : \A j \in 1 .. Len(stack'[u]) :
               \/ j \in 1 .. Len(stack[u]) /\ stack'[u][j] = stack[u][j]
               \/ u = t /\ stack'[u][j].call = Top(t).call /\ stack'[u][j].next = next
                  /\ stack'[u][j].command = Top(t).command
               \/ u = t /\ stack'[u][j] = f
<1> DEFINE g == [Top(t) EXCEPT !.next = next]
<1>1. Top(t) \in Frame /\ Len(stack[t]) \in Nat \ {0}
      BY TopFrame
<1>2. g.call = Top(t).call /\ g.next = next /\ g.command = Top(t).command
      BY <1>1 DEF Frame
<1>3. /\ stack' \in Stacks
      /\ Len(stack'[t]) = Len(stack[t]) + 1
      /\ \A i \in 1 .. Len(stack[t]) - 1 : stack'[t][i] = stack[t][i]
      /\ stack'[t][Len(stack[t])] = g
      /\ stack'[t][Len(stack[t]) + 1] = f
      /\ \A u \in Threads \ {t} : stack'[u] = stack[u]
      BY PushFromLoopStack
<1> HIDE DEF g
<1> QED BY <1>1, <1>2, <1>3

\* New frames are in loaded libraries, or in none; no library is unloaded.
LEMMA MappedKept ==
    ASSUME Typed, FramesMapped, \A p \in Plugins : mapped[p] => mapped'[p], UNCHANGED loadOrder,
           \A u \in Threads : \A j \in 1 .. Len(stack'[u]) :
               \/ j \in 1 .. Len(stack[u]) /\ stack'[u][j] = stack[u][j]
               \/ CallbackMapped(stack[u][j])'
    PROVE  FramesMapped'
<1>1. loadOrder \in Seq(Plugins)
      BY DEF Typed, Values
<1> SUFFICES ASSUME NEW u \in Threads, NEW j \in 1 .. Len(stack'[u]),
                    j \in 1 .. Len(stack[u]), stack'[u][j] = stack[u][j]
             PROVE  CallbackMapped(stack[u][j])'
    BY DEF FramesMapped
<1>2. Bounded(stack[u][j]) /\ CallbackMapped(stack[u][j])
      BY DEF FramesMapped, Typed, Positions
<1>3. stack[u][j].call = "callback" => loadOrder[stack[u][j].next] \in Plugins
      BY <1>1, <1>2 DEF Bounded
<1> QED BY <1>2, <1>3 DEF CallbackMapped

\* While a pass goes on by itself, only handlers are called.
LEMMA PassOnTop ==
    ASSUME Typed, NEW t \in Threads, stack[t] # <<>>, Passing(Top(t)),
           NEW u \in Threads, NEW j \in 1 .. Len(stack[u]), stack[u][j].call = "callback"
    PROVE  stack[u][j].at = "remoteCommand"
<1>1. Len(stack[t]) \in 1 .. Len(stack[t]) /\ Top(t) = stack[t][Len(stack[t])]
      BY TopFrame DEF Typed, Skeleton
<1>2. j > 1 /\ MadeBy(stack[u][j - 1], stack[u][j])
      BY DEF Typed, Skeleton, StackOK, Nested
<1>3. j - 1 \in 1 .. Len(stack[u]) /\ j - 1 # Len(stack[u])
      BY <1>2
<1>4. ~Passing(stack[u][j - 1])
      BY <1>1, <1>3 DEF Typed, Skeleton, Discipline, Exclusive
<1> QED BY <1>2, <1>4 DEF MadeBy, Passing, LoadPass, LoaderFrame, EndPass

LEMMA QuietMapped ==
    ASSUME Sheltered, NEW t \in Threads,
           Quiet(t) \/ InitializeReturn(t) \/ ReadyReturn(t) \/ ShutdownReturn(t)
    PROVE  FramesMapped'
<1>0. Typed /\ FramesMapped /\ stack \in Stacks /\ Values
      BY DEF Sheltered, Lively, Typed, Skeleton
<1>1. UNCHANGED <<mapped, loadOrder>>
      BY DEF Quiet, Environment, Call, KeepCommand, PassCommand, LoadAgain, TakePending,
             LoadReturn, DispatchReturn, HandlerReturn, ShutdownAgain, InitializeReturn,
             ReadyReturn, ShutdownReturn, resolution, specs
<1>2. CASE Call(t)
  <2>1. PICK api \in {"loadPlugins", "shutdownPlugins"} :
            Push(t, [call |-> api, at |-> "enter", next |-> 0, command |-> NoCommand])
        BY <1>2 DEF Call
  <2> DEFINE f == [call |-> api, at |-> "enter", next |-> 0, command |-> NoCommand]
  <2>2. f \in Frame /\ f.call # "callback" /\ Push(t, f)
        BY <2>1 DEF Frame, NoCommand
  <2> HIDE DEF f
  <2>3. \A u \in Threads : \A j \in 1 .. Len(stack'[u]) :
            \/ j \in 1 .. Len(stack[u]) /\ stack'[u][j] = stack[u][j]
            \/ stack'[u][j] = f
        BY <1>0, <2>2, PushFrames
  <2> QED BY <1>0, <1>1, <2>2, <2>3, MappedKept DEF CallbackMapped
<1>3. CASE PassCommand(t) \/ TakePending(t)
  <2>1. PICK c \in Nat : Push(t, DispatchFrame(c))
    <3>1. CASE PassCommand(t)
      <4>1. passed + 1 \in Nat
            BY <1>0, BoundAssumption DEF Values
      <4> QED BY <3>1, <4>1 DEF PassCommand
    <3>2. CASE TakePending(t)
      <4> DEFINE S == 1 .. MaxCommands
      <4>1. pending \in Seq(S) /\ pending # <<>> /\ S \subseteq Nat
            BY <1>0, <3>2 DEF TakePending, Values
      <4> HIDE DEF S
      <4>2. Head(pending) \in Nat
            BY <4>1, HeadTailProperties
      <4> QED BY <3>2, <4>2 DEF TakePending, NextKept
    <3> QED BY <1>3, <3>1, <3>2
  <2> DEFINE f == DispatchFrame(c)
  <2>2. f \in Frame /\ f.call # "callback" /\ Push(t, f)
        BY <2>1 DEF Frame, DispatchFrame
  <2> HIDE DEF f
  <2>3. \A u \in Threads : \A j \in 1 .. Len(stack'[u]) :
            \/ j \in 1 .. Len(stack[u]) /\ stack'[u][j] = stack[u][j]
            \/ stack'[u][j] = f
        BY <1>0, <2>2, PushFrames
  <2> QED BY <1>0, <1>1, <2>2, <2>3, MappedKept DEF CallbackMapped
<1>4. CASE KeepCommand(t)
  <2>1. UNCHANGED stack
        BY <1>4 DEF KeepCommand
  <2> QED BY <1>0, <1>1, <2>1, MappedKept
<1>5. CASE \/ LoadAgain(t) \/ LoadReturn(t) \/ DispatchReturn(t) \/ HandlerReturn(t)
           \/ ShutdownAgain(t) \/ InitializeReturn(t) \/ ReadyReturn(t) \/ ShutdownReturn(t)
  <2>1. stack[t] # <<>> /\ Return(t)
        BY <1>5 DEF LoadAgain, LoadReturn, DispatchReturn, HandlerReturn, ShutdownAgain,
                    InitializeReturn, ReadyReturn, ShutdownReturn, CallbackReturns, At
  <2>2. \A u \in Threads : \A j \in 1 .. Len(stack'[u]) :
            j \in 1 .. Len(stack[u]) /\ stack'[u][j] = stack[u][j]
        BY <1>0, <2>1, ReturnFrames
  <2> QED BY <1>0, <1>1, <2>2, MappedKept
<1> QED BY <1>2, <1>3, <1>4, <1>5 DEF Quiet, Environment

\* A pass goes on.
LEMMA GoesOnMapped ==
    ASSUME Sheltered, NEW t \in Threads, stack[t] # <<>>,
           Top(t).call \in {"loadPlugins", "shutdownPlugins", "dispatch"},
           NEW at \in {"resolve", "load", "initialize", "ready", "pending", "pass", "notify", "unload"},
           NEW next \in Nat, Goto(t, at, next),
           \/ /\ \A p \in Plugins : mapped[p] => mapped'[p]
              /\ UNCHANGED loadOrder
           \/ Passing(Top(t))
    PROVE  FramesMapped'
<1>0. Typed /\ FramesMapped /\ stack \in Stacks
      BY DEF Sheltered, Lively, Typed, Skeleton
<1>1. Top(t) \in Frame
      BY <1>0, TopFrame
<1>2. at \in Callbacks \cup {"enter", "resolve", "load", "ready", "pending",
                             "pass", "notify", "unload"}
      BY DEF Callbacks
<1>3. \A u \in Threads : \A j \in 1 .. Len(stack'[u]) :
          \/ j \in 1 .. Len(stack[u]) /\ stack'[u][j] = stack[u][j]
          \/ u = t /\ stack'[u][j].call = Top(t).call /\ stack'[u][j].next = next
             /\ stack'[u][j].command = Top(t).command
      BY <1>0, <1>2, GotoFrames
<1>4. CASE (\A p \in Plugins : mapped[p] => mapped'[p]) /\ UNCHANGED loadOrder
      BY <1>0, <1>3, <1>4, MappedKept DEF CallbackMapped
<1>5. CASE Passing(Top(t))
      BY <1>0, <1>3, <1>5, PassOnTop DEF FramesMapped, CallbackMapped
<1> QED BY <1>4, <1>5

\* A pass calls a plugin.
LEMMA CallsMapped ==
    ASSUME Sheltered, NEW t \in Threads, stack[t] # <<>>,
           Top(t).call \in {"loadPlugins", "shutdownPlugins"},
           NEW at \in Callbacks, NEW i \in Places, i = Top(t).next, NEW next \in Nat,
           CallBack(t, at, next), UNCHANGED <<mapped, loadOrder>>, mapped[loadOrder[i]]
    PROVE  FramesMapped'
<1>0. Typed /\ FramesMapped /\ stack \in Stacks
      BY DEF Sheltered, Lively, Typed, Skeleton
<1>1. Top(t) \in Frame
      BY <1>0, TopFrame
<1> DEFINE f == [call |-> "callback", at |-> at, next |-> i, command |-> Top(t).command]
<1>2. f \in Frame /\ f.next = i
      BY <1>1 DEF Frame, Places
<1>3. PushFromLoop(t, next, f)
      BY DEF CallBack, Called
<1> HIDE DEF f
<1>4. \A u \in Threads : \A j \in 1 .. Len(stack'[u]) :
          \/ j \in 1 .. Len(stack[u]) /\ stack'[u][j] = stack[u][j]
          \/ u = t /\ stack'[u][j].call = Top(t).call /\ stack'[u][j].next = next
             /\ stack'[u][j].command = Top(t).command
          \/ u = t /\ stack'[u][j] = f
      BY <1>0, <1>2, <1>3, PushFromLoopFrames
<1> QED BY <1>0, <1>2, <1>4, MappedKept DEF CallbackMapped

LEMMA NextMapped ==
    ASSUME Sheltered, [Next]_vars
    PROVE  FramesMapped'
<1>0. Typed /\ Lively /\ FramesMapped /\ Values /\ stack \in Stacks /\ Len(loadOrder) \in Nat
      BY DEF Sheltered, Lively, Typed, Skeleton, Values
<1>1. CASE UNCHANGED vars
      BY <1>0, <1>1 DEF FramesMapped, CallbackMapped, vars, specs, resolution
<1>2. ASSUME NEW t \in Threads, Environment(t) \/ System(t) \/ CallbackReturn(t)
      PROVE  FramesMapped'
  <2>1. CASE Quiet(t) \/ InitializeReturn(t) \/ ReadyReturn(t) \/ ShutdownReturn(t)
        BY <2>1, QuietMapped
  <2>2. CASE LoadStart(t) \/ LoadPassEnds(t) \/ InitializePassEnds(t) \/ ReadyPassEnds(t)
             \/ ShutdownStart(t) \/ NotifyPassEnds(t)
    <3>1. /\ stack[t] # <<>> /\ Top(t).call \in {"loadPlugins", "shutdownPlugins", "dispatch"}
          /\ UNCHANGED <<mapped, loadOrder>>
          BY <2>2 DEF LoadStart, LoadPassEnds, InitializePassEnds, ReadyPassEnds, ShutdownStart,
                      NotifyPassEnds, At, specs, resolution
    <3>2. \/ Goto(t, "resolve", 0) \/ Goto(t, "initialize", 1) \/ Goto(t, "ready", Len(loadOrder))
          \/ Goto(t, "pending", 0) \/ Goto(t, "notify", Len(loadOrder))
          \/ Goto(t, "unload", Len(loadOrder))
          BY <2>2 DEF LoadStart, LoadPassEnds, InitializePassEnds, ReadyPassEnds, ShutdownStart,
                      NotifyPassEnds
    <3> QED BY <1>0, <3>1, <3>2, GoesOnMapped
  <2>3. CASE Resolve(t) \/ UnloadStep(t)
    <3>1. /\ stack[t] # <<>> /\ Top(t).call \in {"loadPlugins", "shutdownPlugins", "dispatch"}
          /\ Passing(Top(t)) /\ (UnloadStep(t) => InOrder(t))
          BY <2>3 DEF Resolve, UnloadStep, At, Passing, LoadPass, LoaderFrame, EndPass
    <3>2. CASE Resolve(t)
          BY <3>1, <3>2, GoesOnMapped DEF Resolve
    <3>3. CASE UnloadStep(t)
      <4>1. PICK i \in Places : i = Top(t).next
            BY <1>0, <3>1, <3>3, LoopAt
      <4>2. i - 1 \in Nat /\ Goto(t, "unload", i - 1)
            BY <3>3, <4>1 DEF UnloadStep, Places
      <4> QED BY <3>1, <4>2, GoesOnMapped
    <3> QED BY <2>3, <3>2, <3>3
  <2>4. CASE LoadStep(t) \/ InitializeStep(t) \/ ReadyStep(t) \/ NotifyStep(t)
    <3>1. /\ stack[t] # <<>> /\ InOrder(t) /\ UNCHANGED loadOrder
          /\ Top(t).call \in {"loadPlugins", "shutdownPlugins"}
          /\ ~LoadStep(t) => UNCHANGED mapped
          BY <2>4 DEF LoadStep, InitializeStep, ReadyStep, NotifyStep, At, resolution, specs
    <3>2. PICK i \in Places : i = Top(t).next
          BY <1>0, <3>1, LoopAt
    <3>3. i + 1 \in Nat /\ i - 1 \in Nat
          BY DEF Places
    <3>4. CASE LoadStep(t)
      <4>1. Goto(t, "load", i + 1)
            BY <3>2, <3>4 DEF LoadStep
      <4>2. \A p \in Plugins : mapped[p] => mapped'[p]
            BY <1>0, <3>4 DEF LoadStep, Values
      <4> QED BY <3>1, <3>3, <4>1, <4>2, GoesOnMapped
    <3>5. CASE InitializeStep(t)
      <4>1. \/ Goto(t, "initialize", i + 1)
            \/ CallBack(t, "initialize", i + 1) /\ Loaded(loadOrder[i])
            BY <1>0, <3>2, <3>5, InitializeEffect
      <4> QED BY <3>1, <3>2, <3>3, <3>5, <4>1, GoesOnMapped, CallsMapped
              DEF Loaded, Callbacks, InitializeStep, LoadStep, At
    <3>6. CASE ReadyStep(t)
      <4>1. \/ Goto(t, "ready", i - 1)
            \/ CallBack(t, "pluginsInitialized", i - 1) /\ Initialized(loadOrder[i])
            BY <1>0, <3>2, <3>6, ReadyEffect
      <4> QED BY <3>1, <3>2, <3>3, <3>6, <4>1, GoesOnMapped, CallsMapped
              DEF Initialized, Callbacks, ReadyStep, LoadStep, At
    <3>7. CASE NotifyStep(t)
      <4>1. \/ Goto(t, "notify", i - 1)
            \/ CallBack(t, "aboutToShutdown", i - 1) /\ Running(loadOrder[i])
            BY <1>0, <3>2, <3>7, NotifyEffect
      <4> QED BY <3>1, <3>2, <3>3, <3>7, <4>1, GoesOnMapped, CallsMapped
              DEF Running, Callbacks, NotifyStep, LoadStep, At
    <3> QED BY <2>4, <3>4, <3>5, <3>6, <3>7
  <2>5. CASE DispatchStep(t)
    <3>1. stack[t] # <<>> /\ InOrder(t) /\ Top(t).call = "dispatch" /\ UNCHANGED <<mapped, loadOrder>>
          BY <2>5 DEF DispatchStep, DispatchOver, At, resolution, specs
    <3>2. PICK i \in Places : i = Top(t).next
          BY <1>0, <3>1, LoopAt
    <3>3. i + 1 \in Nat /\ i \in Nat
          BY DEF Places
    <3> DEFINE f == [call |-> "callback", at |-> "remoteCommand", next |-> i,
                     command |-> Top(t).command]
    <3>4. Goto(t, "pass", i + 1) \/ PushFromLoop(t, i + 1, f)
          BY <2>5, <3>2 DEF DispatchStep
    <3>5. CASE PushFromLoop(t, i + 1, f)
      <4>1. f \in Frame /\ f.at = "remoteCommand"
            BY <1>0, <3>1, <3>3, TopFrame DEF Frame, Callbacks
      <4> HIDE DEF f
      <4>2. \A u \in Threads : \A j \in 1 .. Len(stack'[u]) :
                \/ j \in 1 .. Len(stack[u]) /\ stack'[u][j] = stack[u][j]
                \/ u = t /\ stack'[u][j].call = Top(t).call /\ stack'[u][j].next = i + 1
                   /\ stack'[u][j].command = Top(t).command
                \/ u = t /\ stack'[u][j] = f
            BY <1>0, <3>1, <3>3, <3>5, <4>1, PushFromLoopFrames
      <4> QED BY <1>0, <3>1, <4>1, <4>2, MappedKept DEF CallbackMapped
    <3> QED BY <3>1, <3>3, <3>4, <3>5, GoesOnMapped
  <2> QED BY <1>2, <2>1, <2>2, <2>3, <2>4, <2>5
          DEF System, LoadPlugins, Dispatch, ShutdownPlugins, CallbackReturn, Quiet
<1> QED BY <1>1, <1>2 DEF Next

LEMMA AlwaysSheltered == Spec => []Sheltered
<1>1. Init => FramesMapped
      BY DEF Init, FramesMapped
<1>2. Sheltered /\ [Next]_vars => Sheltered'
      BY NextMapped, NextLively DEF Sheltered
<1> QED BY <1>1, <1>2, InitLively, PTL DEF Spec, Sheltered

\* initialize(), pluginsInitialized() and aboutToShutdown() only ever run in a
\* library that is loaded: the lock and the passes keep it there.
THEOREM PassCallbacksMapped == Spec => []FramesMapped
BY AlwaysSheltered, PTL DEF Sheltered

-----------------------------------------------------------------------------
(* Commands that were kept are numbered 1 .. kept, and 1 .. Taken of them  *)
(* have left the queue.                                                    *)

Taken == kept - Len(pending)

\* Accepted, and not in the queue.
Left(c) == c \in 1 .. passed /\ (c <= Taken \/ c > kept)

Numbers ==
    /\ kept <= passed /\ Len(pending) <= kept
    /\ \A i \in 1 .. Len(pending) : pending[i] = Taken + i
    /\ IF loadFinished THEN pending = <<>> ELSE kept = passed
    /\ Taken # 0 => loadStarted /\ NoLoadPass

\* Frame i of thread t is a run of dispatchRemoteCommand.
Dispatching(t, i) == i \in 1 .. Len(stack[t]) /\ stack[t][i].call = "dispatch"

Dispatches ==
    \A t \in Threads : \A i \in 1 .. Len(stack[t]) : Dispatching(t, i) =>
        /\ Left(stack[t][i].command) /\ stack[t][i].next >= 1
        /\ ~loadFinished =>
               i > 1 /\ LoaderFrame(stack[t][i - 1]) /\ stack[t][i].command = Taken
        /\ \A u \in Threads : \A j \in 1 .. Len(stack[u]) :
               Dispatching(u, j) /\ stack[u][j].command = stack[t][i].command => u = t /\ j = i
        /\ \A k \in Places : k >= stack[t][i].next =>
               stack[t][i].command \notin Handed(loadOrder[k])

\* The i-th callback of p is a command.
Command(p, i) == i \in 1 .. Len(calls[p]) /\ calls[p][i].at = "remoteCommand"

Histories ==
    \A p \in Plugins : \A i \in 1 .. Len(calls[p]) : Command(p, i) =>
        /\ Left(calls[p][i].command)
        /\ i <= kept + 2 => calls[p][i].command = i - 2
        /\ ~loadFinished => i <= Taken + 2
        /\ \A j \in 1 .. Len(calls[p]) :
               Command(p, j) /\ calls[p][j].command = calls[p][i].command => j = i

\* A dispatch has not come past place k.
DispatchTo(t, i, k) == Dispatching(t, i) /\ stack[t][i].next <= k

Reached(k) ==
    LET p == loadOrder[k] IN
    state[p] = "Running" /\ ~shutdownFinished =>
        /\ \A i \in 3 .. Len(calls[p]) : Command(p, i)
        /\ loadFinished => Len(calls[p]) >= kept + 2
        /\ loadFinished => \A c \in 1 .. passed :
               c \in Handed(p)
               \/ \E t \in Threads : \E i \in 1 .. Len(stack[t]) :
                      DispatchTo(t, i, k) /\ stack[t][i].command = c
        /\ ~loadFinished =>
               Len(calls[p]) = Taken + 1 \/ Len(calls[p]) = Taken + 2
        /\ ~loadFinished =>
               \A t \in Threads : \A i \in 1 .. Len(stack[t]) :
                   DispatchTo(t, i, k) => Len(calls[p]) = Taken + 1
        /\ ~loadFinished /\ Len(calls[p]) = Taken + 1 =>
               \E t \in Threads : \E i \in 1 .. Len(stack[t]) : DispatchTo(t, i, k)

Deliveries == \A k \in Places : Reached(k)

Commanding == Numbers /\ Dispatches /\ Histories /\ Deliveries

-----------------------------------------------------------------------------
(* Steps that leave the runs of dispatchRemoteCommand alone.               *)

\* The dispatches are where they were and as they were, and so is what each of
\* them was called from; no load pass comes up again.
Steady ==
    /\ \A u \in Threads : \A j \in Nat :
           /\ Dispatching(u, j)' <=> Dispatching(u, j)
           /\ Dispatching(u, j) =>
                  /\ stack'[u][j] = stack[u][j]
                  /\ j > 1 => stack'[u][j - 1] = stack[u][j - 1]
    /\ loadStarted /\ NoLoadPass => NoLoadPass'

LEMMA PushSteady ==
    ASSUME stack \in Stacks, NEW t \in Threads, NEW f \in Frame, Push(t, f),
           f.call # "dispatch", ~LoadPass(f)
    PROVE  Steady
<1>1. /\ stack' \in Stacks
      /\ Len(stack'[t]) = Len(stack[t]) + 1
      /\ \A i \in 1 .. Len(stack[t]) : stack'[t][i] = stack[t][i]
      /\ stack'[t][Len(stack[t]) + 1] = f
      /\ \A u \in Threads \ {t} : stack'[u] = stack[u]
      BY PushStack
<1>2. Len(stack[t]) \in Nat
      BY DEF Stacks
<1>3. ASSUME NEW u \in Threads, NEW j \in Nat
      PROVE  /\ Dispatching(u, j)' <=> Dispatching(u, j)
             /\ Dispatching(u, j) =>
                    /\ stack'[u][j] = stack[u][j]
                    /\ j > 1 => stack'[u][j - 1] = stack[u][j - 1]
      BY <1>1, <1>2 DEF Dispatching
<1>4. NoLoadPass => NoLoadPass'
      BY <1>1, <1>2 DEF NoLoadPass
<1> QED BY <1>3, <1>4 DEF Steady

LEMMA ReturnSteady ==
    ASSUME stack \in Stacks, NEW t \in Threads, stack[t] # <<>>, Return(t),
           Top(t).call # "dispatch"
    PROVE  Steady
<1>1. /\ stack' \in Stacks
      /\ Len(stack[t]) \in Nat \ {0}
      /\ Len(stack'[t]) = Len(stack[t]) - 1
      /\ \A i \in 1 .. Len(stack[t]) - 1 : stack'[t][i] = stack[t][i]
      /\ \A u \in Threads \ {t} : stack'[u] = stack[u]
      BY ReturnStack
<1>2. stack[t][Len(stack[t])].call # "dispatch"
      BY TopFrame
<1>3. ASSUME NEW u \in Threads, NEW j \in Nat
      PROVE  /\ Dispatching(u, j)' <=> Dispatching(u, j)
             /\ Dispatching(u, j) =>
                    /\ stack'[u][j] = stack[u][j]
                    /\ j > 1 => stack'[u][j - 1] = stack[u][j - 1]
      BY <1>1, <1>2 DEF Dispatching
<1>4. NoLoadPass => NoLoadPass'
      BY <1>1 DEF NoLoadPass
<1> QED BY <1>3, <1>4 DEF Steady

LEMMA GotoSteady ==
    ASSUME stack \in Stacks, NEW t \in Threads, stack[t] # <<>>,
           NEW at \in Callbacks \cup {"enter", "resolve", "load", "ready", "pending",
                                       "pass", "notify", "unload"},
           NEW next \in Nat, Goto(t, at, next), Top(t).call # "dispatch",
           Top(t).call # "loadPlugins" \/ LoadPass(Top(t)) \/ ~loadStarted
    PROVE  Steady
<1> DEFINE g == [Top(t) EXCEPT !.at = at, !.next = next]
<1>0. Top(t) \in Frame /\ Len(stack[t]) \in Nat \ {0} /\ Top(t) = stack[t][Len(stack[t])]
      BY TopFrame
<1>1. g.call = Top(t).call /\ g \in Frame
      BY <1>0 DEF Frame
<1>2. /\ stack' \in Stacks
      /\ Len(stack'[t]) = Len(stack[t])
      /\ \A i \in 1 .. Len(stack[t]) - 1 : stack'[t][i] = stack[t][i]
      /\ stack'[t][Len(stack[t])] = g
      /\ \A u \in Threads \ {t} : stack'[u] = stack[u]
      BY <1>1, GotoStack
<1> HIDE DEF g
<1>3. ASSUME NEW u \in Threads, NEW j \in Nat
      PROVE  /\ Dispatching(u, j)' <=> Dispatching(u, j)
             /\ Dispatching(u, j) =>
                    /\ stack'[u][j] = stack[u][j]
                    /\ j > 1 => stack'[u][j - 1] = stack[u][j - 1]
  <2>1. CASE u # t
        BY <1>2, <2>1 DEF Dispatching
  <2>2. CASE u = t /\ j = Len(stack[t])
        BY <1>0, <1>1, <1>2, <2>2 DEF Dispatching
  <2>3. CASE u = t /\ j # Len(stack[t])
        BY <1>0, <1>2, <2>3 DEF Dispatching
  <2> QED BY <2>1, <2>2, <2>3
<1>4. loadStarted /\ NoLoadPass => NoLoadPass'
  <2> SUFFICES ASSUME loadStarted, NoLoadPass PROVE NoLoadPass'
      OBVIOUS
  <2>1. ~LoadPass(g)
        BY <1>0, <1>1 DEF NoLoadPass, LoadPass, LoaderFrame
  <2> QED BY <1>0, <1>2, <2>1 DEF NoLoadPass
<1> QED BY <1>3, <1>4 DEF Steady

LEMMA PushFromLoopSteady ==
    ASSUME stack \in Stacks, NEW t \in Threads, stack[t] # <<>>,
           NEW f \in Frame, NEW next \in Nat, PushFromLoop(t, next, f),
           f.call = "callback", Top(t).call # "dispatch"
    PROVE  Steady
<1> DEFINE g == [Top(t) EXCEPT !.next = next]
<1>0. Top(t) \in Frame /\ Len(stack[t]) \in Nat \ {0} /\ Top(t) = stack[t][Len(stack[t])]
      BY TopFrame
<1>1. g.call = Top(t).call /\ g.at = Top(t).at
      BY <1>0 DEF Frame
<1>2. /\ stack' \in Stacks
      /\ Len(stack'[t]) = Len(stack[t]) + 1
      /\ \A i \in 1 .. Len(stack[t]) - 1 : stack'[t][i] = stack[t][i]
      /\ stack'[t][Len(stack[t])] = g
      /\ stack'[t][Len(stack[t]) + 1] = f
      /\ \A u \in Threads \ {t} : stack'[u] = stack[u]
      BY PushFromLoopStack
<1> HIDE DEF g
<1>3. ASSUME NEW u \in Threads, NEW j \in Nat
      PROVE  /\ Dispatching(u, j)' <=> Dispatching(u, j)
             /\ Dispatching(u, j) =>
                    /\ stack'[u][j] = stack[u][j]
                    /\ j > 1 => stack'[u][j - 1] = stack[u][j - 1]
  <2>1. CASE u # t
        BY <1>2, <2>1 DEF Dispatching
  <2>2. CASE u = t /\ (j = Len(stack[t]) \/ j = Len(stack[t]) + 1)
        BY <1>0, <1>1, <1>2, <2>2 DEF Dispatching
  <2>3. CASE u = t /\ j # Len(stack[t]) /\ j # Len(stack[t]) + 1
        BY <1>0, <1>2, <2>3, SMTT(30) DEF Dispatching
  <2> QED BY <2>1, <2>2, <2>3
<1>4. NoLoadPass => NoLoadPass'
  <2> SUFFICES ASSUME NoLoadPass PROVE NoLoadPass'
      OBVIOUS
  <2>1. ~LoadPass(g) /\ ~LoadPass(f)
        BY <1>0, <1>1 DEF NoLoadPass, LoadPass, LoaderFrame
  <2> QED BY <1>0, <1>2, <2>1, SMTT(30) DEF NoLoadPass
<1> QED BY <1>3, <1>4 DEF Steady

-----------------------------------------------------------------------------
(* Steps that give nobody a command.                                       *)

HandedCommands ==
    \A p \in Plugins : \A c :
        c \in Handed(p) <=> \E i \in Nat : Command(p, i) /\ calls[p][i].command = c

LEMMA TypedHanded == Typed => HandedCommands
<1> SUFFICES ASSUME Typed PROVE HandedCommands
    OBVIOUS
<1>1. \A p \in Plugins : Len(calls[p]) \in Nat /\ DOMAIN calls[p] = 1 .. Len(calls[p])
      BY DEF Typed, Values
<1> QED BY <1>1 DEF HandedCommands, Handed, Command

LEMMA HandedNext == Typed' => HandedCommands'
BY TypedHanded, PTL

\* The commands that plugins were given are where they were.
Remembers ==
    \A p \in Plugins : \A i \in Nat :
        /\ Command(p, i)' <=> Command(p, i)
        /\ Command(p, i) => calls'[p][i] = calls[p][i]

LEMMA RemembersHanded ==
    ASSUME Typed, Typed', Remembers
    PROVE  \A p \in Plugins : Handed(p)' = Handed(p)
<1> SUFFICES ASSUME NEW p \in Plugins PROVE Handed(p)' = Handed(p)
    OBVIOUS
<1>1. \A c : c \in Handed(p)' <=> c \in Handed(p)
      BY TypedHanded, HandedNext DEF HandedCommands, Remembers
<1> QED BY <1>1

Going(p) == state[p] = "Running" /\ ~shutdownFinished

NoDispatch == \A t \in Threads : \A i \in Nat : ~Dispatching(t, i)

\* No plugin starts to be given commands, and none that is has been called.
NoneStarts ==
    \A k \in Places' : Going(loadOrder[k])' =>
        /\ k \in Places /\ loadOrder'[k] = loadOrder[k]
        /\ Going(loadOrder[k]) /\ calls'[loadOrder[k]] = calls[loadOrder[k]]

LEMMA NumbersKept ==
    ASSUME Numbers, Steady, UNCHANGED <<commands, loadFinished>>, loadStarted => loadStarted'
    PROVE  Numbers' /\ Taken' = Taken /\ \A c : Left(c)' <=> Left(c)
<1>1. UNCHANGED <<pending, passed, kept, loadFinished>>
      BY DEF commands
<1>2. Taken' = Taken
      BY <1>1 DEF Taken
<1> QED BY <1>1, <1>2 DEF Numbers, Steady, Left

LEMMA DispatchesKept ==
    ASSUME Typed, Dispatches, Numbers, Steady, UNCHANGED <<commands, loadFinished>>,
           loadStarted => loadStarted', \A p \in Plugins : Handed(p)' = Handed(p),
           NoDispatch \/ UNCHANGED loadOrder
    PROVE  Dispatches'
<1>1. Taken' = Taken /\ \A c : Left(c)' <=> Left(c)
      BY NumbersKept
<1>2. \A u \in Threads : \A j \in Nat :
          /\ Dispatching(u, j)' <=> Dispatching(u, j)
          /\ Dispatching(u, j) => stack'[u][j] = stack[u][j] /\ (j > 1 => stack'[u][j - 1] = stack[u][j - 1])
      BY DEF Steady
<1>3. \A u \in Threads : Len(stack[u]) \in Nat
      BY DEF Typed, Skeleton, Stacks
<1> SUFFICES ASSUME NEW t \in Threads, NEW i \in 1 .. Len(stack'[t]), Dispatching(t, i)'
             PROVE  /\ Left(stack[t][i].command)' /\ stack'[t][i].next >= 1
                    /\ ~loadFinished' =>
                           i > 1 /\ LoaderFrame(stack[t][i - 1])' /\ stack'[t][i].command = Taken'
                    /\ \A u \in Threads : \A j \in 1 .. Len(stack'[u]) :
                           Dispatching(u, j)' /\ stack'[u][j].command = stack'[t][i].command
                               => u = t /\ j = i
                    /\ \A k \in Places' : k >= stack'[t][i].next =>
                           stack'[t][i].command \notin Handed(loadOrder[k])'
    BY DEF Dispatches
<1>4. i \in Nat /\ Dispatching(t, i) /\ i \in 1 .. Len(stack[t]) /\ stack'[t][i] = stack[t][i]
      BY <1>2 DEF Dispatching
<1>5. /\ Left(stack[t][i].command) /\ stack[t][i].next >= 1
      /\ ~loadFinished =>
             i > 1 /\ LoaderFrame(stack[t][i - 1]) /\ stack[t][i].command = Taken
      /\ \A u \in Threads : \A j \in 1 .. Len(stack[u]) :
             Dispatching(u, j) /\ stack[u][j].command = stack[t][i].command => u = t /\ j = i
      /\ \A k \in Places : k >= stack[t][i].next =>
             stack[t][i].command \notin Handed(loadOrder[k])
      BY <1>4 DEF Dispatches
<1>6. Left(stack[t][i].command)' /\ stack'[t][i].next >= 1
      BY <1>1, <1>4, <1>5
<1>7. ~loadFinished' =>
          i > 1 /\ LoaderFrame(stack[t][i - 1])' /\ stack'[t][i].command = Taken'
      BY <1>1, <1>2, <1>4, <1>5 DEF LoaderFrame
<1>8. \A u \in Threads : \A j \in 1 .. Len(stack'[u]) :
          Dispatching(u, j)' /\ stack'[u][j].command = stack'[t][i].command => u = t /\ j = i
  <2> SUFFICES ASSUME NEW u \in Threads, NEW j \in 1 .. Len(stack'[u]),
                      Dispatching(u, j)', stack'[u][j].command = stack'[t][i].command
               PROVE  u = t /\ j = i
      OBVIOUS
  <2>1. j \in 1 .. Len(stack[u]) /\ Dispatching(u, j) /\ stack'[u][j] = stack[u][j]
        BY <1>2 DEF Dispatching
  <2> QED BY <1>4, <1>5, <2>1
<1>9. UNCHANGED loadOrder
      BY <1>4 DEF NoDispatch
<1>10. \A k \in Places' : k >= stack'[t][i].next =>
           stack'[t][i].command \notin Handed(loadOrder[k])'
  <2> SUFFICES ASSUME NEW k \in Places, k >= stack[t][i].next
               PROVE  stack[t][i].command \notin Handed(loadOrder[k])'
      BY <1>4, <1>9 DEF Places
  <2>1. PICK p \in Plugins : p = loadOrder[k]
        BY DEF Typed, Values, Places
  <2>2. Handed(p)' = Handed(p) /\ loadOrder'[k] = p
        BY <1>9, <2>1
  <2>3. Handed(loadOrder[k])' = Handed(p)'
        BY <2>2 DEF Handed
  <2> QED BY <1>5, <2>1, <2>2, <2>3
<1> QED BY <1>6, <1>7, <1>8, <1>10

LEMMA HistoriesKept ==
    ASSUME Typed, Typed', Histories, Numbers, Steady, UNCHANGED <<commands, loadFinished>>,
           loadStarted => loadStarted', Remembers
    PROVE  Histories'
<1>1. Taken' = Taken /\ (\A c : Left(c)' <=> Left(c)) /\ UNCHANGED <<kept, loadFinished>>
      BY NumbersKept DEF commands
<1> SUFFICES ASSUME NEW p \in Plugins, NEW i \in 1 .. Len(calls'[p]), Command(p, i)'
             PROVE  /\ Left(calls[p][i].command)'
                    /\ i <= kept' + 2 => calls'[p][i].command = i - 2
                    /\ ~loadFinished' => i <= Taken' + 2
                    /\ \A j \in 1 .. Len(calls'[p]) :
                           Command(p, j)' /\ calls'[p][j].command = calls'[p][i].command => j = i
    BY DEF Histories
<1>2. \A j \in 1 .. Len(calls'[p]) : Command(p, j)' =>
          j \in 1 .. Len(calls[p]) /\ Command(p, j) /\ calls'[p][j] = calls[p][j]
      BY DEF Remembers, Command
<1>3. i \in 1 .. Len(calls[p]) /\ Command(p, i) /\ calls'[p][i] = calls[p][i]
      BY <1>2
<1>4. /\ Left(calls[p][i].command)
      /\ i <= kept + 2 => calls[p][i].command = i - 2
      /\ ~loadFinished => i <= Taken + 2
      /\ \A j \in 1 .. Len(calls[p]) :
             Command(p, j) /\ calls[p][j].command = calls[p][i].command => j = i
      BY <1>3 DEF Histories
<1>5. Left(calls[p][i].command)'
      BY <1>1, <1>3, <1>4
<1> QED BY <1>1, <1>2, <1>3, <1>4, <1>5


LEMMA DeliveriesKept ==
    ASSUME Typed, Deliveries, Numbers, Steady, UNCHANGED <<commands, loadFinished>>,
           loadStarted => loadStarted', \A p \in Plugins : Handed(p)' = Handed(p),
           Remembers, NoneStarts
    PROVE  Deliveries'
<1>1. Taken' = Taken /\ UNCHANGED <<kept, passed, loadFinished>>
      BY NumbersKept DEF commands
<1>2. \A u \in Threads : \A j \in Nat :
          /\ Dispatching(u, j)' <=> Dispatching(u, j)
          /\ Dispatching(u, j) => stack'[u][j] = stack[u][j]
      BY DEF Steady
<1>3. \A u \in Threads : \A j \in Nat : \A k :
          /\ DispatchTo(u, j, k)' <=> DispatchTo(u, j, k)
          /\ DispatchTo(u, j, k) => stack'[u][j] = stack[u][j] /\ j \in 1 .. Len(stack[u])
                                    /\ j \in 1 .. Len(stack'[u])
      BY <1>2 DEF DispatchTo, Dispatching
<1> SUFFICES ASSUME NEW k \in Places', Going(loadOrder[k])'
             PROVE  Reached(k)'
    BY DEF Deliveries, Reached, Going
<1>4. /\ k \in Places /\ loadOrder'[k] = loadOrder[k]
      /\ Going(loadOrder[k]) /\ calls'[loadOrder[k]] = calls[loadOrder[k]]
      BY DEF NoneStarts
<1>5. PICK p \in Plugins : p = loadOrder[k]
      BY <1>4 DEF Typed, Values, Places
<1>6. /\ \A i \in 3 .. Len(calls[p]) : Command(p, i)
      /\ loadFinished => Len(calls[p]) >= kept + 2
      /\ loadFinished => \A c \in 1 .. passed :
             c \in Handed(p)
             \/ \E t \in Threads : \E i \in 1 .. Len(stack[t]) :
                    DispatchTo(t, i, k) /\ stack[t][i].command = c
      /\ ~loadFinished =>
             Len(calls[p]) = Taken + 1 \/ Len(calls[p]) = Taken + 2
      /\ ~loadFinished =>
             \A t \in Threads : \A i \in 1 .. Len(stack[t]) :
                 DispatchTo(t, i, k) => Len(calls[p]) = Taken + 1
      /\ ~loadFinished /\ Len(calls[p]) = Taken + 1 =>
             \E t \in Threads : \E i \in 1 .. Len(stack[t]) : DispatchTo(t, i, k)
      BY <1>4, <1>5 DEF Deliveries, Reached, Going
<1>7. /\ \A i \in 3 .. Len(calls'[p]) : Command(p, i)'
      /\ loadFinished' => Len(calls'[p]) >= kept' + 2
      /\ ~loadFinished' =>
             Len(calls'[p]) = Taken' + 1 \/ Len(calls'[p]) = Taken' + 2
      BY <1>1, <1>4, <1>5, <1>6 DEF Command
<1>8. loadFinished' => \A c \in 1 .. passed' :
          c \in Handed(p)'
          \/ \E t \in Threads : \E i \in 1 .. Len(stack'[t]) :
                 DispatchTo(t, i, k)' /\ stack'[t][i].command = c
  <2> SUFFICES ASSUME loadFinished, NEW c \in 1 .. passed, c \notin Handed(p)
               PROVE  \E t \in Threads : \E i \in 1 .. Len(stack'[t]) :
                          DispatchTo(t, i, k)' /\ stack'[t][i].command = c
      BY <1>1
  <2>1. PICK t \in Threads : \E i \in 1 .. Len(stack[t]) :
            DispatchTo(t, i, k) /\ stack[t][i].command = c
        BY <1>6
  <2> QED BY <1>3, <2>1
<1>9. /\ ~loadFinished' =>
             \A t \in Threads : \A i \in 1 .. Len(stack'[t]) :
                 DispatchTo(t, i, k)' => Len(calls'[p]) = Taken' + 1
      /\ ~loadFinished' /\ Len(calls'[p]) = Taken' + 1 =>
             \E t \in Threads : \E i \in 1 .. Len(stack'[t]) : DispatchTo(t, i, k)'
      BY <1>1, <1>3, <1>4, <1>5, <1>6
<1>10. loadOrder'[k] = p
       BY <1>4, <1>5
<1>11. Handed(loadOrder[k])' = Handed(p)' /\ \A i : Command(loadOrder[k], i)' <=> Command(p, i)'
       BY <1>10 DEF Handed, Command
<1> QED BY <1>7, <1>8, <1>9, <1>10, <1>11 DEF Reached

LEMMA CommandingKept ==
    ASSUME Typed, Typed', Commanding, Steady, UNCHANGED <<commands, loadFinished>>,
           loadStarted => loadStarted', Remembers, NoneStarts, NoDispatch \/ UNCHANGED loadOrder
    PROVE  Commanding'
<1>1. \A p \in Plugins : Handed(p)' = Handed(p)
      BY RemembersHanded
<1>2. Numbers'
      BY NumbersKept DEF Commanding
<1>3. Dispatches'
      BY <1>1, DispatchesKept DEF Commanding
<1>4. Histories'
      BY HistoriesKept DEF Commanding
<1>5. Deliveries'
      BY <1>1, DeliveriesKept DEF Commanding
<1> QED BY <1>2, <1>3, <1>4, <1>5 DEF Commanding


LEMMA SilentCommanding ==
    ASSUME Typed, Typed', Commanding, Steady,
           UNCHANGED <<commands, loadFinished, calls, loadOrder>>,
           loadStarted => loadStarted', shutdownFinished => shutdownFinished',
           \A p \in Plugins : state'[p] = "Running" => state[p] = "Running"
    PROVE  Commanding'
<1>1. Remembers
      BY DEF Remembers, Command
<1>2. NoneStarts
  <2> SUFFICES ASSUME NEW k \in Places', Going(loadOrder[k])'
               PROVE  /\ k \in Places /\ loadOrder'[k] = loadOrder[k]
                      /\ Going(loadOrder[k]) /\ calls'[loadOrder[k]] = calls[loadOrder[k]]
      BY DEF NoneStarts
  <2>1. k \in Places /\ loadOrder'[k] = loadOrder[k]
        BY DEF Places
  <2>2. PICK p \in Plugins : p = loadOrder[k]
        BY <2>1 DEF Typed, Values, Places
  <2> QED BY <2>1, <2>2 DEF Going
<1> QED BY <1>1, <1>2, CommandingKept

\* A plugin is called that is given no commands, at any rate not now.
LEMMA CalledCommanding ==
    ASSUME Typed, Typed', Ordering, Commanding, NEW t \in Threads, stack[t] # <<>>,
           Top(t).call \in {"loadPlugins", "shutdownPlugins"},
           NEW at \in Callbacks, at # "remoteCommand", NEW next \in Nat,
           NEW i \in Places, i = Top(t).next,
           CallBack(t, at, next), ~Going(loadOrder[i]),
           UNCHANGED <<flags, commands, loadOrder, state>>
    PROVE  Commanding'
<1> DEFINE f == [call |-> "callback", at |-> at, next |-> i, command |-> Top(t).command]
           c == [at |-> at, command |-> Top(t).command]
<1>0. stack \in Stacks /\ calls \in [Plugins -> Seq(Given)]
      BY DEF Typed, Skeleton, Values
<1>1. Top(t) \in Frame
      BY <1>0, TopFrame
<1>2. f \in Frame /\ f.call = "callback" /\ c \in Given /\ c.at # "remoteCommand"
      BY <1>1 DEF Frame, Places, Given
<1>3. PushFromLoop(t, next, f)
      BY DEF CallBack, Called
<1>4. PICK p \in Plugins : p = loadOrder[i]
      BY DEF Typed, Values, Places
<1>5. calls' = [calls EXCEPT ![p] = Append(@, c)]
      BY <1>4 DEF CallBack, Current
<1> HIDE DEF f, c
<1>6. Steady
      BY <1>0, <1>2, <1>3, PushFromLoopSteady
<1>7. /\ calls'[p] = Append(calls[p], c) /\ calls[p] \in Seq(Given)
      /\ \A q \in Plugins : q # p => calls'[q] = calls[q]
      BY <1>0, <1>4, <1>5
<1>8. /\ Len(Append(calls[p], c)) = Len(calls[p]) + 1 /\ Len(calls[p]) \in Nat
      /\ Append(calls[p], c)[Len(calls[p]) + 1] = c
      /\ \A j \in 1 .. Len(calls[p]) : Append(calls[p], c)[j] = calls[p][j]
      BY <1>2, <1>7
<1>9. Remembers
      BY <1>2, <1>7, <1>8, SMTT(30) DEF Remembers, Command
<1>10. UNCHANGED <<loadStarted, loadFinished, shutdownFinished>>
       BY DEF flags
<1>11. NoneStarts
  <2> SUFFICES ASSUME NEW k \in Places', Going(loadOrder[k])'
               PROVE  /\ k \in Places /\ loadOrder'[k] = loadOrder[k]
                      /\ Going(loadOrder[k]) /\ calls'[loadOrder[k]] = calls[loadOrder[k]]
      BY DEF NoneStarts
  <2>1. k \in Places /\ loadOrder'[k] = loadOrder[k]
        BY DEF Places
  <2>2. PICK q \in Plugins : q = loadOrder[k]
        BY <2>1, SMTT(30) DEF Typed, Values, Places
  <2>3. Going(q)
        BY <1>10, <2>1, <2>2 DEF Going
  <2> QED BY <1>4, <1>7, <2>1, <2>2, <2>3
<1> QED BY <1>6, <1>9, <1>10, <1>11, CommandingKept

LEMMA CallCommanding ==
    ASSUME Typed, Typed', Commanding, NEW t \in Threads,
           \/ Call(t) \/ LoadAgain(t) \/ ShutdownAgain(t) \/ ShutdownReturn(t)
           \/ HandlerReturn(t) \/ InitializeReturn(t)
    PROVE  Commanding'
<1>0. stack \in Stacks /\ state \in [Plugins -> States] /\ loadOrder \in Seq(Plugins)
      BY DEF Typed, Skeleton, Values
<1>1. /\ UNCHANGED <<commands, loadFinished, calls, loadOrder>>
      /\ loadStarted => loadStarted'
      /\ shutdownFinished => shutdownFinished'
      BY DEF Call, LoadAgain, ShutdownAgain, ShutdownReturn, HandlerReturn, InitializeReturn,
             flags, resolution
<1>2. \A p \in Plugins : state'[p] = "Running" => state[p] = "Running"
  <2>1. CASE ~InitializeReturn(t)
        BY <2>1 DEF Call, LoadAgain, ShutdownAgain, ShutdownReturn, HandlerReturn, specs
  <2>2. CASE InitializeReturn(t)
        BY <1>0, <2>2 DEF InitializeReturn, SetState
  <2> QED BY <2>1, <2>2
<1>3. Steady
  <2>1. CASE Call(t)
    <3> DEFINE f(api) == [call |-> api, at |-> "enter", next |-> 0, command |-> NoCommand]
    <3>1. PICK api \in {"loadPlugins", "shutdownPlugins"} : Push(t, f(api))
          BY <2>1 DEF Call
    <3>2. f(api) \in Frame /\ f(api).call # "dispatch" /\ ~LoadPass(f(api))
          BY DEF Frame, LoadPass, LoaderFrame, NoCommand
    <3> QED BY <1>0, <3>1, <3>2, PushSteady
  <2>2. CASE ~Call(t)
    <3>1. stack[t] # <<>> /\ Return(t) /\ Top(t).call # "dispatch"
          BY <2>2 DEF LoadAgain, ShutdownAgain, ShutdownReturn, HandlerReturn, InitializeReturn,
                      CallbackReturns, At
    <3> QED BY <1>0, <3>1, ReturnSteady
  <2> QED BY <2>1, <2>2
<1> QED BY <1>1, <1>2, <1>3, SilentCommanding

\* A loop goes on.
LEMMA GoesOnCommanding ==
    ASSUME Typed, Typed', Commanding, NEW t \in Threads,
           \/ LoadStart(t) \/ LoadStep(t) \/ LoadPassEnds(t) \/ InitializePassEnds(t)
           \/ ReadyPassEnds(t) \/ ShutdownStart(t) \/ NotifyPassEnds(t) \/ UnloadStep(t)
    PROVE  Commanding'
<1>0. /\ stack \in Stacks /\ state \in [Plugins -> States] /\ loadOrder \in Seq(Plugins)
      /\ stack[t] # <<>> /\ Top(t).call \in {"loadPlugins", "shutdownPlugins"}
      /\ Top(t).call # "loadPlugins" \/ LoadPass(Top(t)) \/ ~loadStarted
      BY DEF Typed, Skeleton, Values, LoadStart, LoadStep, LoadPassEnds, InitializePassEnds,
             ReadyPassEnds, ShutdownStart, NotifyPassEnds, UnloadStep, At, LoadPass, LoaderFrame
<1>1. /\ UNCHANGED <<commands, loadFinished, calls, loadOrder>>
      /\ loadStarted => loadStarted'
      /\ shutdownFinished => shutdownFinished'
      BY DEF LoadStart, LoadStep, LoadPassEnds, InitializePassEnds,
             ReadyPassEnds, ShutdownStart, NotifyPassEnds, UnloadStep, flags, resolution
<1>2. \A p \in Plugins : state'[p] = "Running" => state[p] = "Running"
  <2>1. CASE ~(LoadStep(t) \/ UnloadStep(t))
        BY <2>1 DEF LoadStart, LoadPassEnds, InitializePassEnds, ReadyPassEnds, ShutdownStart,
                    NotifyPassEnds, specs
  <2>2. CASE LoadStep(t)
        BY <1>0, <2>2 DEF LoadStep, SetState
  <2>3. CASE UnloadStep(t)
        BY <1>0, <2>3 DEF UnloadStep, UnloadPlugin, SetState, specs
  <2> QED BY <2>1, <2>2, <2>3
<1>3. Steady
  <2>1. Len(loadOrder) \in Nat /\ Top(t).next \in Nat
        BY <1>0, TopFrame DEF Frame
  <2>2. CASE ~(LoadStep(t) \/ UnloadStep(t))
    <3>1. \/ Goto(t, "resolve", 0) \/ Goto(t, "initialize", 1) \/ Goto(t, "ready", Len(loadOrder))
          \/ Goto(t, "pending", 0) \/ Goto(t, "notify", Len(loadOrder))
          \/ Goto(t, "unload", Len(loadOrder))
          BY <2>2 DEF LoadStart, LoadPassEnds, InitializePassEnds, ReadyPassEnds, ShutdownStart,
                      NotifyPassEnds
    <3> QED BY <1>0, <2>1, <3>1, GotoSteady DEF Callbacks
  <2>3. CASE LoadStep(t)
    <3>1. Goto(t, "load", Top(t).next + 1) /\ Top(t).next + 1 \in Nat
          BY <2>1, <2>3 DEF LoadStep
    <3> QED BY <1>0, <3>1, GotoSteady DEF Callbacks
  <2>4. CASE UnloadStep(t)
    <3>1. Goto(t, "unload", Top(t).next - 1) /\ Top(t).next - 1 \in Nat
          BY <1>0, <2>1, <2>4 DEF UnloadStep, InOrder
    <3> QED BY <1>0, <3>1, GotoSteady DEF Callbacks
  <2> QED BY <2>2, <2>3, <2>4
<1> QED BY <1>1, <1>2, <1>3, SilentCommanding


LEMMA PassCallsCommanding ==
    ASSUME Typed', Lively, Commanding, NEW t \in Threads,
           InitializeStep(t) \/ ReadyStep(t) \/ NotifyStep(t)
    PROVE  Commanding'
<1>0. /\ stack[t] # <<>> /\ InOrder(t) /\ Typed /\ Ordering /\ stack \in Stacks
      /\ Top(t).call \in {"loadPlugins", "shutdownPlugins"}
      /\ Top(t).call # "loadPlugins" \/ LoadPass(Top(t)) \/ ~loadStarted
      BY DEF Lively, Typed, Skeleton, InitializeStep, ReadyStep, NotifyStep, At, LoadPass, LoaderFrame
<1>1. PICK i \in Places : i = Top(t).next
      BY <1>0, LoopAt
<1>2. i + 1 \in Nat /\ i - 1 \in Nat
      BY DEF Places
<1>3. UNCHANGED <<flags, commands, loadOrder, state>>
      BY DEF InitializeStep, ReadyStep, NotifyStep, resolution, specs
<1>4. \/ /\ Goto(t, "initialize", i + 1) \/ Goto(t, "ready", i - 1) \/ Goto(t, "notify", i - 1)
         /\ UNCHANGED calls
      \/ /\ ~Going(loadOrder[i])
         /\ CallBack(t, "initialize", i + 1) \/ CallBack(t, "pluginsInitialized", i - 1)
            \/ CallBack(t, "aboutToShutdown", i - 1)
  <2>1. CASE InitializeStep(t)
        BY <1>1, <2>1 DEF InitializeStep, Going, Current
  <2>2. CASE ReadyStep(t)
        BY <1>1, <2>2 DEF ReadyStep, Going, Current
  <2>3. CASE NotifyStep(t)
    <3>1. shutdownFinished
          BY <1>1, <2>3, NotifyEffect
    <3> QED BY <1>1, <2>3, <3>1 DEF NotifyStep, Going, Current
  <2> QED BY <2>1, <2>2, <2>3
<1>5. CASE /\ Goto(t, "initialize", i + 1) \/ Goto(t, "ready", i - 1) \/ Goto(t, "notify", i - 1)
           /\ UNCHANGED calls
  <2>1. Steady
        BY <1>0, <1>2, <1>5, GotoSteady DEF Callbacks
  <2> QED BY <1>0, <1>3, <1>5, <2>1, SilentCommanding DEF flags
<1>6. CASE /\ ~Going(loadOrder[i])
           /\ CallBack(t, "initialize", i + 1) \/ CallBack(t, "pluginsInitialized", i - 1)
              \/ CallBack(t, "aboutToShutdown", i - 1)
      BY <1>0, <1>1, <1>2, <1>3, <1>6, CalledCommanding DEF Callbacks
<1> QED BY <1>4, <1>5, <1>6

\* During the passes of loadPlugins() the queue has not been touched.
LEMMA UnderLoadPass ==
    ASSUME Typed, Numbers, NEW t \in Threads, NEW i \in 1 .. Len(stack[t]), LoadPass(stack[t][i])
    PROVE  NoDispatch /\ ~loadFinished /\ Taken = 0
<1>1. NoDispatch
      BY DEF Typed, Skeleton, Discipline, Exclusive, NoDispatch, Dispatching
<1>2. ~loadFinished
      BY DEF Typed, Skeleton, Discipline, FramesOK, LoadPass
<1>3. Taken = 0
      BY DEF Numbers, NoLoadPass
<1> QED BY <1>1, <1>2, <1>3

LEMMA ResolveCommanding ==
    ASSUME Typed, Typed', Commanding, NEW t \in Threads, Resolve(t)
    PROVE  Commanding'
<1>0. /\ stack[t] # <<>> /\ stack \in Stacks /\ LoadPass(Top(t)) /\ Top(t).call = "loadPlugins"
      /\ state \in [Plugins -> States]
      BY DEF Typed, Skeleton, Resolve, At, LoadPass, LoaderFrame, Values
<1>1. NoDispatch
  <2>1. Len(stack[t]) \in 1 .. Len(stack[t]) /\ Top(t) = stack[t][Len(stack[t])]
        BY <1>0, TopFrame
  <2> QED BY <1>0, <2>1, UnderLoadPass DEF Commanding
<1>2. Steady
      BY <1>0, GotoSteady DEF Resolve
<1>3. UNCHANGED <<commands, flags, calls>>
      BY DEF Resolve
<1>4. Remembers
      BY <1>3 DEF Remembers, Command
<1>5. NoneStarts
  <2>1. \A p \in Plugins : p \in ToSet(loadOrder') => state'[p] = "Resolved"
        BY <1>0 DEF Resolve
  <2>2. \A k \in Places' : loadOrder'[k] \in Plugins /\ loadOrder'[k] \in ToSet(loadOrder')
        BY DEF Typed, Values, Places, ToSet
  <2>3. \A k \in Places' : ~Going(loadOrder[k])'
        BY <2>1, <2>2 DEF Going
  <2> QED BY <2>3 DEF NoneStarts
<1> QED BY <1>1, <1>2, <1>3, <1>4, <1>5, CommandingKept DEF flags

\* A plugin begins to run before there are commands for it.
LEMMA ReadyReturnCommanding ==
    ASSUME Typed', Lively, Commanding, NEW t \in Threads, ReadyReturn(t)
    PROVE  Commanding'
<1>0. /\ stack[t] # <<>> /\ Top(t).call = "callback" /\ Top(t).at = "pluginsInitialized"
      /\ Return(t) /\ Typed /\ Ordering /\ stack \in Stacks
      BY DEF ReadyReturn, CallbackReturns, Lively, Typed, Skeleton
<1>1. Len(stack[t]) \in Nat \ {0} /\ Top(t) = stack[t][Len(stack[t])] /\ Top(t).next \in Nat
      BY <1>0, TopFrame DEF Frame
<1>2. PICK i \in Places : i = Top(t).next
  <2>1. Len(stack[t]) \in 1 .. Len(stack[t])
        BY <1>1
  <2>2. Bounded(Top(t))
        BY <1>0, <1>1, <2>1 DEF Typed, Positions
  <2>3. DOMAIN loadOrder = Places
        BY <1>0 DEF Typed, Values, Places
  <2> QED BY <1>0, <2>2, <2>3 DEF Bounded
<1>3. /\ OnlyAt(i) /\ Readying(loadOrder[i]) /\ Running(loadOrder[i])'
      /\ UNCHANGED <<loadOrder, shutdownFinished, calls>>
      BY <1>2, ReadyReturnEffect
<1>4. NoDispatch /\ ~loadFinished /\ Taken = 0
  <2> DEFINE n == Len(stack[t])
  <2>0. n \in 1 .. n
        BY <1>1
  <2>1. n = 1 => stack[t][n].call # "callback"
        BY <1>0, <2>0 DEF Typed, Skeleton, StackOK
  <2>2. Nested(stack[t][Len(stack[t]) - 1], Top(t)) /\ n > 1
        BY <1>0, <1>1, <2>0, <2>1 DEF Typed, Skeleton, StackOK
  <2>3. LoadPass(stack[t][Len(stack[t]) - 1])
        BY <1>0, <2>2 DEF Nested, MadeBy, LoadPass, LoaderFrame
  <2>4. Len(stack[t]) - 1 \in 1 .. Len(stack[t])
        BY <1>1, <2>2
  <2> QED BY <1>0, <2>3, <2>4, UnderLoadPass DEF Commanding
<1>5. Steady
      BY <1>0, ReturnSteady
<1>6. UNCHANGED <<commands, flags>> /\ UNCHANGED <<loadFinished, loadStarted>>
      BY DEF ReadyReturn, flags
<1>7. Remembers
      BY <1>3 DEF Remembers, Command
<1>8. \A p \in Plugins : Handed(p)' = Handed(p)
      BY <1>0, <1>7, RemembersHanded
<1>9. Numbers' /\ Taken' = Taken
      BY <1>5, <1>6, NumbersKept DEF Commanding
<1>10. Dispatches'
       BY <1>0, <1>3, <1>5, <1>6, <1>8, DispatchesKept DEF Commanding
<1>11. Histories'
       BY <1>0, <1>5, <1>6, <1>7, HistoriesKept DEF Commanding
<1>12. Deliveries'
  <2> SUFFICES ASSUME NEW k \in Places, Going(loadOrder[k])'
               PROVE  Reached(k)'
      BY <1>3 DEF Deliveries, Reached, Going, Places
  <2>1. PICK p \in Plugins : p = loadOrder[k] /\ loadOrder'[k] = p
        BY <1>0, <1>3 DEF Typed, Values, Places
  <2>2. Len(calls[p]) = 2
    <3>1. CASE k = i
          BY <1>3, <2>1, <3>1 DEF Readying
    <3>2. CASE k # i
      <4>1. p # loadOrder[i]
            BY <1>0, <2>1, <3>2 DEF Ordering
      <4>2. Going(p)
            BY <1>3, <2>1, <4>1 DEF OnlyAt, Same, Going
      <4>3. Reached(k)
            BY DEF Commanding, Deliveries
      <4>4. /\ Len(calls[p]) = Taken + 1 \/ Len(calls[p]) = Taken + 2
            /\ Len(calls[p]) = Taken + 1 =>
                   \E u \in Threads : \E j \in 1 .. Len(stack[u]) : DispatchTo(u, j, k)
            BY <1>4, <2>1, <4>2, <4>3 DEF Reached, Going
      <4> QED BY <1>4, <4>4 DEF NoDispatch, DispatchTo
    <3> QED BY <3>1, <3>2
  <2>3. Len(calls'[p]) = 2 /\ Taken' = 0 /\ ~loadFinished'
        BY <1>3, <1>4, <1>6, <1>9, <2>2
  <2>4. \A u \in Threads : \A j \in 1 .. Len(stack'[u]) : ~DispatchTo(u, j, k)'
        BY <1>4, <1>5 DEF Steady, NoDispatch, DispatchTo
  <2> QED BY <2>1, <2>3, <2>4 DEF Reached
<1> QED BY <1>9, <1>10, <1>11, <1>12 DEF Commanding


-----------------------------------------------------------------------------
(* The way of a command.                                                   *)

LEMMA Counted ==
    ASSUME Typed
    PROVE  /\ kept \in Nat /\ passed \in Nat /\ Len(pending) \in Nat /\ Taken \in Int
           /\ Numbers => Taken \in 0 .. kept /\ kept <= passed
           /\ \A p \in Plugins : Len(calls[p]) \in Nat /\ calls[p] \in Seq(Given)
           /\ \A t \in Threads : Len(stack[t]) \in Nat
           /\ \A k \in Places : loadOrder[k] \in Plugins
           /\ \A t \in Threads : \A i \in 1 .. Len(stack[t]) :
                  stack[t][i].next \in Nat /\ stack[t][i].command \in Nat
<1>1. kept \in Nat /\ passed \in Nat /\ Len(pending) \in Nat
      BY BoundAssumption DEF Typed, Values
<1>2. Taken \in Int /\ (Numbers => Taken \in 0 .. kept /\ kept <= passed)
      BY <1>1 DEF Taken, Numbers
<1>3. \A p \in Plugins : Len(calls[p]) \in Nat /\ calls[p] \in Seq(Given)
      BY DEF Typed, Values
<1>4. \A t \in Threads : stack[t] \in Seq(Frame)
      BY DEF Typed, Skeleton, Stacks
<1>5. \A k \in Places : loadOrder[k] \in Plugins
      BY DEF Typed, Values, Places
<1>6. \A t \in Threads : \A i \in 1 .. Len(stack[t]) :
          stack[t][i].next \in Nat /\ stack[t][i].command \in Nat
  <2> SUFFICES ASSUME NEW t \in Threads, NEW i \in 1 .. Len(stack[t])
               PROVE  stack[t][i].next \in Nat /\ stack[t][i].command \in Nat
      OBVIOUS
  <2>1. stack[t][i] \in Frame
        BY <1>4
  <2> QED BY <2>1 DEF Frame
<1> QED BY <1>1, <1>2, <1>3, <1>4, <1>5, <1>6

LEMMA KeepCommandCommanding ==
    ASSUME Typed, Commanding, NEW t \in Threads, KeepCommand(t)
    PROVE  Commanding'
<1>0. /\ kept \in Nat /\ passed \in Nat /\ Len(pending) \in Nat /\ Taken \in 0 .. kept
      /\ kept = passed /\ ~loadFinished /\ Len(pending) <= kept
      /\ \A i \in 1 .. Len(pending) : pending[i] = Taken + i
      /\ pending \in Seq(1 .. MaxCommands)
      /\ Taken # 0 => loadStarted /\ NoLoadPass
      BY Counted DEF Commanding, Numbers, KeepCommand, Keeping, Typed, Values
<1>1. /\ UNCHANGED <<loadStarted, loadFinished, shutdownFinished, loadOrder, stack, state, calls>>
      /\ passed' = passed + 1 /\ kept' = passed + 1 /\ pending' = Append(pending, passed + 1)
      BY DEF KeepCommand, flags, resolution, specs
<1>2. /\ Len(pending') = Len(pending) + 1
      /\ \A i \in 1 .. Len(pending) : pending'[i] = pending[i]
      /\ pending'[Len(pending) + 1] = passed + 1
  <2> DEFINE q == Append(pending, passed + 1)
  <2>1. pending \in Seq(Nat) /\ passed + 1 \in Nat
        BY <1>0, BoundAssumption, SeqMonotonic
  <2>2. /\ Len(q) = Len(pending) + 1
        /\ \A i \in 1 .. Len(pending) : q[i] = pending[i]
        /\ q[Len(pending) + 1] = passed + 1
        BY <2>1
  <2> QED BY <1>1, <2>2
<1>3. Taken' = Taken /\ Taken = kept - Len(pending)
      BY <1>0, <1>1, <1>2 DEF Taken
<1>4. \A c : Left(c)' <=> Left(c)
      BY <1>0, <1>1, <1>3 DEF Left
<1>5. NoLoadPass' <=> NoLoadPass
      BY <1>1 DEF NoLoadPass
<1>6. Numbers'
  <2>1. \A i \in 1 .. Len(pending') : pending'[i] = Taken' + i
    <3> TAKE i \in 1 .. Len(pending')
    <3>1. i \in 1 .. Len(pending) \/ i = Len(pending) + 1
          BY <1>0, <1>2
    <3> QED BY <1>0, <1>2, <1>3, <3>1
  <2>2. kept' <= passed' /\ Len(pending') <= kept' /\ ~loadFinished' /\ kept' = passed'
        BY <1>0, <1>1, <1>2
  <2> QED BY <1>0, <1>1, <1>3, <1>5, <2>1, <2>2 DEF Numbers
<1>7. Dispatches'
  <2>1. Dispatches
        BY DEF Commanding
  <2>2. \A p : Handed(p)' = Handed(p)
        BY <1>1 DEF Handed
  <2>3. \A u, j : Dispatching(u, j)' <=> Dispatching(u, j)
        BY <1>1 DEF Dispatching
  <2> QED BY <1>1, <1>3, <1>4, <2>1, <2>2, <2>3 DEF Dispatches, Places, LoaderFrame
<1>8. Histories'
  <2>1. \A p, i : Command(p, i)' <=> Command(p, i)
        BY <1>1 DEF Command
  <2>2. Histories
        BY DEF Commanding
  <2> SUFFICES ASSUME NEW p \in Plugins, NEW i \in 1 .. Len(calls[p]), Command(p, i)
               PROVE  /\ Left(calls[p][i].command)'
                      /\ i <= kept' + 2 => calls'[p][i].command = i - 2
                      /\ ~loadFinished' => i <= Taken' + 2
                      /\ \A j \in 1 .. Len(calls'[p]) :
                             Command(p, j)' /\ calls'[p][j].command = calls'[p][i].command => j = i
      BY <1>1, <2>1 DEF Histories
  <2>3. /\ Left(calls[p][i].command) /\ i <= Taken + 2
        /\ i <= kept + 2 => calls[p][i].command = i - 2
        /\ \A j \in 1 .. Len(calls[p]) :
               Command(p, j) /\ calls[p][j].command = calls[p][i].command => j = i
        BY <1>0, <2>2 DEF Histories
  <2>4. Left(calls[p][i].command)'
        BY <1>1, <1>4, <2>3
  <2> QED BY <1>0, <1>1, <1>3, <2>1, <2>3, <2>4
<1>9. Deliveries'
  <2>1. Deliveries
        BY DEF Commanding
  <2>2. \A u, j, k : DispatchTo(u, j, k)' <=> DispatchTo(u, j, k)
        BY <1>1 DEF DispatchTo, Dispatching
  <2>3. \A p, i : Command(p, i)' <=> Command(p, i)
        BY <1>1 DEF Command
  <2> SUFFICES ASSUME NEW k \in Places PROVE Reached(k)'
      BY <1>1 DEF Deliveries, Places
  <2>4. Reached(k)
        BY <2>1 DEF Deliveries
  <2> QED BY <1>0, <1>1, <1>3, <2>2, <2>3, <2>4 DEF Reached
<1> QED BY <1>6, <1>7, <1>8, <1>9 DEF Commanding


\* A dispatch comes on top of thread t.
LEMMA PushDispatch ==
    ASSUME stack \in Stacks, NEW t \in Threads, NEW c \in Nat, Push(t, DispatchFrame(c))
    PROVE  /\ \A u \in Threads : \A j \in Nat :
                  /\ Dispatching(u, j)' <=> Dispatching(u, j) \/ (u = t /\ j = Len(stack[t]) + 1)
                  /\ Dispatching(u, j) =>
                         /\ stack'[u][j] = stack[u][j]
                         /\ j > 1 => stack'[u][j - 1] = stack[u][j - 1]
           /\ stack'[t][Len(stack[t]) + 1].command = c /\ stack'[t][Len(stack[t]) + 1].next = 1
           /\ stack[t] # <<>> => stack'[t][Len(stack[t])] = Top(t)
           /\ NoLoadPass => NoLoadPass'
           /\ Len(stack'[t]) = Len(stack[t]) + 1
<1> DEFINE f == DispatchFrame(c)
<1>1. /\ f \in Frame /\ f.call = "dispatch" /\ f.command = c /\ f.next = 1 /\ ~LoadPass(f)
      /\ Push(t, f)
      BY DEF Frame, DispatchFrame, LoadPass, LoaderFrame
<1> HIDE DEF f
<1>2. /\ stack' \in Stacks
      /\ Len(stack'[t]) = Len(stack[t]) + 1
      /\ \A i \in 1 .. Len(stack[t]) : stack'[t][i] = stack[t][i]
      /\ stack'[t][Len(stack[t]) + 1] = f
      /\ \A u \in Threads \ {t} : stack'[u] = stack[u]
      BY <1>1, PushStack
<1>3. Len(stack[t]) \in Nat
      BY DEF Stacks
<1>4. ASSUME NEW u \in Threads, NEW j \in Nat
      PROVE  /\ Dispatching(u, j)' <=> Dispatching(u, j) \/ (u = t /\ j = Len(stack[t]) + 1)
             /\ Dispatching(u, j) =>
                    /\ stack'[u][j] = stack[u][j]
                    /\ j > 1 => stack'[u][j - 1] = stack[u][j - 1]
  <2>1. CASE u # t
        BY <1>2, <2>1 DEF Dispatching
  <2>2. CASE u = t /\ j = Len(stack[t]) + 1
        BY <1>1, <1>2, <1>3, <2>2 DEF Dispatching
  <2>3. CASE u = t /\ j # Len(stack[t]) + 1
        BY <1>2, <1>3, <2>3 DEF Dispatching
  <2> QED BY <2>1, <2>2, <2>3
<1>5. NoLoadPass => NoLoadPass'
      BY <1>1, <1>2, <1>3 DEF NoLoadPass
<1>6. stack[t] # <<>> => stack'[t][Len(stack[t])] = Top(t)
      BY <1>2, <1>3, TopFrame
<1> QED BY <1>1, <1>2, <1>4, <1>5, <1>6

LEMMA PassCommandCommanding ==
    ASSUME Typed, Typed', Commanding, NEW t \in Threads, PassCommand(t)
    PROVE  Commanding'
<1> DEFINE n == Len(stack[t])
<1>0. /\ kept \in Nat /\ passed \in Nat /\ loadFinished /\ pending = <<>> /\ kept <= passed
      /\ Taken = kept /\ stack \in Stacks
  <2>1. kept \in Nat /\ passed \in Nat /\ loadFinished /\ pending = <<>> /\ kept <= passed
        BY Counted DEF Commanding, Numbers, PassCommand, Keeping
  <2>2. Len(pending) = 0
        BY <2>1
  <2> QED BY <2>1, <2>2 DEF Taken, Typed, Skeleton
<1> PICK c \in Nat : c = passed + 1
    BY <1>0
<1>1. /\ UNCHANGED <<loadStarted, loadFinished, shutdownFinished, loadOrder, state, calls>>
      /\ UNCHANGED <<pending, kept>> /\ passed' = passed + 1 /\ Push(t, DispatchFrame(c))
      BY DEF PassCommand, flags, resolution, specs
<1>2. n \in Nat /\ n + 1 \in Nat
      BY <1>0 DEF Stacks
<1>3. /\ \A u \in Threads : \A j \in Nat :
             /\ Dispatching(u, j)' <=> Dispatching(u, j) \/ (u = t /\ j = n + 1)
             /\ Dispatching(u, j) =>
                    /\ stack'[u][j] = stack[u][j]
                    /\ j > 1 => stack'[u][j - 1] = stack[u][j - 1]
      /\ stack'[t][n + 1].command = c /\ stack'[t][n + 1].next = 1
      /\ stack[t] # <<>> => stack'[t][n] = Top(t)
      /\ NoLoadPass => NoLoadPass'
      /\ Len(stack'[t]) = n + 1
      BY <1>0, <1>1, PushDispatch
<1>4. Taken' = Taken
      BY <1>1 DEF Taken
<1>5. Left(c)' /\ ~Left(c) /\ \A d : Left(d) => Left(d)'
      BY <1>0, <1>1, <1>4 DEF Left
<1>6. Numbers'
  <2>1. NoLoadPass /\ loadStarted
        BY <1>0 DEF Typed, Skeleton, Discipline, FramesOK, FlagsOK, LoadPass, NoLoadPass
  <2> QED BY <1>0, <1>1, <1>3, <1>4, <2>1 DEF Numbers, Commanding
<1>7. /\ \A p : Handed(p)' = Handed(p)
      /\ Places' = Places /\ \A k \in Places : Handed(loadOrder[k])' = Handed(loadOrder[k])
      BY <1>1 DEF Handed, Places
<1>8. \A k \in Places : c \notin Handed(loadOrder[k])
  <2> TAKE k \in Places
  <2>1. loadOrder[k] \in Plugins
        BY Counted
  <2>2. \A d \in Handed(loadOrder[k]) : Left(d)
        BY <2>1, TypedHanded DEF HandedCommands, Command, Commanding, Histories
  <2> QED BY <1>5, <2>2
<1>9. Dispatches'
  <2> SUFFICES ASSUME NEW u \in Threads, NEW i \in 1 .. Len(stack'[u]), Dispatching(u, i)'
               PROVE  /\ Left(stack[u][i].command)' /\ stack'[u][i].next >= 1
                      /\ ~loadFinished' =>
                             i > 1 /\ LoaderFrame(stack[u][i - 1])' /\ stack'[u][i].command = Taken'
                      /\ \A v \in Threads : \A j \in 1 .. Len(stack'[v]) :
                             Dispatching(v, j)' /\ stack'[v][j].command = stack'[u][i].command
                                 => v = u /\ j = i
                      /\ \A k \in Places' : k >= stack'[u][i].next =>
                             stack'[u][i].command \notin Handed(loadOrder[k])'
      BY DEF Dispatches
  <2>1. ASSUME NEW v \in Threads, NEW j \in 1 .. Len(stack'[v]), Dispatching(v, j)'
        PROVE  \/ /\ j \in 1 .. Len(stack[v]) /\ Dispatching(v, j) /\ stack'[v][j] = stack[v][j]
                  /\ Left(stack[v][j].command) /\ stack[v][j].command # c
               \/ v = t /\ j = n + 1 /\ stack'[v][j].command = c /\ stack'[v][j].next = 1
    <3>1. CASE Dispatching(v, j)
      <4>1. j \in 1 .. Len(stack[v])
            BY <3>1 DEF Dispatching
      <4>2. Left(stack[v][j].command)
            BY <3>1, <4>1 DEF Commanding, Dispatches
      <4> QED BY <1>3, <1>5, <3>1, <4>1, <4>2
    <3>2. CASE ~Dispatching(v, j)
          BY <1>3, <2>1, <3>2
    <3> QED BY <3>1, <3>2
  <2>2. CASE Dispatching(u, i)
    <3>1. /\ i \in 1 .. Len(stack[u]) /\ stack'[u][i] = stack[u][i]
          /\ Left(stack[u][i].command) /\ stack[u][i].command # c
      <4>1. i \in 1 .. Len(stack[u])
            BY <2>2 DEF Dispatching
      <4>2. Left(stack[u][i].command)
            BY <2>2, <4>1 DEF Commanding, Dispatches
      <4> QED BY <1>3, <1>5, <2>2, <4>1, <4>2
    <3>2. /\ stack[u][i].next >= 1
          /\ \A v \in Threads : \A j \in 1 .. Len(stack[v]) :
                 Dispatching(v, j) /\ stack[v][j].command = stack[u][i].command => v = u /\ j = i
          /\ \A k \in Places : k >= stack[u][i].next =>
                 stack[u][i].command \notin Handed(loadOrder[k])
          BY <2>2, <3>1 DEF Commanding, Dispatches
    <3>3. \A v \in Threads : \A j \in 1 .. Len(stack'[v]) :
              Dispatching(v, j)' /\ stack'[v][j].command = stack'[u][i].command => v = u /\ j = i
          BY <2>1, <3>1, <3>2
    <3>4. \A k \in Places' : k >= stack'[u][i].next =>
              stack'[u][i].command \notin Handed(loadOrder[k])'
          BY <1>7, <3>1, <3>2
    <3>5. Left(stack[u][i].command)'
          BY <1>5, <3>1
    <3> QED BY <1>0, <1>1, <3>1, <3>2, <3>3, <3>4, <3>5
  <2>3. CASE ~Dispatching(u, i)
    <3>1. u = t /\ i = n + 1 /\ stack'[u][i].command = c /\ stack'[u][i].next = 1
          BY <2>1, <2>3
    <3>2. \A v \in Threads : \A j \in 1 .. Len(stack'[v]) :
              Dispatching(v, j)' /\ stack'[v][j].command = stack'[u][i].command => v = u /\ j = i
          BY <2>1, <3>1
    <3>3. \A k \in Places' : stack'[u][i].command \notin Handed(loadOrder[k])'
          BY <1>7, <1>8, <3>1
    <3>4. Left(stack[u][i].command)'
          BY <1>5, <3>1
    <3> QED BY <1>0, <1>1, <3>1, <3>2, <3>3, <3>4
  <2> QED BY <2>2, <2>3
<1>10. Histories'
  <2>1. \A p, i : Command(p, i)' <=> Command(p, i)
        BY <1>1 DEF Command
  <2> SUFFICES ASSUME NEW p \in Plugins, NEW i \in 1 .. Len(calls[p]), Command(p, i)
               PROVE  /\ Left(calls[p][i].command)'
                      /\ i <= kept' + 2 => calls'[p][i].command = i - 2
                      /\ ~loadFinished' => i <= Taken' + 2
                      /\ \A j \in 1 .. Len(calls'[p]) :
                             Command(p, j)' /\ calls'[p][j].command = calls'[p][i].command => j = i
      BY <1>1, <2>1 DEF Histories
  <2>2. /\ Left(calls[p][i].command)
        /\ i <= kept + 2 => calls[p][i].command = i - 2
        /\ \A j \in 1 .. Len(calls[p]) :
               Command(p, j) /\ calls[p][j].command = calls[p][i].command => j = i
        BY DEF Commanding, Histories
  <2>3. Left(calls[p][i].command)'
        BY <1>1, <1>5, <2>2
  <2> QED BY <1>0, <1>1, <2>1, <2>2, <2>3
<1>11. Deliveries'
  <2> SUFFICES ASSUME NEW k \in Places, Going(loadOrder[k])
               PROVE  Reached(k)'
      BY <1>1 DEF Deliveries, Reached, Places, Going
  <2>1. PICK p \in Plugins : p = loadOrder[k] /\ loadOrder'[k] = p
        BY <1>1, Counted
  <2>2. /\ \A i \in 3 .. Len(calls[p]) : Command(p, i)
        /\ Len(calls[p]) >= kept + 2
        /\ \A d \in 1 .. passed :
               d \in Handed(p)
               \/ \E u \in Threads : \E i \in 1 .. Len(stack[u]) :
                      DispatchTo(u, i, k) /\ stack[u][i].command = d
        BY <1>0, <2>1 DEF Commanding, Deliveries, Reached, Going
  <2>3. \A d \in 1 .. passed' :
            d \in Handed(p)'
            \/ \E u \in Threads : \E i \in 1 .. Len(stack'[u]) :
                   DispatchTo(u, i, k)' /\ stack'[u][i].command = d
    <3> SUFFICES ASSUME NEW d \in 1 .. passed', d \notin Handed(p)
                 PROVE  \E u \in Threads : \E i \in 1 .. Len(stack'[u]) :
                            DispatchTo(u, i, k)' /\ stack'[u][i].command = d
        BY <1>7
    <3>1. CASE d = c
      <4>1. PICK m \in 1 .. Len(stack'[t]) : m = n + 1
            BY <1>2, <1>3
      <4>2. Dispatching(t, m)' /\ stack'[t][m].command = c /\ stack'[t][m].next = 1
            BY <1>3, <4>1
      <4>3. DispatchTo(t, m, k)'
            BY <4>2 DEF DispatchTo, Places
      <4> QED BY <3>1, <4>2, <4>3
    <3>2. CASE d # c
      <4>1. d \in 1 .. passed
            BY <1>0, <1>1, <3>2
      <4>2. PICK u \in Threads : \E i \in 1 .. Len(stack[u]) :
                DispatchTo(u, i, k) /\ stack[u][i].command = d
            BY <2>2, <4>1
      <4>3. PICK i \in 1 .. Len(stack[u]) : DispatchTo(u, i, k) /\ stack[u][i].command = d
            BY <4>2
      <4>4. Dispatching(u, i)' /\ stack'[u][i] = stack[u][i]
            BY <1>3, <4>3 DEF DispatchTo
      <4> QED BY <4>3, <4>4 DEF DispatchTo, Dispatching
    <3> QED BY <3>1, <3>2
  <2>4. \A i : Command(p, i)' <=> Command(p, i)
        BY <1>1 DEF Command
  <2>5. /\ \A i \in 3 .. Len(calls'[p]) : Command(p, i)'
        /\ Len(calls'[p]) >= kept' + 2 /\ loadFinished'
        BY <1>0, <1>1, <2>2, <2>4
  <2>6. Handed(loadOrder[k])' = Handed(p)' /\ \A i : Command(loadOrder[k], i)' <=> Command(p, i)'
        BY <2>1 DEF Handed, Command
  <2> QED BY <2>1, <2>3, <2>5, <2>6 DEF Reached
<1> QED BY <1>6, <1>9, <1>10, <1>11 DEF Commanding


\* At the queue, between two commands.
LEMMA AtQueue ==
    ASSUME Typed, Commanding, NEW t \in Threads, At(t, "loadPlugins", "pending")
    PROVE  NoDispatch /\ ~loadFinished /\ loadStarted /\ NoLoadPass
<1> DEFINE n == Len(stack[t])
<1>0. /\ n \in 1 .. n /\ n \in Nat /\ stack[t][n].call = "loadPlugins" /\ stack[t][n].at = "pending"
  <2>1. stack[t] # <<>> /\ Top(t).call = "loadPlugins" /\ Top(t).at = "pending" /\ stack \in Stacks
        BY DEF At, Typed, Skeleton
  <2> QED BY <2>1, TopFrame
<1>1. LoaderFrame(stack[t][n]) /\ ~LoadPass(stack[t][n])
      BY <1>0 DEF LoaderFrame, LoadPass
<1>2. ~loadFinished /\ loadStarted
      BY <1>0, <1>1 DEF Typed, Skeleton, Discipline, FramesOK
<1>3. NoLoadPass
      BY <1>0, <1>1 DEF Typed, Skeleton, Discipline, Exclusive, NoLoadPass, LoadPass
<1>4. NoDispatch
  <2> SUFFICES ASSUME NEW u \in Threads, NEW j \in 1 .. Len(stack[u]), Dispatching(u, j)
               PROVE  FALSE
      BY DEF NoDispatch, Dispatching
  <2>1. j > 1 /\ LoaderFrame(stack[u][j - 1])
        BY <1>2 DEF Commanding, Dispatches
  <2>2. j - 1 \in 1 .. Len(stack[u]) /\ Len(stack[u]) \in Nat
        BY <2>1, Counted
  <2>3. u = t /\ j - 1 = n
        BY <1>0, <1>1, <2>1, <2>2 DEF Typed, Skeleton, Discipline, Exclusive
  <2> QED BY <1>0, <2>2, <2>3
<1> QED BY <1>2, <1>3, <1>4

\* No dispatch, so every command taken has been given to all it is to be given to.
LEMMA AllServed ==
    ASSUME Typed, Commanding, NoDispatch, ~loadFinished, NEW k \in Places, Going(loadOrder[k])
    PROVE  /\ Len(calls[loadOrder[k]]) = Taken + 2
           /\ \A i \in 3 .. Len(calls[loadOrder[k]]) : Command(loadOrder[k], i)
<1>1. Reached(k)
      BY DEF Commanding, Deliveries
<1>2. \A u \in Threads : \A j \in 1 .. Len(stack[u]) : ~DispatchTo(u, j, k)
      BY Counted DEF NoDispatch, DispatchTo
<1> QED BY <1>1, <1>2 DEF Reached, Going

LEMMA TakePendingCommanding ==
    ASSUME Typed, Typed', Commanding, NEW t \in Threads, TakePending(t)
    PROVE  Commanding'
<1> DEFINE n == Len(stack[t])
<1>0. /\ At(t, "loadPlugins", "pending") /\ stack \in Stacks /\ stack[t] # <<>> /\ Numbers
      /\ pending # <<>> /\ pending \in Seq(1 .. MaxCommands)
      BY DEF TakePending, Typed, Skeleton, Values, At, Commanding
<1>1. NoDispatch /\ ~loadFinished /\ loadStarted /\ NoLoadPass
      BY <1>0, AtQueue
<1> PICK c \in Nat : c = Taken + 1
    BY Counted, <1>0
<1>2. /\ kept \in Nat /\ passed \in Nat /\ kept = passed /\ Taken \in 0 .. kept
      /\ Len(pending) \in Nat \ {0} /\ Taken = kept - Len(pending)
      /\ Head(pending) = c /\ c \in 1 .. kept
  <2>1. Len(pending) \in Nat \ {0} /\ Head(pending) = pending[1]
        BY <1>0
  <2>2. kept \in Nat /\ passed \in Nat /\ kept = passed /\ Taken \in 0 .. kept
        BY <1>0, <1>1, Counted DEF Numbers
  <2>3. pending[1] = Taken + 1 /\ Taken = kept - Len(pending)
        BY <1>0, <2>1 DEF Numbers, Taken
  <2> QED BY <2>1, <2>2, <2>3
<1>3. /\ UNCHANGED <<loadStarted, loadFinished, shutdownFinished, loadOrder, state, calls>>
      /\ UNCHANGED <<passed, kept>> /\ pending' = Tail(pending) /\ Push(t, DispatchFrame(c))
      BY <1>2 DEF TakePending, NextKept, flags, resolution, specs
<1>4. /\ Len(pending') = Len(pending) - 1
      /\ \A i \in 1 .. Len(pending') : pending'[i] = pending[i + 1]
      BY <1>0, <1>2, <1>3
<1>5. Taken' = c
      BY <1>2, <1>3, <1>4 DEF Taken
<1>6. /\ \A u \in Threads : \A j \in Nat : Dispatching(u, j)' <=> u = t /\ j = n + 1
      /\ stack'[t][n + 1].command = c /\ stack'[t][n + 1].next = 1
      /\ stack'[t][n] = Top(t)
      /\ NoLoadPass'
      /\ Len(stack'[t]) = n + 1 /\ n \in Nat \ {0}
  <2>1. /\ \A u \in Threads : \A j \in Nat :
               /\ Dispatching(u, j)' <=> Dispatching(u, j) \/ (u = t /\ j = n + 1)
               /\ Dispatching(u, j) =>
                      /\ stack'[u][j] = stack[u][j]
                      /\ j > 1 => stack'[u][j - 1] = stack[u][j - 1]
        /\ stack'[t][n + 1].command = c /\ stack'[t][n + 1].next = 1
        /\ stack[t] # <<>> => stack'[t][n] = Top(t)
        /\ NoLoadPass => NoLoadPass'
        /\ Len(stack'[t]) = n + 1
        BY <1>0, <1>3, PushDispatch
  <2>2. n \in Nat \ {0}
        BY <1>0, TopFrame
  <2> QED BY <1>0, <1>1, <2>1, <2>2 DEF NoDispatch
<1>7. Left(c)' /\ ~Left(c) /\ \A d : Left(d) => Left(d)'
      BY <1>2, <1>3, <1>5 DEF Left
<1>8. Numbers'
  <2>1. \A i \in 1 .. Len(pending') : pending'[i] = Taken' + i
    <3> TAKE i \in 1 .. Len(pending')
    <3>1. i + 1 \in 1 .. Len(pending) /\ i \in Nat
          BY <1>2, <1>4
    <3>2. pending[i + 1] = Taken + (i + 1)
          BY <1>0, <3>1 DEF Numbers
    <3>3. pending'[i] = pending[i + 1] /\ Taken \in Int
          BY <1>2, <1>4
    <3> QED BY <1>5, <3>1, <3>2, <3>3
  <2>2. kept' <= passed' /\ Len(pending') <= kept'
        BY <1>2, <1>3, <1>4
  <2>3. ~loadFinished' /\ kept' = passed' /\ loadStarted' /\ NoLoadPass'
        BY <1>1, <1>2, <1>3, <1>6
  <2> QED BY <2>1, <2>2, <2>3 DEF Numbers
<1>9. /\ \A p : Handed(p)' = Handed(p)
      /\ Places' = Places /\ \A k \in Places : Handed(loadOrder[k])' = Handed(loadOrder[k])
      BY <1>3 DEF Handed, Places
<1>10. \A k \in Places : c \notin Handed(loadOrder[k])
  <2> TAKE k \in Places
  <2>1. loadOrder[k] \in Plugins
        BY Counted
  <2>2. \A d \in Handed(loadOrder[k]) : Left(d)
        BY <2>1, TypedHanded DEF HandedCommands, Command, Commanding, Histories
  <2> QED BY <1>7, <2>2
<1>11. Dispatches'
  <2> SUFFICES ASSUME NEW u \in Threads, NEW i \in 1 .. Len(stack'[u]), Dispatching(u, i)'
               PROVE  /\ Left(stack[u][i].command)' /\ stack'[u][i].next >= 1
                      /\ ~loadFinished' =>
                             i > 1 /\ LoaderFrame(stack[u][i - 1])' /\ stack'[u][i].command = Taken'
                      /\ \A v \in Threads : \A j \in 1 .. Len(stack'[v]) :
                             Dispatching(v, j)' /\ stack'[v][j].command = stack'[u][i].command
                                 => v = u /\ j = i
                      /\ \A k \in Places' : k >= stack'[u][i].next =>
                             stack'[u][i].command \notin Handed(loadOrder[k])'
      BY DEF Dispatches
  <2>1. \A v \in Threads : \A j \in 1 .. Len(stack'[v]) : Dispatching(v, j)' => v = t /\ j = n + 1
        BY <1>6
  <2>2. u = t /\ i = n + 1
        BY <2>1
  <2>3. stack'[u][i].command = c /\ stack'[u][i].next = 1
        BY <1>6, <2>2
  <2>4. Left(stack[u][i].command)'
        BY <1>7, <2>3
  <2>5. i > 1 /\ LoaderFrame(stack[u][i - 1])'
    <3>1. i - 1 = n /\ i > 1
          BY <1>6, <2>2
    <3>2. stack'[u][i - 1].call = "loadPlugins" /\ stack'[u][i - 1].at = "pending"
          BY <1>0, <1>6, <2>2, <3>1 DEF At
    <3> QED BY <3>1, <3>2 DEF LoaderFrame
  <2>6. \A k \in Places' : stack'[u][i].command \notin Handed(loadOrder[k])'
        BY <1>9, <1>10, <2>3
  <2> QED BY <1>5, <2>1, <2>2, <2>3, <2>4, <2>5, <2>6
<1>12. Histories'
  <2>1. \A p, i : Command(p, i)' <=> Command(p, i)
        BY <1>3 DEF Command
  <2> SUFFICES ASSUME NEW p \in Plugins, NEW i \in 1 .. Len(calls[p]), Command(p, i)
               PROVE  /\ Left(calls[p][i].command)'
                      /\ i <= kept' + 2 => calls'[p][i].command = i - 2
                      /\ ~loadFinished' => i <= Taken' + 2
                      /\ \A j \in 1 .. Len(calls'[p]) :
                             Command(p, j)' /\ calls'[p][j].command = calls'[p][i].command => j = i
      BY <1>3, <2>1 DEF Histories
  <2>2. /\ Left(calls[p][i].command) /\ i <= Taken + 2
        /\ i <= kept + 2 => calls[p][i].command = i - 2
        /\ \A j \in 1 .. Len(calls[p]) :
               Command(p, j) /\ calls[p][j].command = calls[p][i].command => j = i
        BY <1>1 DEF Commanding, Histories
  <2>3. Left(calls[p][i].command)'
        BY <1>3, <1>7, <2>2
  <2> QED BY <1>2, <1>3, <1>5, <2>1, <2>2, <2>3
<1>13. Deliveries'
  <2> SUFFICES ASSUME NEW k \in Places, Going(loadOrder[k])
               PROVE  Reached(k)'
      BY <1>3 DEF Deliveries, Reached, Places, Going
  <2>1. PICK p \in Plugins : p = loadOrder[k] /\ loadOrder'[k] = p
        BY <1>3, Counted
  <2>2. Len(calls[p]) = Taken + 2 /\ \A i \in 3 .. Len(calls[p]) : Command(p, i)
        BY <1>1, <2>1, AllServed
  <2>3. \A i : Command(p, i)' <=> Command(p, i)
        BY <1>3 DEF Command
  <2>4. Len(calls'[p]) = Taken' + 1 /\ \A i \in 3 .. Len(calls'[p]) : Command(p, i)'
    <3>1. calls'[p] = calls[p] /\ Taken \in Nat
          BY <1>2, <1>3
    <3>2. Len(calls'[p]) = Taken' + 1
          BY <1>5, <2>2, <3>1
    <3> QED BY <2>2, <2>3, <3>1, <3>2
  <2>5. PICK m \in 1 .. Len(stack'[t]) : m = n + 1
        BY <1>6
  <2>6. Dispatching(t, m)' /\ stack'[t][m].next = 1
        BY <1>6, <2>5
  <2>7. DispatchTo(t, m, k)'
        BY <2>6 DEF DispatchTo, Places
  <2>8. \A i : Command(loadOrder[k], i)' <=> Command(p, i)'
        BY <2>1 DEF Command
  <2> QED BY <1>1, <1>3, <2>1, <2>4, <2>5, <2>7, <2>8 DEF Reached
<1> QED BY <1>8, <1>11, <1>12, <1>13 DEF Commanding

LEMMA LoadReturnCommanding ==
    ASSUME Typed, Typed', Commanding, NEW t \in Threads, LoadReturn(t)
    PROVE  Commanding'
<1>0. /\ At(t, "loadPlugins", "pending") /\ stack \in Stacks /\ stack[t] # <<>> /\ Numbers
      /\ pending = <<>> /\ Return(t) /\ Top(t).call # "dispatch" /\ loadFinished'
      BY DEF LoadReturn, Typed, Skeleton, At, Commanding
<1>1. NoDispatch /\ ~loadFinished /\ loadStarted /\ NoLoadPass
      BY <1>0, AtQueue
<1>2. /\ kept \in Nat /\ kept = passed /\ Taken = kept
  <2>1. Len(pending) = 0
        BY <1>0
  <2> QED BY <1>0, <1>1, <2>1, Counted DEF Numbers, Taken
<1>3. UNCHANGED <<loadStarted, shutdownFinished, loadOrder, state, calls, passed, kept, pending>>
      BY DEF LoadReturn, resolution, specs, commands
<1>4. Steady
      BY <1>0, ReturnSteady
<1>5. NoDispatch' /\ NoLoadPass'
      BY <1>1, <1>4 DEF Steady, NoDispatch
<1>6. Taken' = Taken /\ \A c : Left(c)' <=> Left(c)
      BY <1>3 DEF Left, Taken
<1>7. Numbers'
      BY <1>0, <1>1, <1>3, <1>5, <1>6 DEF Numbers
<1>8. Dispatches'
  <2>1. \A u \in Threads : \A j \in 1 .. Len(stack'[u]) : ~Dispatching(u, j)'
        BY <1>5 DEF NoDispatch
  <2> QED BY <2>1 DEF Dispatches
<1>9. Histories'
  <2>1. \A p, i : Command(p, i)' <=> Command(p, i)
        BY <1>3 DEF Command
  <2>2. Histories
        BY DEF Commanding
  <2> QED BY <1>0, <1>3, <1>6, <2>1, <2>2 DEF Histories
<1>10. Deliveries'
  <2> SUFFICES ASSUME NEW k \in Places, Going(loadOrder[k])
               PROVE  Reached(k)'
      BY <1>3 DEF Deliveries, Reached, Places, Going
  <2>1. PICK p \in Plugins : p = loadOrder[k] /\ loadOrder'[k] = p
        BY <1>3, Counted
  <2>2. Len(calls[p]) = kept + 2 /\ \A i \in 3 .. Len(calls[p]) : Command(p, i)
        BY <1>1, <1>2, <2>1, AllServed
  <2>3. ASSUME NEW c \in 1 .. kept PROVE c \in Handed(p)
    <3>1. c + 2 \in 1 .. Len(calls[p]) /\ Command(p, c + 2) /\ c + 2 \in Nat
          BY <1>2, <2>2
    <3>2. calls[p][c + 2].command = c
          BY <1>2, <3>1 DEF Commanding, Histories
    <3> QED BY <3>1, <3>2, TypedHanded DEF HandedCommands
  <2>4. \A i : Command(loadOrder[k], i)' <=> Command(p, i)
        BY <1>3, <2>1 DEF Command
  <2>5. Handed(loadOrder[k])' = Handed(p)
        BY <1>3, <2>1 DEF Handed
  <2> QED BY <1>0, <1>2, <1>3, <2>1, <2>2, <2>3, <2>4, <2>5 DEF Reached
<1> QED BY <1>7, <1>8, <1>9, <1>10 DEF Commanding


\* A run of dispatchRemoteCommand ends: it has been to every plugin, or no plugin
\* is given commands any more.
LEMMA DispatchReturnCommanding ==
    ASSUME Typed, Typed', Commanding, NEW t \in Threads, DispatchReturn(t)
    PROVE  Commanding'
<1> DEFINE n == Len(stack[t])
<1>0. /\ stack \in Stacks /\ stack[t] # <<>> /\ Return(t) /\ Top(t).call = "dispatch"
      /\ loadOrder \in Seq(Plugins) /\ DispatchOver(t)
      BY DEF DispatchReturn, Typed, Skeleton, Values, At
<1>1. UNCHANGED <<loadStarted, loadFinished, shutdownFinished, loadOrder, state, calls,
                  passed, kept, pending>>
      BY DEF DispatchReturn, flags, resolution, specs, commands
<1>2. n \in Nat \ {0} /\ Top(t) = stack[t][n] /\ Top(t).next \in Nat
      BY <1>0, TopFrame DEF Frame
<1>3. /\ stack' \in Stacks
      /\ n \in Nat \ {0}
      /\ Len(stack'[t]) = n - 1
      /\ \A i \in 1 .. n - 1 : stack'[t][i] = stack[t][i]
      /\ \A u \in Threads \ {t} : stack'[u] = stack[u]
      BY <1>0, ReturnStack
<1>4. ASSUME NEW u \in Threads, NEW j \in Nat
      PROVE  /\ Dispatching(u, j)' <=> Dispatching(u, j) /\ ~(u = t /\ j = n)
             /\ Dispatching(u, j)' =>
                    /\ stack'[u][j] = stack[u][j]
                    /\ j > 1 => stack'[u][j - 1] = stack[u][j - 1]
  <2>1. CASE u # t
        BY <1>3, <2>1 DEF Dispatching
  <2>2. CASE u = t
        BY <1>3, <2>2 DEF Dispatching
  <2> QED BY <2>1, <2>2
<1>5. NoLoadPass => NoLoadPass'
      BY <1>3 DEF NoLoadPass
<1>6. Taken' = Taken /\ \A c : Left(c)' <=> Left(c)
      BY <1>1 DEF Left, Taken
<1>7. Numbers'
      BY <1>1, <1>5, <1>6 DEF Numbers, Commanding
<1>8. /\ \A p : Handed(p)' = Handed(p)
      /\ Places' = Places /\ \A k \in Places : Handed(loadOrder[k])' = Handed(loadOrder[k])
      BY <1>1 DEF Handed, Places
<1>9. Dispatches'
  <2> SUFFICES ASSUME NEW u \in Threads, NEW i \in 1 .. Len(stack'[u]), Dispatching(u, i)'
               PROVE  /\ Left(stack[u][i].command)' /\ stack'[u][i].next >= 1
                      /\ ~loadFinished' =>
                             i > 1 /\ LoaderFrame(stack[u][i - 1])' /\ stack'[u][i].command = Taken'
                      /\ \A v \in Threads : \A j \in 1 .. Len(stack'[v]) :
                             Dispatching(v, j)' /\ stack'[v][j].command = stack'[u][i].command
                                 => v = u /\ j = i
                      /\ \A k \in Places' : k >= stack'[u][i].next =>
                             stack'[u][i].command \notin Handed(loadOrder[k])'
      BY DEF Dispatches
  <2>1. \A v \in Threads : \A j \in 1 .. Len(stack'[v]) : Dispatching(v, j)' =>
            j \in 1 .. Len(stack[v]) /\ Dispatching(v, j) /\ stack'[v][j] = stack[v][j]
        BY <1>4 DEF Dispatching
  <2>2. /\ i \in 1 .. Len(stack[u]) /\ Dispatching(u, i) /\ stack'[u][i] = stack[u][i]
        /\ i > 1 => stack'[u][i - 1] = stack[u][i - 1]
        BY <1>4, <2>1
  <2>3. /\ Left(stack[u][i].command) /\ stack[u][i].next >= 1
        /\ ~loadFinished =>
               i > 1 /\ LoaderFrame(stack[u][i - 1]) /\ stack[u][i].command = Taken
        /\ \A v \in Threads : \A j \in 1 .. Len(stack[v]) :
               Dispatching(v, j) /\ stack[v][j].command = stack[u][i].command => v = u /\ j = i
        /\ \A k \in Places : k >= stack[u][i].next =>
               stack[u][i].command \notin Handed(loadOrder[k])
        BY <2>2 DEF Commanding, Dispatches
  <2>4. Left(stack[u][i].command)'
        BY <1>6, <2>2, <2>3
  <2>5. ~loadFinished' =>
            i > 1 /\ LoaderFrame(stack[u][i - 1])' /\ stack'[u][i].command = Taken'
        BY <1>1, <1>6, <2>2, <2>3 DEF LoaderFrame
  <2>6. \A v \in Threads : \A j \in 1 .. Len(stack'[v]) :
            Dispatching(v, j)' /\ stack'[v][j].command = stack'[u][i].command => v = u /\ j = i
        BY <2>1, <2>2, <2>3
  <2>7. \A k \in Places' : k >= stack'[u][i].next =>
            stack'[u][i].command \notin Handed(loadOrder[k])'
        BY <1>8, <2>2, <2>3
  <2> QED BY <2>2, <2>3, <2>4, <2>5, <2>6, <2>7
<1>10. Histories'
  <2>1. \A p, i : Command(p, i)' <=> Command(p, i)
        BY <1>1 DEF Command
  <2>2. Histories
        BY DEF Commanding
  <2> QED BY <1>1, <1>6, <2>1, <2>2 DEF Histories
<1>11. Deliveries'
  <2> SUFFICES ASSUME NEW k \in Places, Going(loadOrder[k])
               PROVE  Reached(k)'
      BY <1>1 DEF Deliveries, Reached, Places, Going
  <2>0. Top(t).next > Len(loadOrder)
    <3>1. ~InOrder(t)
          BY <1>0 DEF DispatchOver, Going
    <3>2. Top(t).next >= 1
          BY <1>0, <1>2 DEF Commanding, Dispatches, Dispatching
    <3> QED BY <1>0, <1>2, <3>1, <3>2 DEF InOrder
  <2>1. \A u \in Threads : \A j \in Nat :
            /\ DispatchTo(u, j, k)' <=> DispatchTo(u, j, k)
            /\ DispatchTo(u, j, k)' => stack'[u][j] = stack[u][j] /\ j \in 1 .. Len(stack[u])
                                       /\ j \in 1 .. Len(stack'[u])
    <3> TAKE u \in Threads, j \in Nat
    <3>1. ~DispatchTo(t, n, k) /\ (Dispatching(u, j) => j \in 1 .. Len(stack[u]))
          BY <1>0, <1>2, <2>0 DEF DispatchTo, Places, Dispatching
    <3>2. Dispatching(u, j)' => j \in 1 .. Len(stack'[u])
          BY DEF Dispatching
    <3> QED BY <1>4, <3>1, <3>2 DEF DispatchTo
  <2>2. \A p, i : Command(p, i)' <=> Command(p, i)
        BY <1>1 DEF Command
  <2>3. Reached(k) /\ loadOrder'[k] = loadOrder[k]
        BY <1>1 DEF Commanding, Deliveries
  <2>4. PICK p \in Plugins : p = loadOrder[k] /\ loadOrder'[k] = p
        BY <1>1, Counted
  <2>5. /\ \A i \in 3 .. Len(calls[p]) : Command(p, i)
        /\ loadFinished => Len(calls[p]) >= kept + 2
        /\ loadFinished => \A c \in 1 .. passed :
               c \in Handed(p)
               \/ \E u \in Threads : \E i \in 1 .. Len(stack[u]) :
                      DispatchTo(u, i, k) /\ stack[u][i].command = c
        /\ ~loadFinished =>
               Len(calls[p]) = Taken + 1 \/ Len(calls[p]) = Taken + 2
        /\ ~loadFinished =>
               \A u \in Threads : \A i \in 1 .. Len(stack[u]) :
                   DispatchTo(u, i, k) => Len(calls[p]) = Taken + 1
        /\ ~loadFinished /\ Len(calls[p]) = Taken + 1 =>
               \E u \in Threads : \E i \in 1 .. Len(stack[u]) : DispatchTo(u, i, k)
        BY <2>3, <2>4 DEF Reached, Going
  <2>6. loadFinished' => \A c \in 1 .. passed' :
            c \in Handed(p)'
            \/ \E u \in Threads : \E i \in 1 .. Len(stack'[u]) :
                   DispatchTo(u, i, k)' /\ stack'[u][i].command = c
    <3> SUFFICES ASSUME loadFinished, NEW c \in 1 .. passed, c \notin Handed(p)
                 PROVE  \E u \in Threads : \E i \in 1 .. Len(stack'[u]) :
                            DispatchTo(u, i, k)' /\ stack'[u][i].command = c
        BY <1>1, <1>8
    <3>1. PICK u \in Threads : \E i \in 1 .. Len(stack[u]) :
              DispatchTo(u, i, k) /\ stack[u][i].command = c
          BY <2>5
    <3> QED BY <2>1, <3>1
  <2>7. /\ ~loadFinished' =>
               \A u \in Threads : \A i \in 1 .. Len(stack'[u]) :
                   DispatchTo(u, i, k)' => Len(calls'[p]) = Taken' + 1
        /\ ~loadFinished' /\ Len(calls'[p]) = Taken' + 1 =>
               \E u \in Threads : \E i \in 1 .. Len(stack'[u]) : DispatchTo(u, i, k)'
        BY <1>1, <1>6, <2>1, <2>5
  <2>8. Handed(loadOrder[k])' = Handed(p)' /\ \A i : Command(loadOrder[k], i)' <=> Command(p, i)'
        BY <2>4 DEF Handed, Command
  <2>9. /\ \A i \in 3 .. Len(calls'[p]) : Command(p, i)'
        /\ loadFinished' => Len(calls'[p]) >= kept' + 2
        /\ ~loadFinished' =>
               Len(calls'[p]) = Taken' + 1 \/ Len(calls'[p]) = Taken' + 2
        BY <1>1, <1>6, <2>2, <2>5
  <2> QED BY <2>4, <2>6, <2>7, <2>8, <2>9 DEF Reached
<1> QED BY <1>7, <1>9, <1>10, <1>11 DEF Commanding


\* The dispatch at the top of thread t goes on; it may be to a callback.
LEMMA DispatchMoves ==
    ASSUME stack \in Stacks, NEW t \in Threads, stack[t] # <<>>, Top(t).call = "dispatch",
           NEW next \in Nat, NEW f \in Frame, f.call = "callback",
           Goto(t, "pass", next) \/ PushFromLoop(t, next, f)
    PROVE  /\ \A u \in Threads : \A j \in Nat :
                  /\ Dispatching(u, j)' <=> Dispatching(u, j)
                  /\ Dispatching(u, j) =>
                         /\ j \in 1 .. Len(stack[u]) /\ j \in 1 .. Len(stack'[u])
                         /\ stack'[u][j].command = stack[u][j].command
                         /\ IF u = t /\ j = Len(stack[t])
                            THEN stack'[u][j].next = next ELSE stack'[u][j].next = stack[u][j].next
                         /\ j > 1 => stack'[u][j - 1] = stack[u][j - 1]
           /\ NoLoadPass => NoLoadPass'
<1> DEFINE n == Len(stack[t])
<1>0. Top(t) \in Frame /\ n \in Nat \ {0} /\ Top(t) = stack[t][n]
      BY TopFrame
<1>1. PICK g \in Frame :
          /\ g.call = "dispatch" /\ g.command = Top(t).command /\ g.next = next
          /\ n \in 1 .. Len(stack'[t])
          /\ \A i \in 1 .. n - 1 : stack'[t][i] = stack[t][i]
          /\ stack'[t][n] = g
          /\ Len(stack'[t]) = n \/ (Len(stack'[t]) = n + 1 /\ stack'[t][n + 1] = f)
          /\ \A u \in Threads \ {t} : stack'[u] = stack[u]
  <2>1. CASE Goto(t, "pass", next)
    <3> DEFINE g == [Top(t) EXCEPT !.at = "pass", !.next = next]
    <3>1. g \in Frame /\ g.call = "dispatch" /\ g.command = Top(t).command /\ g.next = next
          BY <1>0 DEF Frame
    <3>2. /\ stack' \in Stacks
          /\ Len(stack'[t]) = Len(stack[t])
          /\ \A i \in 1 .. Len(stack[t]) - 1 : stack'[t][i] = stack[t][i]
          /\ stack'[t][Len(stack[t])] = g
          /\ \A u \in Threads \ {t} : stack'[u] = stack[u]
          BY <2>1, <3>1, GotoStack
    <3> HIDE DEF g
    <3> QED BY <1>0, <3>1, <3>2
  <2>2. CASE PushFromLoop(t, next, f)
    <3> DEFINE g == [Top(t) EXCEPT !.next = next]
    <3>1. g \in Frame /\ g.call = "dispatch" /\ g.command = Top(t).command /\ g.next = next
          BY <1>0 DEF Frame
    <3>2. /\ stack' \in Stacks
          /\ Len(stack'[t]) = Len(stack[t]) + 1
          /\ \A i \in 1 .. Len(stack[t]) - 1 : stack'[t][i] = stack[t][i]
          /\ stack'[t][Len(stack[t])] = g
          /\ stack'[t][Len(stack[t]) + 1] = f
          /\ \A u \in Threads \ {t} : stack'[u] = stack[u]
          BY <2>2, PushFromLoopStack
    <3> HIDE DEF g
    <3> QED BY <1>0, <3>1, <3>2
  <2> QED BY <2>1, <2>2
<1>2. ASSUME NEW u \in Threads, NEW j \in Nat
      PROVE  /\ Dispatching(u, j)' <=> Dispatching(u, j)
             /\ Dispatching(u, j) =>
                    /\ j \in 1 .. Len(stack[u]) /\ j \in 1 .. Len(stack'[u])
                    /\ stack'[u][j].command = stack[u][j].command
                    /\ IF u = t /\ j = Len(stack[t])
                       THEN stack'[u][j].next = next ELSE stack'[u][j].next = stack[u][j].next
                    /\ j > 1 => stack'[u][j - 1] = stack[u][j - 1]
  <2>1. CASE u # t
        BY <1>1, <2>1 DEF Dispatching
  <2>2. CASE u = t /\ j < n
        BY <1>0, <1>1, <2>2 DEF Dispatching
  <2>3. CASE u = t /\ j = n
    <3>1. Dispatching(u, j) /\ j \in 1 .. n
          BY <1>0, <2>3 DEF Dispatching
    <3>2. Dispatching(u, j)'
          BY <1>0, <1>1, <2>3 DEF Dispatching
    <3> QED BY <1>0, <1>1, <2>3, <3>1, <3>2
  <2>4. CASE u = t /\ j > n
        BY <1>0, <1>1, <2>4 DEF Dispatching
  <2> QED BY <1>0, <2>1, <2>2, <2>3, <2>4
<1>3. NoLoadPass => NoLoadPass'
  <2>1. ~LoadPass(g) /\ ~LoadPass(f)
        BY <1>1 DEF LoadPass, LoaderFrame
  <2> QED BY <1>0, <1>1, <2>1 DEF NoLoadPass
<1> QED BY <1>2, <1>3

\* What the plugin at the dispatch's place is given by its next step.
LEMMA DispatchGives ==
    ASSUME Typed, Typed', NEW p \in Plugins, NEW c \in Nat, NEW m \in Nat, m = Len(calls[p]) + 1,
           IF state[p] = "Running"
           THEN calls' = [calls EXCEPT ![p] = Append(@, [at |-> "remoteCommand", command |-> c])]
           ELSE UNCHANGED calls
    PROVE  /\ \A q \in Plugins : \A j \in Nat :
                  /\ Command(q, j)' <=> Command(q, j) \/ (state[p] = "Running" /\ q = p /\ j = m)
                  /\ Command(q, j) => calls'[q][j] = calls[q][j]
           /\ state[p] = "Running" => calls'[p][m].command = c /\ Len(calls'[p]) = m
           /\ \A q \in Plugins : q # p \/ state[p] # "Running" => calls'[q] = calls[q]
           /\ \A q \in Plugins : \A d :
                  d \in Handed(q)' <=> d \in Handed(q) \/ (state[p] = "Running" /\ q = p /\ d = c)
<1>0. calls \in [Plugins -> Seq(Given)] /\ \A q \in Plugins : Len(calls[q]) \in Nat
      BY DEF Typed, Values
<1>1. CASE state[p] # "Running"
      BY <1>1 DEF Command, Handed
<1>2. CASE state[p] = "Running"
  <2> DEFINE g == [at |-> "remoteCommand", command |-> c]
  <2>1. g \in Given /\ g.at = "remoteCommand" /\ g.command = c
        BY DEF Given, Callbacks
  <2>2. calls'[p] = Append(calls[p], g) /\ \A q \in Plugins : q # p => calls'[q] = calls[q]
        BY <1>0, <1>2
  <2> HIDE DEF g
  <2>3. /\ Len(Append(calls[p], g)) = m
        /\ Append(calls[p], g)[m] = g
        /\ \A j \in 1 .. Len(calls[p]) : Append(calls[p], g)[j] = calls[p][j]
        BY <1>0, <2>1
  <2>4. /\ Len(calls'[p]) = m /\ calls'[p][m] = g
        /\ \A j \in 1 .. Len(calls[p]) : calls'[p][j] = calls[p][j]
        BY <2>2, <2>3
  <2>5. ASSUME NEW q \in Plugins, NEW j \in Nat
        PROVE  /\ Command(q, j)' <=> Command(q, j) \/ (q = p /\ j = m)
               /\ Command(q, j) => calls'[q][j] = calls[q][j]
    <3>1. CASE q # p
          BY <2>2, <3>1 DEF Command
    <3>2. CASE q = p /\ j = m
          BY <1>0, <2>1, <2>4, <3>2 DEF Command
    <3>3. CASE q = p /\ j # m
          BY <1>0, <2>4, <3>3 DEF Command
    <3> QED BY <3>1, <3>2, <3>3
  <2>6. ASSUME NEW q \in Plugins, NEW d
        PROVE  d \in Handed(q)' <=> d \in Handed(q) \/ (q = p /\ d = c)
    <3>1. d \in Handed(q) <=> \E i \in Nat : Command(q, i) /\ calls[q][i].command = d
          BY TypedHanded DEF HandedCommands
    <3>2. d \in Handed(q)' <=> \E i \in Nat : Command(q, i)' /\ calls'[q][i].command = d
          BY HandedNext DEF HandedCommands
    <3> QED BY <2>1, <2>4, <2>5, <3>1, <3>2
  <2> QED BY <1>2, <2>1, <2>2, <2>4, <2>5, <2>6
<1> QED BY <1>1, <1>2


LEMMA DispatchStepCommanding ==
    ASSUME Typed', Lively, Commanding, NEW t \in Threads, DispatchStep(t)
    PROVE  Commanding'
<1>0. /\ stack \in Stacks /\ stack[t] # <<>> /\ Top(t).call = "dispatch" /\ InOrder(t)
      /\ Typed /\ Ordering /\ ~shutdownFinished
      BY DEF DispatchStep, DispatchOver, Typed, Skeleton, At, Lively
<1>1. UNCHANGED <<loadStarted, loadFinished, shutdownFinished, loadOrder, state,
                  passed, kept, pending>>
      BY DEF DispatchStep, flags, resolution, specs, commands
<1> PICK n \in Nat \ {0} : n = Len(stack[t]) /\ Top(t) = stack[t][n] /\ n \in 1 .. Len(stack[t])
    BY <1>0, TopFrame
<1> PICK i \in Places : i = Top(t).next
    BY <1>0, LoopAt
<1> PICK c \in Nat : c = Top(t).command
    BY <1>0, Counted
<1> PICK p \in Plugins : p = loadOrder[i]
    BY <1>0, Counted
<1> PICK m \in Nat : m = Len(calls[p]) + 1
    BY <1>0, Counted
<1>2. i \in Nat /\ i + 1 \in Nat
      BY DEF Places
<1>3. /\ \A u \in Threads : \A j \in Nat :
             /\ Dispatching(u, j)' <=> Dispatching(u, j)
             /\ Dispatching(u, j) =>
                    /\ j \in 1 .. Len(stack[u]) /\ j \in 1 .. Len(stack'[u])
                    /\ stack'[u][j].command = stack[u][j].command
                    /\ IF u = t /\ j = n
                       THEN stack'[u][j].next = i + 1 ELSE stack'[u][j].next = stack[u][j].next
                    /\ j > 1 => stack'[u][j - 1] = stack[u][j - 1]
      /\ NoLoadPass => NoLoadPass'
  <2> DEFINE f == [call |-> "callback", at |-> "remoteCommand", next |-> i, command |-> c]
  <2>1. f \in Frame /\ f.call = "callback"
        BY <1>2 DEF Frame, Callbacks
  <2>2. Goto(t, "pass", i + 1) \/ PushFromLoop(t, i + 1, f)
        BY DEF DispatchStep
  <2> HIDE DEF f
  <2> QED BY <1>0, <1>2, <2>1, <2>2, DispatchMoves
<1>4. /\ \A q \in Plugins : \A j \in Nat :
             /\ Command(q, j)' <=> Command(q, j) \/ (state[p] = "Running" /\ q = p /\ j = m)
             /\ Command(q, j) => calls'[q][j] = calls[q][j]
      /\ state[p] = "Running" => calls'[p][m].command = c /\ Len(calls'[p]) = m
      /\ \A q \in Plugins : q # p \/ state[p] # "Running" => calls'[q] = calls[q]
      /\ \A q \in Plugins : \A d :
             d \in Handed(q)' <=> d \in Handed(q) \/ (state[p] = "Running" /\ q = p /\ d = c)
  <2>1. IF state[p] = "Running"
        THEN calls' = [calls EXCEPT ![p] = Append(@, [at |-> "remoteCommand", command |-> c])]
        ELSE UNCHANGED calls
        BY DEF DispatchStep
  <2> QED BY <1>0, <2>1, DispatchGives, SMTT(30)
<1>5. Taken' = Taken /\ \A d : Left(d)' <=> Left(d)
      BY <1>1 DEF Left, Taken
<1>6. Numbers'
      BY <1>1, <1>3, <1>5 DEF Numbers, Commanding
\* What the invariant says of this dispatch.
<1>7. /\ Dispatching(t, n) /\ Left(c) /\ stack[t][n].command = c /\ stack[t][n].next = i
      /\ ~loadFinished => c = Taken
      /\ \A u \in Threads : \A j \in 1 .. Len(stack[u]) :
             Dispatching(u, j) /\ stack[u][j].command = c => u = t /\ j = n
      /\ \A k \in Places : k >= i => c \notin Handed(loadOrder[k])
      BY <1>0 DEF Commanding, Dispatches, Dispatching
<1>8. Places' = Places /\ \A k \in Places : loadOrder'[k] = loadOrder[k] /\ loadOrder[k] \in Plugins
      BY <1>0, <1>1, Counted DEF Places
<1>9. \A k \in Places : loadOrder[k] = p => k = i
      BY <1>0 DEF Ordering
<1>10. Dispatches'
  <2> SUFFICES ASSUME NEW u \in Threads, NEW j \in 1 .. Len(stack'[u]), Dispatching(u, j)'
               PROVE  /\ Left(stack[u][j].command)' /\ stack'[u][j].next >= 1
                      /\ ~loadFinished' =>
                             j > 1 /\ LoaderFrame(stack[u][j - 1])' /\ stack'[u][j].command = Taken'
                      /\ \A v \in Threads : \A h \in 1 .. Len(stack'[v]) :
                             Dispatching(v, h)' /\ stack'[v][h].command = stack'[u][j].command
                                 => v = u /\ h = j
                      /\ \A k \in Places' : k >= stack'[u][j].next =>
                             stack'[u][j].command \notin Handed(loadOrder[k])'
      BY DEF Dispatches
  <2>1. \A v \in Threads : \A h \in 1 .. Len(stack'[v]) : Dispatching(v, h)' =>
            /\ h \in 1 .. Len(stack[v]) /\ Dispatching(v, h)
            /\ stack'[v][h].command = stack[v][h].command
        BY <1>3
  <2>2. /\ j \in 1 .. Len(stack[u]) /\ Dispatching(u, j)
        /\ stack'[u][j].command = stack[u][j].command
        /\ j > 1 => stack'[u][j - 1] = stack[u][j - 1]
        BY <1>3, <2>1
  <2>3. /\ Left(stack[u][j].command) /\ stack[u][j].next >= 1
        /\ ~loadFinished =>
               j > 1 /\ LoaderFrame(stack[u][j - 1]) /\ stack[u][j].command = Taken
        /\ \A v \in Threads : \A h \in 1 .. Len(stack[v]) :
               Dispatching(v, h) /\ stack[v][h].command = stack[u][j].command => v = u /\ h = j
        /\ \A k \in Places : k >= stack[u][j].next =>
               stack[u][j].command \notin Handed(loadOrder[k])
        BY <2>2 DEF Commanding, Dispatches
  <2>4. Left(stack[u][j].command)'
        BY <1>5, <2>2, <2>3
  <2>5. ~loadFinished' =>
            j > 1 /\ LoaderFrame(stack[u][j - 1])' /\ stack'[u][j].command = Taken'
        BY <1>1, <1>5, <2>2, <2>3 DEF LoaderFrame
  <2>6. \A v \in Threads : \A h \in 1 .. Len(stack'[v]) :
            Dispatching(v, h)' /\ stack'[v][h].command = stack'[u][j].command => v = u /\ h = j
        BY <2>1, <2>2, <2>3
  <2>7. /\ stack[u][j].next \in Nat /\ stack'[u][j].next \in Nat
        /\ stack'[u][j].next >= stack[u][j].next /\ stack'[u][j].next >= 1
        /\ u = t /\ j = n => stack'[u][j].next = i + 1
    <3>1. stack[u][j].next \in Nat
          BY <1>0, <2>2, Counted
    <3>2. IF u = t /\ j = n THEN stack'[u][j].next = i + 1
          ELSE stack'[u][j].next = stack[u][j].next
          BY <1>3, <2>2
    <3>3. u = t /\ j = n => stack[u][j].next = i
          BY <1>7
    <3> QED BY <1>2, <2>3, <3>1, <3>2, <3>3
  <2>8. \A k \in Places' : k >= stack'[u][j].next =>
            stack'[u][j].command \notin Handed(loadOrder[k])'
    <3> SUFFICES ASSUME NEW k \in Places, k >= stack'[u][j].next
                 PROVE  stack[u][j].command \notin Handed(loadOrder[k])'
        BY <1>8, <2>2
    <3>1. PICK q \in Plugins : q = loadOrder[k] /\ loadOrder'[k] = q
          BY <1>8
    <3>2. Handed(loadOrder[k])' = Handed(q)'
          BY <3>1 DEF Handed
    <3>3. stack[u][j].command \notin Handed(q)
      <4>1. k >= stack[u][j].next
            BY <2>7 DEF Places
      <4> QED BY <2>3, <3>1, <4>1
    <3>4. stack[u][j].command = c => q # p
      <4> SUFFICES ASSUME stack[u][j].command = c, q = p PROVE FALSE
          OBVIOUS
      <4>1. u = t /\ j = n
            BY <1>7, <2>2
      <4>2. k = i
            BY <1>9, <3>1
      <4> QED BY <1>2, <2>7, <4>1, <4>2
    <3> QED BY <1>4, <3>2, <3>3, <3>4
  <2> QED BY <2>4, <2>5, <2>6, <2>7, <2>8
<1>11. ASSUME state[p] = "Running"
       PROVE  /\ \A j \in 3 .. Len(calls[p]) : Command(p, j)
              /\ loadFinished => m > kept + 2
              /\ ~loadFinished => m = Taken + 2
  <2>1. Reached(i) /\ Going(loadOrder[i])
        BY <1>0, <1>11 DEF Commanding, Deliveries, Going
  <2>2. DispatchTo(t, n, i) /\ i = stack[t][n].next
        BY <1>2, <1>7 DEF DispatchTo
  <2>3. /\ \A j \in 3 .. Len(calls[p]) : Command(p, j)
        /\ loadFinished => Len(calls[p]) >= kept + 2
        /\ ~loadFinished => Len(calls[p]) = Taken + 1
        BY <2>1, <2>2 DEF Reached, Going
  <2> QED BY <1>0, <2>3, Counted
<1>12. Histories'
  <2> SUFFICES ASSUME NEW q \in Plugins, NEW j \in 1 .. Len(calls'[q]), Command(q, j)'
               PROVE  /\ Left(calls[q][j].command)'
                      /\ j <= kept' + 2 => calls'[q][j].command = j - 2
                      /\ ~loadFinished' => j <= Taken' + 2
                      /\ \A h \in 1 .. Len(calls'[q]) :
                             Command(q, h)' /\ calls'[q][h].command = calls'[q][j].command => h = j
      BY DEF Histories
  <2>0. kept \in Nat /\ Taken \in Int /\ j \in Nat
        BY <1>0, Counted
  <2>1. \A h \in 1 .. Len(calls'[q]) : Command(q, h)' =>
            \/ Command(q, h) /\ calls'[q][h] = calls[q][h] /\ h \in 1 .. Len(calls[q])
            \/ state[p] = "Running" /\ q = p /\ h = m
        BY <1>4, SMTT(30) DEF Command
  <2>2. CASE state[p] = "Running" /\ q = p /\ j = m
    <3>1. calls'[q][j].command = c
          BY <1>4, <2>2
    <3>2. \A h \in 1 .. Len(calls'[q]) :
              Command(q, h)' /\ calls'[q][h].command = c => h = j
      <4> SUFFICES ASSUME NEW h \in 1 .. Len(calls'[q]), Command(q, h),
                          calls'[q][h].command = c, calls'[q][h] = calls[q][h]
                   PROVE  FALSE
          BY <2>1, <2>2
      <4>0. h \in Nat /\ Command(p, h) /\ calls[p][h].command = c
        <5>1. h \in 1 .. Len(calls[q]) /\ Len(calls[q]) \in Nat
              BY <1>0, Counted DEF Command
        <5> QED BY <2>2, <5>1
      <4>1. c \in Handed(p)
            BY <1>0, <4>0, TypedHanded DEF HandedCommands
      <4> QED BY <1>2, <1>7, <4>1
    <3>3. Left(calls[q][j].command)'
          BY <1>5, <1>7, <3>1
    <3>4. j <= kept' + 2 => calls'[q][j].command = j - 2
      <4>1. /\ loadFinished => j > kept + 2
            /\ ~loadFinished => j = Taken + 2 /\ c = Taken
            BY <1>7, <1>11, <2>2
      <4> QED BY <1>1, <2>0, <3>1, <4>1
    <3>5. ~loadFinished' => j <= Taken' + 2
          BY <1>1, <1>5, <1>11, <2>0, <2>2, SMTT(30)
    <3> QED BY <3>1, <3>2, <3>3, <3>4, <3>5
  <2>3. CASE Command(q, j) /\ calls'[q][j] = calls[q][j] /\ j \in 1 .. Len(calls[q])
    <3>1. /\ Left(calls[q][j].command)
          /\ j <= kept + 2 => calls[q][j].command = j - 2
          /\ ~loadFinished => j <= Taken + 2
          /\ \A h \in 1 .. Len(calls[q]) :
                 Command(q, h) /\ calls[q][h].command = calls[q][j].command => h = j
          BY <2>3 DEF Commanding, Histories
    <3>2. \A h \in 1 .. Len(calls'[q]) :
              Command(q, h)' /\ calls'[q][h].command = calls'[q][j].command => h = j
      <4> SUFFICES ASSUME NEW h \in 1 .. Len(calls'[q]), Command(q, h)',
                          calls'[q][h].command = calls[q][j].command
                   PROVE  h = j
          BY <2>3
      <4>1. CASE Command(q, h) /\ calls'[q][h] = calls[q][h] /\ h \in 1 .. Len(calls[q])
            BY <3>1, <4>1
      <4>2. CASE state[p] = "Running" /\ q = p /\ h = m
        <5>1. j \in Nat /\ Command(p, j) /\ calls[p][j].command = c
              BY <1>4, <2>0, <2>3, <4>2
        <5>2. c \in Handed(p)
              BY <1>0, <5>1, TypedHanded DEF HandedCommands
        <5> QED BY <1>2, <1>7, <5>2
      <4> QED BY <2>1, <4>1, <4>2
    <3>3. Left(calls[q][j].command)'
          BY <1>5, <2>3, <3>1
    <3> QED BY <1>1, <1>5, <2>3, <3>1, <3>2, <3>3
  <2> QED BY <2>1, <2>2, <2>3
<1>13. Deliveries'
  <2> SUFFICES ASSUME NEW k \in Places, Going(loadOrder[k])
               PROVE  Reached(k)'
      BY <1>1, <1>8 DEF Deliveries, Reached, Going
  <2> PICK q \in Plugins : q = loadOrder[k] /\ loadOrder'[k] = q
      BY <1>8
  <2>0. Handed(loadOrder[k])' = Handed(q)' /\ \A j : Command(loadOrder[k], j)' <=> Command(q, j)'
        BY DEF Handed, Command
  <2>1. /\ \A j \in 3 .. Len(calls[q]) : Command(q, j)
        /\ loadFinished => Len(calls[q]) >= kept + 2
        /\ loadFinished => \A d \in 1 .. passed :
               d \in Handed(q)
               \/ \E u \in Threads : \E j \in 1 .. Len(stack[u]) :
                      DispatchTo(u, j, k) /\ stack[u][j].command = d
        /\ ~loadFinished =>
               Len(calls[q]) = Taken + 1 \/ Len(calls[q]) = Taken + 2
        /\ ~loadFinished =>
               \A u \in Threads : \A j \in 1 .. Len(stack[u]) :
                   DispatchTo(u, j, k) => Len(calls[q]) = Taken + 1
        /\ ~loadFinished /\ Len(calls[q]) = Taken + 1 =>
               \E u \in Threads : \E j \in 1 .. Len(stack[u]) : DispatchTo(u, j, k)
        BY DEF Commanding, Deliveries, Reached, Going
  <2>2. kept \in Nat /\ Taken \in Int /\ Len(calls[q]) \in Nat /\ k \in Nat
        BY <1>0, Counted DEF Places
  <2>3. q = p <=> k = i
        BY <1>9
  \* Only for the plugin at its place does the dispatch come past.
  <2>4. \A u \in Threads : \A j \in Nat :
            /\ DispatchTo(u, j, k)' <=> DispatchTo(u, j, k) /\ ~(k = i /\ u = t /\ j = n)
            /\ DispatchTo(u, j, k) => /\ j \in 1 .. Len(stack[u]) /\ j \in 1 .. Len(stack'[u])
                                      /\ stack'[u][j].command = stack[u][j].command
            /\ DispatchTo(u, j, k)' => j \in 1 .. Len(stack[u])
    <3> TAKE u \in Threads, j \in Nat
    <3>1. CASE ~Dispatching(u, j)
          BY <1>3, <3>1 DEF DispatchTo
    <3>2. CASE Dispatching(u, j)
      <4>1. CASE u = t /\ j = n
            BY <1>2, <1>3, <1>7, <2>2, <3>2, <4>1 DEF DispatchTo
      <4>2. CASE ~(u = t /\ j = n)
            BY <1>3, <3>2, <4>2 DEF DispatchTo
      <4> QED BY <4>1, <4>2
    <3> QED BY <3>1, <3>2
  <2>5. CASE k # i
    <3>1. calls'[q] = calls[q] /\ \A d : d \in Handed(q)' <=> d \in Handed(q)
          BY <1>4, <2>3, <2>5
    <3>2. /\ \A j \in 3 .. Len(calls'[q]) : Command(q, j)'
          /\ loadFinished' => Len(calls'[q]) >= kept' + 2
          /\ ~loadFinished' =>
                 Len(calls'[q]) = Taken' + 1 \/ Len(calls'[q]) = Taken' + 2
          BY <1>1, <1>5, <2>1, <3>1 DEF Command
    <3>3. loadFinished' => \A d \in 1 .. passed' :
              d \in Handed(q)'
              \/ \E u \in Threads : \E j \in 1 .. Len(stack'[u]) :
                     DispatchTo(u, j, k)' /\ stack'[u][j].command = d
      <4> SUFFICES ASSUME loadFinished, NEW d \in 1 .. passed, d \notin Handed(q)
                   PROVE  \E u \in Threads : \E j \in 1 .. Len(stack'[u]) :
                              DispatchTo(u, j, k)' /\ stack'[u][j].command = d
          BY <1>1, <3>1
      <4>1. PICK u \in Threads : \E j \in 1 .. Len(stack[u]) :
                DispatchTo(u, j, k) /\ stack[u][j].command = d
            BY <2>1
      <4> QED BY <2>4, <2>5, <4>1
    <3>4. /\ ~loadFinished' =>
                 \A u \in Threads : \A j \in 1 .. Len(stack'[u]) :
                     DispatchTo(u, j, k)' => Len(calls'[q]) = Taken' + 1
          /\ ~loadFinished' /\ Len(calls'[q]) = Taken' + 1 =>
                 \E u \in Threads : \E j \in 1 .. Len(stack'[u]) : DispatchTo(u, j, k)'
          BY <1>1, <1>5, <2>1, <2>4, <2>5, <3>1
    <3> QED BY <2>0, <3>2, <3>3, <3>4 DEF Reached
  <2>6. CASE k = i
    <3>1. q = p /\ state[p] = "Running"
          BY <2>3, <2>6 DEF Going
    <3>2. /\ loadFinished => m > kept + 2
          /\ ~loadFinished => m = Taken + 2
          /\ Len(calls'[q]) = m
          BY <1>4, <1>11, <3>1
    <3>3. \A j \in 3 .. Len(calls'[q]) : Command(q, j)'
      <4> TAKE j \in 3 .. Len(calls'[q])
      <4>1. m = Len(calls[q]) + 1 /\ j \in 3 .. m
            BY <3>1, <3>2
      <4>2. j \in 3 .. Len(calls[q]) \/ j = m
            BY <2>2, <4>1
      <4>3. j \in Nat
            BY <4>1
      <4>4. Command(q, j)' <=> Command(q, j) \/ (state[p] = "Running" /\ q = p /\ j = m)
            BY <1>4, <4>3
      <4> QED BY <2>1, <3>1, <4>2, <4>4
    <3>4. loadFinished' => \A d \in 1 .. passed' :
              d \in Handed(q)'
              \/ \E u \in Threads : \E j \in 1 .. Len(stack'[u]) :
                     DispatchTo(u, j, k)' /\ stack'[u][j].command = d
      <4> SUFFICES ASSUME loadFinished, NEW d \in 1 .. passed, d \notin Handed(q), d # c
                   PROVE  \E u \in Threads : \E j \in 1 .. Len(stack'[u]) :
                              DispatchTo(u, j, k)' /\ stack'[u][j].command = d
          BY <1>1, <1>4, <3>1
      <4>1. PICK u \in Threads : \E j \in 1 .. Len(stack[u]) :
                DispatchTo(u, j, k) /\ stack[u][j].command = d
            BY <2>1
      <4> QED BY <1>7, <2>4, <4>1
    <3>5. ~loadFinished => \A u \in Threads : \A j \in 1 .. Len(stack'[u]) : ~DispatchTo(u, j, k)'
      <4> SUFFICES ASSUME ~loadFinished, NEW u \in Threads, NEW j \in Nat, DispatchTo(u, j, k)'
                   PROVE  FALSE
          OBVIOUS
      <4>1. DispatchTo(u, j, k) /\ ~(u = t /\ j = n) /\ j \in 1 .. Len(stack[u])
            BY <2>4, <2>6
      <4>2. stack[u][j].command = Taken
            BY <4>1 DEF Commanding, Dispatches, DispatchTo
      <4> QED BY <1>7, <4>1, <4>2 DEF DispatchTo
    <3> QED BY <1>1, <1>5, <2>0, <2>2, <3>2, <3>3, <3>4, <3>5, SMTT(30) DEF Reached
  <2> QED BY <2>5, <2>6
<1> QED BY <1>6, <1>10, <1>12, <1>13 DEF Commanding


-----------------------------------------------------------------------------
(* The invariant, and what it means for the commands.                      *)

LEMMA InitCommanding == Init => Commanding
<1> SUFFICES ASSUME Init PROVE Commanding
    OBVIOUS
<1>1. /\ \A t \in Threads : Len(stack[t]) = 0
      /\ \A p \in Plugins : Len(calls[p]) = 0
      /\ Len(pending) = 0 /\ Len(loadOrder) = 0
      /\ pending = <<>> /\ kept = 0 /\ passed = 0 /\ loadFinished = FALSE
      BY DEF Init
<1>2. Numbers
      BY <1>1 DEF Numbers, Taken
<1> QED BY <1>1, <1>2 DEF Commanding, Dispatches, Histories, Deliveries, Places

LEMMA NextCommanding == Lively /\ Commanding /\ [Next]_vars /\ Typed' => Commanding'
<1> SUFFICES ASSUME Lively, Commanding, [Next]_vars, Typed' PROVE Commanding'
    OBVIOUS
<1>0. Typed
      BY DEF Lively
<1>1. CASE UNCHANGED vars
  <2>1. UNCHANGED <<commands, loadFinished, loadStarted, shutdownFinished, calls, loadOrder,
                    state, stack>>
        BY <1>1 DEF vars, flags, resolution, specs
  <2>2. Steady
        BY <2>1 DEF Steady, Dispatching, NoLoadPass
  <2> QED BY <1>0, <2>1, <2>2, SilentCommanding
<1>2. ASSUME NEW t \in Threads, Environment(t) \/ System(t) \/ CallbackReturn(t)
      PROVE  Commanding'
  <2>1. CASE \/ Call(t) \/ LoadAgain(t) \/ ShutdownAgain(t) \/ ShutdownReturn(t)
             \/ HandlerReturn(t) \/ InitializeReturn(t)
        BY <1>0, <2>1, CallCommanding
  <2>2. CASE \/ LoadStart(t) \/ LoadStep(t) \/ LoadPassEnds(t) \/ InitializePassEnds(t)
             \/ ReadyPassEnds(t) \/ ShutdownStart(t) \/ NotifyPassEnds(t) \/ UnloadStep(t)
        BY <1>0, <2>2, GoesOnCommanding
  <2>3. CASE InitializeStep(t) \/ ReadyStep(t) \/ NotifyStep(t)
        BY <2>3, PassCallsCommanding
  <2>4. CASE Resolve(t)
        BY <1>0, <2>4, ResolveCommanding
  <2>5. CASE ReadyReturn(t)
        BY <2>5, ReadyReturnCommanding
  <2>6. CASE KeepCommand(t)
        BY <1>0, <2>6, KeepCommandCommanding
  <2>7. CASE PassCommand(t)
        BY <1>0, <2>7, PassCommandCommanding
  <2>8. CASE TakePending(t)
        BY <1>0, <2>8, TakePendingCommanding
  <2>9. CASE LoadReturn(t)
        BY <1>0, <2>9, LoadReturnCommanding
  <2>10. CASE DispatchStep(t)
         BY <2>10, DispatchStepCommanding
  <2>11. CASE DispatchReturn(t)
         BY <1>0, <2>11, DispatchReturnCommanding
  <2> QED BY <1>2, <2>1, <2>2, <2>3, <2>4, <2>5, <2>6, <2>7, <2>8, <2>9, <2>10, <2>11
          DEF Environment, System, LoadPlugins, Dispatch, CallbackReturn, ShutdownPlugins
<1> QED BY <1>1, <1>2 DEF Next

LEMMA AlwaysCommanding == Spec => []Commanding
BY InitCommanding, NextCommanding, AlwaysTyped, AlwaysLively, PTL DEF Spec

\* On one thread, and whichever callbacks pass commands themselves, the commands that
\* were kept come to each plugin first and in their order, and no command comes to a
\* plugin twice.
THEOREM CommandsKeptInOrder == SingleThread => (Spec => []KeptInOrder)
<1> SUFFICES ASSUME SingleThread PROVE Spec => []KeptInOrder
    OBVIOUS
<1>1. ASSUME Typed, Commanding PROVE KeptInOrder
  <2> SUFFICES ASSUME NEW p \in Plugins
               PROVE  /\ \A k \in 1 .. kept :
                             k + 2 \in DOMAIN calls[p] /\ calls[p][k + 2].at = "remoteCommand"
                                 => calls[p][k + 2].command = k
                      /\ \A i, j \in DOMAIN calls[p] :
                             calls[p][i].at = "remoteCommand" /\ calls[p][i] = calls[p][j] => i = j
      BY DEF KeptInOrder
  <2>1. DOMAIN calls[p] = 1 .. Len(calls[p]) /\ kept \in Nat
        BY <1>1, Counted
  <2>2. \A i \in 1 .. Len(calls[p]) : Command(p, i) =>
            /\ i <= kept + 2 => calls[p][i].command = i - 2
            /\ \A j \in 1 .. Len(calls[p]) :
                   Command(p, j) /\ calls[p][j].command = calls[p][i].command => j = i
        BY <1>1 DEF Commanding, Histories
  <2>3. ASSUME NEW k \in 1 .. kept, k + 2 \in DOMAIN calls[p],
               calls[p][k + 2].at = "remoteCommand"
        PROVE  calls[p][k + 2].command = k
    <3>1. Command(p, k + 2) /\ k + 2 \in 1 .. Len(calls[p])
          BY <2>1, <2>3 DEF Command
    <3> QED BY <2>1, <2>2, <3>1
  <2>4. ASSUME NEW i \in DOMAIN calls[p], NEW j \in DOMAIN calls[p],
               calls[p][i].at = "remoteCommand", calls[p][i] = calls[p][j]
        PROVE  i = j
        BY <2>1, <2>2, <2>4 DEF Command
  <2> QED BY <2>3, <2>4
<1> QED BY <1>1, AlwaysTyped, AlwaysCommanding, PTL

\* On one thread no command is lost: when the calls of the host have returned and
\* nothing was shut down, every plugin that runs has been given every command.
THEOREM CommandsAllDelivered == SingleThread => (Spec => []AllDelivered)
<1> SUFFICES ASSUME SingleThread PROVE Spec => []AllDelivered
    OBVIOUS
<1>1. ASSUME Lively, Commanding PROVE AllDelivered
  <2> SUFFICES ASSUME loadFinished, ~shutdownFinished, \A t \in Threads : stack[t] = <<>>,
                      NEW p \in Plugins, state[p] = "Running"
               PROVE  Handed(p) = 1 .. passed
      BY DEF AllDelivered
  <2>0. Typed /\ Numbers
        BY <1>1 DEF Lively, Commanding
  <2>1. PICK k \in Places : p = loadOrder[k]
        BY <1>1 DEF Lively, Unlisted, Fresh
  <2>2. \A t \in Threads : \A i \in 1 .. Len(stack[t]) : FALSE
    <3>1. \A t \in Threads : Len(stack[t]) = 0
          OBVIOUS
    <3> QED BY <3>1
  <2>3. \A c \in 1 .. passed : c \in Handed(p)
        BY <1>1, <2>1, <2>2 DEF Commanding, Deliveries, Reached
  <2>4. ASSUME NEW c \in Handed(p) PROVE c \in 1 .. passed
    <3>1. PICK i \in Nat : Command(p, i) /\ calls[p][i].command = c
          BY <2>0, TypedHanded DEF HandedCommands
    <3>2. Left(c)
          BY <1>1, <3>1 DEF Commanding, Histories, Command
    <3> QED BY <3>2 DEF Left
  <2> QED BY <2>3, <2>4
<1> QED BY <1>1, AlwaysLively, AlwaysCommanding, PTL

\* As long as no commands are passed, no thread is ever in a callback of a plugin
\* whose library is unloaded.  (With commands one may be, as a run shows.)
THEOREM NoFrameInUnmappedWithoutCommands == MaxCommands = 0 => (Spec => []NoFrameInUnmapped)
<1> SUFFICES ASSUME MaxCommands = 0 PROVE Spec => []NoFrameInUnmapped
    OBVIOUS
<1>1. ASSUME Typed, FramesMapped, Commanding PROVE NoFrameInUnmapped
  <2> SUFFICES ASSUME NEW t \in Threads, NEW i \in DOMAIN stack[t],
                      stack[t][i].call = "callback"
               PROVE  mapped[loadOrder[stack[t][i].next]]
      BY DEF NoFrameInUnmapped
  <2>1. i \in 1 .. Len(stack[t]) /\ Len(stack[t]) \in Nat
        BY <1>1 DEF Typed, Skeleton, Stacks
  <2>2. \A j \in 1 .. Len(stack[t]) : stack[t][j].call # "dispatch"
    <3> SUFFICES ASSUME NEW j \in 1 .. Len(stack[t]), stack[t][j].call = "dispatch" PROVE FALSE
        OBVIOUS
    <3>1. Left(stack[t][j].command)
          BY <1>1 DEF Commanding, Dispatches, Dispatching
    <3>2. passed = 0
          BY <1>1 DEF Typed, Values
    <3> QED BY <3>1, <3>2 DEF Left
  <2>3. i > 1 /\ Nested(stack[t][i - 1], stack[t][i])
        BY <1>1, <2>1 DEF Typed, Skeleton, StackOK
  <2>4. i - 1 \in 1 .. Len(stack[t])
        BY <2>1, <2>3
  <2>5. stack[t][i].at # "remoteCommand"
        BY <2>2, <2>3, <2>4 DEF Nested, MadeBy
  <2> QED BY <1>1, <2>1, <2>5 DEF FramesMapped, CallbackMapped
<1> QED BY <1>1, AlwaysTyped, PassCallbacksMapped, AlwaysCommanding, PTL

=============================================================================
