------------------------- MODULE QProjAdapter_proofs -------------------------
(***************************************************************************)
(* Proofs about QProjAdapter for every number of threads and calls.        *)
(***************************************************************************)
EXTENDS QProjAdapter, FiniteSetTheorems, TLAPS

\* A count of zero means that nobody is inside.
LEMMA NobodyInside ==
  ASSUME CountExact, inFlight = 0
  PROVE  forwardThreads = {}
BY FS_EmptySet DEF CountExact

\* Updating a function to BOOLEAN at one place.
LEMMA BooleanUpdate ==
  ASSUME NEW S, NEW f \in [S -> BOOLEAN], NEW s \in S, NEW b \in BOOLEAN
  PROVE  [f EXCEPT ![s] = b] \in [S -> BOOLEAN]
OBVIOUS

\* No step takes a variable out of its type.
LEMMA TypeStep ==
  ASSUME TypeOK, CountExact, InsideAgrees, [Next]_vars
  PROVE  TypeOK'
<1> USE DEF lifecycle, owned, work, frame, At, Goto, TypeOK, InsideAgrees,
         Places, Reasons, Modes, CounterNames, Count
<1>1. ASSUME NEW t \in Threads, NEW place \in {"forward", "close", "setMode"},
    NEW m \in Modes,
             BeginCall(t, place, m)
      PROVE  TypeOK'
  <2>1. nested' = [nested EXCEPT ![t] = pc[t] = "native"]
    BY <1>1 DEF BeginCall
  <2>2. nested \in [Threads -> BOOLEAN] /\ (pc[t] = "native") \in BOOLEAN
    OBVIOUS
  <2>3. nested' \in [Threads -> BOOLEAN]
    <3> HIDE DEF TypeOK
    <3> QED  BY <2>1, <2>2, BooleanUpdate
  <2>4. /\ calls[t] < MaxCalls[t] /\ calls' = [calls EXCEPT ![t] = @ + 1]
        /\ wants' = [wants EXCEPT ![t] = m] /\ pc' = [pc EXCEPT ![t] = place]
        /\ UNCHANGED <<lifecycle, asleep, owned, work, callMode>>
    BY <1>1 DEF BeginCall
  <2> QED
    BY <2>3, <2>4, AdapterAssumption
<1>2. ASSUME NEW t \in Threads, RejectRecursion(t)
      PROVE  TypeOK'
  BY <1>2 DEF RejectRecursion, Return
<1>3. ASSUME NEW t \in Threads, BeginForward(t)
      PROVE  TypeOK'
  BY <1>3 DEF BeginForward, Unavailable
<1>4. ASSUME NEW t \in Threads, BeginForwardWaits(t)
      PROVE  TypeOK'
  BY <1>4 DEF BeginForwardWaits, Wait
<1>5. ASSUME NEW t \in Threads, BeginForwardRejected(t)
      PROVE  TypeOK'
  BY <1>5 DEF BeginForwardRejected, Return, Unavailable
<1>6. ASSUME NEW t \in Threads, Dispatch(t)
      PROVE  TypeOK'
  BY <1>6 DEF Dispatch, Enter
<1>7. ASSUME NEW t \in Threads, DispatchTampered(t)
      PROVE  TypeOK'
  BY <1>7 DEF DispatchTampered
<1>8. ASSUME NEW t \in Threads, NEW reason \in {"none", "miss"}, Guard(t, reason)
      PROVE  TypeOK'
  BY <1>8 DEF Guard, Enter
<1>9. ASSUME NEW t \in Threads, GuardRaises(t)
      PROVE  TypeOK'
  BY <1>9 DEF GuardRaises, Record
<1>10. ASSUME NEW t \in Threads, NEW success \in BOOLEAN, Finish(t, success)
      PROVE  TypeOK'
  BY <1>10 DEF Finish, Record
<1>11. ASSUME NEW t \in Threads, EndForward(t)
      PROVE  TypeOK'
  <2>1. t \in forwardThreads
    BY <1>11 DEF EndForward, InsidePlaces
  <2>2. inFlight # 0
    BY <2>1, NobodyInside
  <2> QED
    BY <1>11, <2>2 DEF EndForward, Return, NotifyAll
<1>12. ASSUME NEW t \in Threads, SetModeWaits(t)
      PROVE  TypeOK'
  BY <1>12 DEF SetModeWaits, Wait
<1>13. ASSUME NEW t \in Threads, SetModeReturns(t)
      PROVE  TypeOK'
  BY <1>13 DEF SetModeReturns, Return
<1>14. ASSUME NEW t \in Threads, SetModeBegins(t)
      PROVE  TypeOK'
  BY <1>14 DEF SetModeBegins, Unavailable
<1>15. ASSUME NEW t \in Threads, SetModeDrains(t)
      PROVE  TypeOK'
  BY <1>15 DEF SetModeDrains, Wait
<1>16. ASSUME NEW t \in Threads, SetModeEnds(t)
      PROVE  TypeOK'
  <2>1. transitioning' \in BOOLEAN /\ asleep' \subseteq Threads /\ mode' \in Modes
    BY <1>16 DEF SetModeEnds, NotifyAll
  <2> QED
    BY <1>16, <2>1 DEF SetModeEnds, Return
<1>17. ASSUME NEW t \in Threads, CloseWaits(t)
      PROVE  TypeOK'
  BY <1>17 DEF CloseWaits, Wait
<1>18. ASSUME NEW t \in Threads, CloseAgain(t)
      PROVE  TypeOK'
  BY <1>18 DEF CloseAgain, Return
<1>19. ASSUME NEW t \in Threads, CloseBegins(t)
      PROVE  TypeOK'
  BY <1>19 DEF CloseBegins
<1>20. ASSUME NEW t \in Threads, CloseDrains(t)
      PROVE  TypeOK'
  BY <1>20 DEF CloseDrains, Wait
<1>21. ASSUME NEW t \in Threads, NEW success \in BOOLEAN, CloseDestroys(t, success)
      PROVE  TypeOK'
  BY <1>21 DEF CloseDestroys
<1>22. ASSUME NEW t \in Threads, CloseFails(t)
      PROVE  TypeOK'
  BY <1>22 DEF CloseFails, Return, NotifyAll
<1>23. ASSUME NEW t \in Threads, CloseEnds(t)
      PROVE  TypeOK'
  BY <1>23 DEF CloseEnds, Return, NotifyAll
<1>24. ASSUME NEW t \in Threads, Interrupt(t)
      PROVE  TypeOK'
  <2>1. transitioning' \in BOOLEAN
    BY <1>24 DEF Interrupt
  <2>2. asleep' \subseteq Threads
    BY <1>24 DEF Interrupt, NotifyAll
  <2> QED
    BY <1>24, <2>1, <2>2 DEF Interrupt, Return
<1>25. CASE UNCHANGED vars
  BY <1>25 DEF vars
<1> HIDE DEF lifecycle, owned, work, frame, At, Goto, TypeOK, InsideAgrees,
         Places, Reasons, Modes, CounterNames, Count
<1> QED
  BY <1>1, <1>2, <1>3, <1>4, <1>5, <1>6, <1>7, <1>8, <1>9, <1>10, <1>11,
         <1>12, <1>13, <1>14, <1>15, <1>16, <1>17, <1>18, <1>19, <1>20,
         <1>21, <1>22, <1>23, <1>24, <1>25
     DEF Next, Continue, Forward, SetMode, Close, Modes

\* Forwards are counted in and out once.
LEMMA CountStep ==
  ASSUME TypeOK, CountExact, InsideAgrees, [Next]_vars
  PROVE  CountExact'
<1> USE DEF lifecycle, owned, work, frame, At, Goto, TypeOK, CountExact,
         InsideAgrees, InsidePlaces
<1>1. ASSUME NEW t \in Threads, NEW place \in {"forward", "close", "setMode"},
    NEW m \in Modes,
             BeginCall(t, place, m)
      PROVE  CountExact'
  BY <1>1 DEF BeginCall
<1>2. ASSUME NEW t \in Threads, RejectRecursion(t)
      PROVE  CountExact'
  BY <1>2 DEF RejectRecursion, Return
<1>3. ASSUME NEW t \in Threads, BeginForward(t)
      PROVE  CountExact'
  BY <1>3, FS_AddElement DEF BeginForward
<1>4. ASSUME NEW t \in Threads, BeginForwardWaits(t)
      PROVE  CountExact'
  BY <1>4 DEF BeginForwardWaits, Wait
<1>5. ASSUME NEW t \in Threads, BeginForwardRejected(t)
      PROVE  CountExact'
  BY <1>5 DEF BeginForwardRejected, Return, Unavailable
<1>6. ASSUME NEW t \in Threads, Dispatch(t)
      PROVE  CountExact'
  BY <1>6 DEF Dispatch, Enter
<1>7. ASSUME NEW t \in Threads, DispatchTampered(t)
      PROVE  CountExact'
  BY <1>7 DEF DispatchTampered
<1>8. ASSUME NEW t \in Threads, NEW reason \in {"none", "miss"}, Guard(t, reason)
      PROVE  CountExact'
  BY <1>8 DEF Guard, Enter
<1>9. ASSUME NEW t \in Threads, GuardRaises(t)
      PROVE  CountExact'
  BY <1>9 DEF GuardRaises, Record
<1>10. ASSUME NEW t \in Threads, NEW success \in BOOLEAN, Finish(t, success)
      PROVE  CountExact'
  BY <1>10 DEF Finish, Record
<1>11. ASSUME NEW t \in Threads, EndForward(t)
      PROVE  CountExact'
  BY <1>11, FS_RemoveElement DEF EndForward
<1>12. ASSUME NEW t \in Threads, SetModeWaits(t)
      PROVE  CountExact'
  BY <1>12 DEF SetModeWaits, Wait
<1>13. ASSUME NEW t \in Threads, SetModeReturns(t)
      PROVE  CountExact'
  BY <1>13 DEF SetModeReturns, Return
<1>14. ASSUME NEW t \in Threads, SetModeBegins(t)
      PROVE  CountExact'
  BY <1>14 DEF SetModeBegins, Unavailable
<1>15. ASSUME NEW t \in Threads, SetModeDrains(t)
      PROVE  CountExact'
  BY <1>15 DEF SetModeDrains, Wait
<1>16. ASSUME NEW t \in Threads, SetModeEnds(t)
      PROVE  CountExact'
  BY <1>16 DEF SetModeEnds, Return, NotifyAll
<1>17. ASSUME NEW t \in Threads, CloseWaits(t)
      PROVE  CountExact'
  BY <1>17 DEF CloseWaits, Wait
<1>18. ASSUME NEW t \in Threads, CloseAgain(t)
      PROVE  CountExact'
  BY <1>18 DEF CloseAgain, Return
<1>19. ASSUME NEW t \in Threads, CloseBegins(t)
      PROVE  CountExact'
  BY <1>19 DEF CloseBegins
<1>20. ASSUME NEW t \in Threads, CloseDrains(t)
      PROVE  CountExact'
  BY <1>20 DEF CloseDrains, Wait
<1>21. ASSUME NEW t \in Threads, NEW success \in BOOLEAN, CloseDestroys(t, success)
      PROVE  CountExact'
  BY <1>21 DEF CloseDestroys
<1>22. ASSUME NEW t \in Threads, CloseFails(t)
      PROVE  CountExact'
  BY <1>22 DEF CloseFails, Return, NotifyAll
<1>23. ASSUME NEW t \in Threads, CloseEnds(t)
      PROVE  CountExact'
  BY <1>23 DEF CloseEnds, Return, NotifyAll
<1>24. ASSUME NEW t \in Threads, Interrupt(t)
      PROVE  CountExact'
  BY <1>24 DEF Interrupt, Return, NotifyAll
<1>25. CASE UNCHANGED vars
  BY <1>25 DEF vars
<1> HIDE DEF lifecycle, owned, work, frame, At, Goto, TypeOK, CountExact,
         InsideAgrees, InsidePlaces
<1> QED
  BY <1>1, <1>2, <1>3, <1>4, <1>5, <1>6, <1>7, <1>8, <1>9, <1>10, <1>11,
         <1>12, <1>13, <1>14, <1>15, <1>16, <1>17, <1>18, <1>19, <1>20,
         <1>21, <1>22, <1>23, <1>24, <1>25
     DEF Next, Continue, Forward, SetMode, Close, Modes

\* A thread is inside exactly while its call is, nested calls included.
LEMMA InsideStep ==
  ASSUME TypeOK, InsideAgrees, [Next]_vars
  PROVE  InsideAgrees'
<1> USE DEF lifecycle, owned, work, frame, At, Goto, TypeOK, InsideAgrees,
         InsidePlaces, Places
<1>1. ASSUME NEW t \in Threads, NEW place \in {"forward", "close", "setMode"},
    NEW m \in Modes,
             BeginCall(t, place, m)
      PROVE  InsideAgrees'
  BY <1>1 DEF BeginCall
<1>2. ASSUME NEW t \in Threads, RejectRecursion(t)
      PROVE  InsideAgrees'
  BY <1>2 DEF RejectRecursion, Return
<1>3. ASSUME NEW t \in Threads, BeginForward(t)
      PROVE  InsideAgrees'
  BY <1>3 DEF BeginForward, Unavailable
<1>4. ASSUME NEW t \in Threads, BeginForwardWaits(t)
      PROVE  InsideAgrees'
  BY <1>4 DEF BeginForwardWaits, Wait
<1>5. ASSUME NEW t \in Threads, BeginForwardRejected(t)
      PROVE  InsideAgrees'
  BY <1>5 DEF BeginForwardRejected, Return, Unavailable
<1>6. ASSUME NEW t \in Threads, Dispatch(t)
      PROVE  InsideAgrees'
  BY <1>6 DEF Dispatch, Enter
<1>7. ASSUME NEW t \in Threads, DispatchTampered(t)
      PROVE  InsideAgrees'
  BY <1>7 DEF DispatchTampered
<1>8. ASSUME NEW t \in Threads, NEW reason \in {"none", "miss"}, Guard(t, reason)
      PROVE  InsideAgrees'
  BY <1>8 DEF Guard, Enter
<1>9. ASSUME NEW t \in Threads, GuardRaises(t)
      PROVE  InsideAgrees'
  BY <1>9 DEF GuardRaises, Record
<1>10. ASSUME NEW t \in Threads, NEW success \in BOOLEAN, Finish(t, success)
      PROVE  InsideAgrees'
  BY <1>10 DEF Finish, Record
<1>11. ASSUME NEW t \in Threads, EndForward(t)
      PROVE  InsideAgrees'
  BY <1>11 DEF EndForward, Return, NotifyAll
<1>12. ASSUME NEW t \in Threads, SetModeWaits(t)
      PROVE  InsideAgrees'
  BY <1>12 DEF SetModeWaits, Wait
<1>13. ASSUME NEW t \in Threads, SetModeReturns(t)
      PROVE  InsideAgrees'
  BY <1>13 DEF SetModeReturns, Return
<1>14. ASSUME NEW t \in Threads, SetModeBegins(t)
      PROVE  InsideAgrees'
  BY <1>14 DEF SetModeBegins, Unavailable
<1>15. ASSUME NEW t \in Threads, SetModeDrains(t)
      PROVE  InsideAgrees'
  BY <1>15 DEF SetModeDrains, Wait
<1>16. ASSUME NEW t \in Threads, SetModeEnds(t)
      PROVE  InsideAgrees'
  BY <1>16 DEF SetModeEnds, Return, NotifyAll
<1>17. ASSUME NEW t \in Threads, CloseWaits(t)
      PROVE  InsideAgrees'
  BY <1>17 DEF CloseWaits, Wait
<1>18. ASSUME NEW t \in Threads, CloseAgain(t)
      PROVE  InsideAgrees'
  BY <1>18 DEF CloseAgain, Return
<1>19. ASSUME NEW t \in Threads, CloseBegins(t)
      PROVE  InsideAgrees'
  BY <1>19 DEF CloseBegins
<1>20. ASSUME NEW t \in Threads, CloseDrains(t)
      PROVE  InsideAgrees'
  BY <1>20 DEF CloseDrains, Wait
<1>21. ASSUME NEW t \in Threads, NEW success \in BOOLEAN, CloseDestroys(t, success)
      PROVE  InsideAgrees'
  BY <1>21 DEF CloseDestroys
<1>22. ASSUME NEW t \in Threads, CloseFails(t)
      PROVE  InsideAgrees'
  BY <1>22 DEF CloseFails, Return, NotifyAll
<1>23. ASSUME NEW t \in Threads, CloseEnds(t)
      PROVE  InsideAgrees'
  BY <1>23 DEF CloseEnds, Return, NotifyAll
<1>24. ASSUME NEW t \in Threads, Interrupt(t)
      PROVE  InsideAgrees'
  BY <1>24 DEF Interrupt, Return, NotifyAll
<1>25. CASE UNCHANGED vars
  BY <1>25 DEF vars
<1> HIDE DEF lifecycle, owned, work, frame, At, Goto, TypeOK, InsideAgrees,
         InsidePlaces, Places
<1> QED
  BY <1>1, <1>2, <1>3, <1>4, <1>5, <1>6, <1>7, <1>8, <1>9, <1>10, <1>11,
         <1>12, <1>13, <1>14, <1>15, <1>16, <1>17, <1>18, <1>19, <1>20,
         <1>21, <1>22, <1>23, <1>24, <1>25
     DEF Next, Continue, Forward, SetMode, Close, Modes

\* Transitions exclude each other and closes.
LEMMA TransitionStep ==
  ASSUME TypeOK, InsideAgrees, OneTransition, OneClose, [Next]_vars
  PROVE  OneTransition'
<1> USE DEF lifecycle, owned, work, frame, At, Goto, TypeOK, InsideAgrees,
         OneTransition, OneClose, ClosePlaces, Unavailable, Places
<1>1. ASSUME NEW t \in Threads, NEW place \in {"forward", "close", "setMode"},
    NEW m \in Modes,
             BeginCall(t, place, m)
      PROVE  OneTransition'
  BY <1>1 DEF BeginCall
<1>2. ASSUME NEW t \in Threads, RejectRecursion(t)
      PROVE  OneTransition'
  BY <1>2 DEF RejectRecursion, Return
<1>3. ASSUME NEW t \in Threads, BeginForward(t)
      PROVE  OneTransition'
  BY <1>3 DEF BeginForward, Unavailable
<1>4. ASSUME NEW t \in Threads, BeginForwardWaits(t)
      PROVE  OneTransition'
  BY <1>4 DEF BeginForwardWaits, Wait
<1>5. ASSUME NEW t \in Threads, BeginForwardRejected(t)
      PROVE  OneTransition'
  BY <1>5 DEF BeginForwardRejected, Return, Unavailable
<1>6. ASSUME NEW t \in Threads, Dispatch(t)
      PROVE  OneTransition'
  BY <1>6 DEF Dispatch, Enter
<1>7. ASSUME NEW t \in Threads, DispatchTampered(t)
      PROVE  OneTransition'
  BY <1>7 DEF DispatchTampered
<1>8. ASSUME NEW t \in Threads, NEW reason \in {"none", "miss"}, Guard(t, reason)
      PROVE  OneTransition'
  BY <1>8 DEF Guard, Enter
<1>9. ASSUME NEW t \in Threads, GuardRaises(t)
      PROVE  OneTransition'
  BY <1>9 DEF GuardRaises, Record
<1>10. ASSUME NEW t \in Threads, NEW success \in BOOLEAN, Finish(t, success)
      PROVE  OneTransition'
  BY <1>10 DEF Finish, Record
<1>11. ASSUME NEW t \in Threads, EndForward(t)
      PROVE  OneTransition'
  BY <1>11 DEF EndForward, Return, NotifyAll
<1>12. ASSUME NEW t \in Threads, SetModeWaits(t)
      PROVE  OneTransition'
  BY <1>12 DEF SetModeWaits, Wait
<1>13. ASSUME NEW t \in Threads, SetModeReturns(t)
      PROVE  OneTransition'
  BY <1>13 DEF SetModeReturns, Return
<1>14. ASSUME NEW t \in Threads, SetModeBegins(t)
      PROVE  OneTransition'
  BY <1>14 DEF SetModeBegins, Unavailable
<1>15. ASSUME NEW t \in Threads, SetModeDrains(t)
      PROVE  OneTransition'
  BY <1>15 DEF SetModeDrains, Wait
<1>16. ASSUME NEW t \in Threads, SetModeEnds(t)
      PROVE  OneTransition'
  BY <1>16 DEF SetModeEnds, Return, NotifyAll
<1>17. ASSUME NEW t \in Threads, CloseWaits(t)
      PROVE  OneTransition'
  BY <1>17 DEF CloseWaits, Wait
<1>18. ASSUME NEW t \in Threads, CloseAgain(t)
      PROVE  OneTransition'
  BY <1>18 DEF CloseAgain, Return
<1>19. ASSUME NEW t \in Threads, CloseBegins(t)
      PROVE  OneTransition'
  BY <1>19 DEF CloseBegins
<1>20. ASSUME NEW t \in Threads, CloseDrains(t)
      PROVE  OneTransition'
  BY <1>20 DEF CloseDrains, Wait
<1>21. ASSUME NEW t \in Threads, NEW success \in BOOLEAN, CloseDestroys(t, success)
      PROVE  OneTransition'
  BY <1>21 DEF CloseDestroys
<1>22. ASSUME NEW t \in Threads, CloseFails(t)
      PROVE  OneTransition'
  BY <1>22 DEF CloseFails, Return, NotifyAll
<1>23. ASSUME NEW t \in Threads, CloseEnds(t)
      PROVE  OneTransition'
  BY <1>23 DEF CloseEnds, Return, NotifyAll
<1>24. ASSUME NEW t \in Threads, Interrupt(t)
      PROVE  OneTransition'
  BY <1>24 DEF Interrupt, Return, NotifyAll
<1>25. CASE UNCHANGED vars
  BY <1>25 DEF vars
<1> HIDE DEF lifecycle, owned, work, frame, At, Goto, TypeOK, InsideAgrees,
         OneTransition, OneClose, ClosePlaces, Unavailable, Places
<1> QED
  BY <1>1, <1>2, <1>3, <1>4, <1>5, <1>6, <1>7, <1>8, <1>9, <1>10, <1>11,
         <1>12, <1>13, <1>14, <1>15, <1>16, <1>17, <1>18, <1>19, <1>20,
         <1>21, <1>22, <1>23, <1>24, <1>25
     DEF Next, Continue, Forward, SetMode, Close, Modes

\* Closes exclude each other.
LEMMA CloseStep ==
  ASSUME TypeOK, InsideAgrees, OneClose, [Next]_vars
  PROVE  OneClose'
<1> USE DEF lifecycle, owned, work, frame, At, Goto, TypeOK, InsideAgrees,
         OneClose, ClosePlaces, Places
<1>1. ASSUME NEW t \in Threads, NEW place \in {"forward", "close", "setMode"},
    NEW m \in Modes,
             BeginCall(t, place, m)
      PROVE  OneClose'
  BY <1>1 DEF BeginCall
<1>2. ASSUME NEW t \in Threads, RejectRecursion(t)
      PROVE  OneClose'
  BY <1>2 DEF RejectRecursion, Return
<1>3. ASSUME NEW t \in Threads, BeginForward(t)
      PROVE  OneClose'
  BY <1>3 DEF BeginForward, Unavailable
<1>4. ASSUME NEW t \in Threads, BeginForwardWaits(t)
      PROVE  OneClose'
  BY <1>4 DEF BeginForwardWaits, Wait
<1>5. ASSUME NEW t \in Threads, BeginForwardRejected(t)
      PROVE  OneClose'
  BY <1>5 DEF BeginForwardRejected, Return, Unavailable
<1>6. ASSUME NEW t \in Threads, Dispatch(t)
      PROVE  OneClose'
  BY <1>6 DEF Dispatch, Enter
<1>7. ASSUME NEW t \in Threads, DispatchTampered(t)
      PROVE  OneClose'
  BY <1>7 DEF DispatchTampered
<1>8. ASSUME NEW t \in Threads, NEW reason \in {"none", "miss"}, Guard(t, reason)
      PROVE  OneClose'
  BY <1>8 DEF Guard, Enter
<1>9. ASSUME NEW t \in Threads, GuardRaises(t)
      PROVE  OneClose'
  BY <1>9 DEF GuardRaises, Record
<1>10. ASSUME NEW t \in Threads, NEW success \in BOOLEAN, Finish(t, success)
      PROVE  OneClose'
  BY <1>10 DEF Finish, Record
<1>11. ASSUME NEW t \in Threads, EndForward(t)
      PROVE  OneClose'
  BY <1>11 DEF EndForward, Return, NotifyAll
<1>12. ASSUME NEW t \in Threads, SetModeWaits(t)
      PROVE  OneClose'
  BY <1>12 DEF SetModeWaits, Wait
<1>13. ASSUME NEW t \in Threads, SetModeReturns(t)
      PROVE  OneClose'
  BY <1>13 DEF SetModeReturns, Return
<1>14. ASSUME NEW t \in Threads, SetModeBegins(t)
      PROVE  OneClose'
  BY <1>14 DEF SetModeBegins, Unavailable
<1>15. ASSUME NEW t \in Threads, SetModeDrains(t)
      PROVE  OneClose'
  BY <1>15 DEF SetModeDrains, Wait
<1>16. ASSUME NEW t \in Threads, SetModeEnds(t)
      PROVE  OneClose'
  BY <1>16 DEF SetModeEnds, Return, NotifyAll
<1>17. ASSUME NEW t \in Threads, CloseWaits(t)
      PROVE  OneClose'
  BY <1>17 DEF CloseWaits, Wait
<1>18. ASSUME NEW t \in Threads, CloseAgain(t)
      PROVE  OneClose'
  BY <1>18 DEF CloseAgain, Return
<1>19. ASSUME NEW t \in Threads, CloseBegins(t)
      PROVE  OneClose'
  BY <1>19 DEF CloseBegins
<1>20. ASSUME NEW t \in Threads, CloseDrains(t)
      PROVE  OneClose'
  BY <1>20 DEF CloseDrains, Wait
<1>21. ASSUME NEW t \in Threads, NEW success \in BOOLEAN, CloseDestroys(t, success)
      PROVE  OneClose'
  BY <1>21 DEF CloseDestroys
<1>22. ASSUME NEW t \in Threads, CloseFails(t)
      PROVE  OneClose'
  BY <1>22 DEF CloseFails, Return, NotifyAll
<1>23. ASSUME NEW t \in Threads, CloseEnds(t)
      PROVE  OneClose'
  BY <1>23 DEF CloseEnds, Return, NotifyAll
<1>24. ASSUME NEW t \in Threads, Interrupt(t)
      PROVE  OneClose'
  BY <1>24 DEF Interrupt, Return, NotifyAll
<1>25. CASE UNCHANGED vars
  BY <1>25 DEF vars
<1> HIDE DEF lifecycle, owned, work, frame, At, Goto, TypeOK, InsideAgrees,
         OneClose, ClosePlaces, Places
<1> QED
  BY <1>1, <1>2, <1>3, <1>4, <1>5, <1>6, <1>7, <1>8, <1>9, <1>10, <1>11,
         <1>12, <1>13, <1>14, <1>15, <1>16, <1>17, <1>18, <1>19, <1>20,
         <1>21, <1>22, <1>23, <1>24, <1>25
     DEF Next, Continue, Forward, SetMode, Close, Modes

\* The binding goes after the last forward has left, in one close.
LEMMA DrainedStep ==
  ASSUME TypeOK, CountExact, InsideAgrees, OneClose, Drained, [Next]_vars
  PROVE  Drained'
<1> USE DEF lifecycle, owned, work, frame, At, Goto, TypeOK, OneClose,
         Drained, ClosePlaces, Places
<1>1. ASSUME NEW t \in Threads, NEW place \in {"forward", "close", "setMode"},
    NEW m \in Modes,
             BeginCall(t, place, m)
      PROVE  Drained'
  BY <1>1 DEF BeginCall
<1>2. ASSUME NEW t \in Threads, RejectRecursion(t)
      PROVE  Drained'
  BY <1>2 DEF RejectRecursion, Return
<1>3. ASSUME NEW t \in Threads, BeginForward(t)
      PROVE  Drained'
  BY <1>3 DEF BeginForward, Unavailable
<1>4. ASSUME NEW t \in Threads, BeginForwardWaits(t)
      PROVE  Drained'
  BY <1>4 DEF BeginForwardWaits, Wait
<1>5. ASSUME NEW t \in Threads, BeginForwardRejected(t)
      PROVE  Drained'
  BY <1>5 DEF BeginForwardRejected, Return, Unavailable
<1>6. ASSUME NEW t \in Threads, Dispatch(t)
      PROVE  Drained'
  BY <1>6 DEF Dispatch, Enter
<1>7. ASSUME NEW t \in Threads, DispatchTampered(t)
      PROVE  Drained'
  BY <1>7 DEF DispatchTampered
<1>8. ASSUME NEW t \in Threads, NEW reason \in {"none", "miss"}, Guard(t, reason)
      PROVE  Drained'
  BY <1>8 DEF Guard, Enter
<1>9. ASSUME NEW t \in Threads, GuardRaises(t)
      PROVE  Drained'
  BY <1>9 DEF GuardRaises, Record
<1>10. ASSUME NEW t \in Threads, NEW success \in BOOLEAN, Finish(t, success)
      PROVE  Drained'
  BY <1>10 DEF Finish, Record
<1>11. ASSUME NEW t \in Threads, EndForward(t)
      PROVE  Drained'
  BY <1>11 DEF EndForward, Return, NotifyAll
<1>12. ASSUME NEW t \in Threads, SetModeWaits(t)
      PROVE  Drained'
  BY <1>12 DEF SetModeWaits, Wait
<1>13. ASSUME NEW t \in Threads, SetModeReturns(t)
      PROVE  Drained'
  BY <1>13 DEF SetModeReturns, Return
<1>14. ASSUME NEW t \in Threads, SetModeBegins(t)
      PROVE  Drained'
  BY <1>14 DEF SetModeBegins, Unavailable
<1>15. ASSUME NEW t \in Threads, SetModeDrains(t)
      PROVE  Drained'
  BY <1>15 DEF SetModeDrains, Wait
<1>16. ASSUME NEW t \in Threads, SetModeEnds(t)
      PROVE  Drained'
  BY <1>16 DEF SetModeEnds, Return, NotifyAll
<1>17. ASSUME NEW t \in Threads, CloseWaits(t)
      PROVE  Drained'
  BY <1>17 DEF CloseWaits, Wait
<1>18. ASSUME NEW t \in Threads, CloseAgain(t)
      PROVE  Drained'
  BY <1>18 DEF CloseAgain, Return
<1>19. ASSUME NEW t \in Threads, CloseBegins(t)
      PROVE  Drained'
  BY <1>19 DEF CloseBegins
<1>20. ASSUME NEW t \in Threads, CloseDrains(t)
      PROVE  Drained'
  BY <1>20 DEF CloseDrains, Wait
<1>21. ASSUME NEW t \in Threads, NEW success \in BOOLEAN, CloseDestroys(t, success)
      PROVE  Drained'
  BY <1>21, NobodyInside DEF CloseDestroys
<1>22. ASSUME NEW t \in Threads, CloseFails(t)
      PROVE  Drained'
  BY <1>22 DEF CloseFails, Return, NotifyAll
<1>23. ASSUME NEW t \in Threads, CloseEnds(t)
      PROVE  Drained'
  BY <1>23 DEF CloseEnds, Return, NotifyAll
<1>24. ASSUME NEW t \in Threads, Interrupt(t)
      PROVE  Drained'
  BY <1>24 DEF Interrupt, Return, NotifyAll, InsideAgrees
<1>25. CASE UNCHANGED vars
  BY <1>25 DEF vars
<1> HIDE DEF lifecycle, owned, work, frame, At, Goto, TypeOK, OneClose,
         Drained, ClosePlaces, Places
<1> QED
  BY <1>1, <1>2, <1>3, <1>4, <1>5, <1>6, <1>7, <1>8, <1>9, <1>10, <1>11,
         <1>12, <1>13, <1>14, <1>15, <1>16, <1>17, <1>18, <1>19, <1>20,
         <1>21, <1>22, <1>23, <1>24, <1>25
     DEF Next, Continue, Forward, SetMode, Close, Modes

\* The adapter forgets its binding when the registry has destroyed it.
LEMMA OwnershipStep ==
  ASSUME TypeOK, Drained, OwnershipRetained, [Next]_vars
  PROVE  OwnershipRetained'
<1> USE DEF lifecycle, owned, work, frame, At, Goto, TypeOK, Drained,
         OwnershipRetained, Places
<1>1. ASSUME NEW t \in Threads, NEW place \in {"forward", "close", "setMode"},
    NEW m \in Modes,
             BeginCall(t, place, m)
      PROVE  OwnershipRetained'
  BY <1>1 DEF BeginCall
<1>2. ASSUME NEW t \in Threads, RejectRecursion(t)
      PROVE  OwnershipRetained'
  BY <1>2 DEF RejectRecursion, Return
<1>3. ASSUME NEW t \in Threads, BeginForward(t)
      PROVE  OwnershipRetained'
  BY <1>3 DEF BeginForward, Unavailable
<1>4. ASSUME NEW t \in Threads, BeginForwardWaits(t)
      PROVE  OwnershipRetained'
  BY <1>4 DEF BeginForwardWaits, Wait
<1>5. ASSUME NEW t \in Threads, BeginForwardRejected(t)
      PROVE  OwnershipRetained'
  BY <1>5 DEF BeginForwardRejected, Return, Unavailable
<1>6. ASSUME NEW t \in Threads, Dispatch(t)
      PROVE  OwnershipRetained'
  BY <1>6 DEF Dispatch, Enter
<1>7. ASSUME NEW t \in Threads, DispatchTampered(t)
      PROVE  OwnershipRetained'
  BY <1>7 DEF DispatchTampered
<1>8. ASSUME NEW t \in Threads, NEW reason \in {"none", "miss"}, Guard(t, reason)
      PROVE  OwnershipRetained'
  BY <1>8 DEF Guard, Enter
<1>9. ASSUME NEW t \in Threads, GuardRaises(t)
      PROVE  OwnershipRetained'
  BY <1>9 DEF GuardRaises, Record
<1>10. ASSUME NEW t \in Threads, NEW success \in BOOLEAN, Finish(t, success)
      PROVE  OwnershipRetained'
  BY <1>10 DEF Finish, Record
<1>11. ASSUME NEW t \in Threads, EndForward(t)
      PROVE  OwnershipRetained'
  BY <1>11 DEF EndForward, Return, NotifyAll
<1>12. ASSUME NEW t \in Threads, SetModeWaits(t)
      PROVE  OwnershipRetained'
  BY <1>12 DEF SetModeWaits, Wait
<1>13. ASSUME NEW t \in Threads, SetModeReturns(t)
      PROVE  OwnershipRetained'
  BY <1>13 DEF SetModeReturns, Return
<1>14. ASSUME NEW t \in Threads, SetModeBegins(t)
      PROVE  OwnershipRetained'
  BY <1>14 DEF SetModeBegins, Unavailable
<1>15. ASSUME NEW t \in Threads, SetModeDrains(t)
      PROVE  OwnershipRetained'
  BY <1>15 DEF SetModeDrains, Wait
<1>16. ASSUME NEW t \in Threads, SetModeEnds(t)
      PROVE  OwnershipRetained'
  BY <1>16 DEF SetModeEnds, Return, NotifyAll
<1>17. ASSUME NEW t \in Threads, CloseWaits(t)
      PROVE  OwnershipRetained'
  BY <1>17 DEF CloseWaits, Wait
<1>18. ASSUME NEW t \in Threads, CloseAgain(t)
      PROVE  OwnershipRetained'
  BY <1>18 DEF CloseAgain, Return
<1>19. ASSUME NEW t \in Threads, CloseBegins(t)
      PROVE  OwnershipRetained'
  BY <1>19 DEF CloseBegins
<1>20. ASSUME NEW t \in Threads, CloseDrains(t)
      PROVE  OwnershipRetained'
  BY <1>20 DEF CloseDrains, Wait
<1>21. ASSUME NEW t \in Threads, NEW success \in BOOLEAN, CloseDestroys(t, success)
      PROVE  OwnershipRetained'
  BY <1>21 DEF CloseDestroys
<1>22. ASSUME NEW t \in Threads, CloseFails(t)
      PROVE  OwnershipRetained'
  BY <1>22 DEF CloseFails, Return, NotifyAll
<1>23. ASSUME NEW t \in Threads, CloseEnds(t)
      PROVE  OwnershipRetained'
  BY <1>23 DEF CloseEnds, Return, NotifyAll
<1>24. ASSUME NEW t \in Threads, Interrupt(t)
      PROVE  OwnershipRetained'
  BY <1>24 DEF Interrupt, Return, NotifyAll
<1>25. CASE UNCHANGED vars
  BY <1>25 DEF vars
<1> HIDE DEF lifecycle, owned, work, frame, At, Goto, TypeOK, Drained,
         OwnershipRetained, Places
<1> QED
  BY <1>1, <1>2, <1>3, <1>4, <1>5, <1>6, <1>7, <1>8, <1>9, <1>10, <1>11,
         <1>12, <1>13, <1>14, <1>15, <1>16, <1>17, <1>18, <1>19, <1>20,
         <1>21, <1>22, <1>23, <1>24, <1>25
     DEF Next, Continue, Forward, SetMode, Close, Modes

\* The mode changes while nobody is inside.
LEMMA ModeStep ==
  ASSUME TypeOK, CountExact, OneModeInside, [Next]_vars
  PROVE  OneModeInside'
<1> USE DEF lifecycle, owned, work, frame, At, Goto, TypeOK, OneModeInside
<1>1. ASSUME NEW t \in Threads, NEW place \in {"forward", "close", "setMode"},
    NEW m \in Modes,
             BeginCall(t, place, m)
      PROVE  OneModeInside'
  BY <1>1 DEF BeginCall
<1>2. ASSUME NEW t \in Threads, RejectRecursion(t)
      PROVE  OneModeInside'
  BY <1>2 DEF RejectRecursion, Return
<1>3. ASSUME NEW t \in Threads, BeginForward(t)
      PROVE  OneModeInside'
  BY <1>3 DEF BeginForward, Unavailable
<1>4. ASSUME NEW t \in Threads, BeginForwardWaits(t)
      PROVE  OneModeInside'
  BY <1>4 DEF BeginForwardWaits, Wait
<1>5. ASSUME NEW t \in Threads, BeginForwardRejected(t)
      PROVE  OneModeInside'
  BY <1>5 DEF BeginForwardRejected, Return, Unavailable
<1>6. ASSUME NEW t \in Threads, Dispatch(t)
      PROVE  OneModeInside'
  BY <1>6 DEF Dispatch, Enter
<1>7. ASSUME NEW t \in Threads, DispatchTampered(t)
      PROVE  OneModeInside'
  BY <1>7 DEF DispatchTampered
<1>8. ASSUME NEW t \in Threads, NEW reason \in {"none", "miss"}, Guard(t, reason)
      PROVE  OneModeInside'
  BY <1>8 DEF Guard, Enter
<1>9. ASSUME NEW t \in Threads, GuardRaises(t)
      PROVE  OneModeInside'
  BY <1>9 DEF GuardRaises, Record
<1>10. ASSUME NEW t \in Threads, NEW success \in BOOLEAN, Finish(t, success)
      PROVE  OneModeInside'
  BY <1>10 DEF Finish, Record
<1>11. ASSUME NEW t \in Threads, EndForward(t)
      PROVE  OneModeInside'
  BY <1>11 DEF EndForward, Return, NotifyAll
<1>12. ASSUME NEW t \in Threads, SetModeWaits(t)
      PROVE  OneModeInside'
  BY <1>12 DEF SetModeWaits, Wait
<1>13. ASSUME NEW t \in Threads, SetModeReturns(t)
      PROVE  OneModeInside'
  BY <1>13 DEF SetModeReturns, Return
<1>14. ASSUME NEW t \in Threads, SetModeBegins(t)
      PROVE  OneModeInside'
  BY <1>14 DEF SetModeBegins, Unavailable
<1>15. ASSUME NEW t \in Threads, SetModeDrains(t)
      PROVE  OneModeInside'
  BY <1>15 DEF SetModeDrains, Wait
<1>16. ASSUME NEW t \in Threads, SetModeEnds(t)
      PROVE  OneModeInside'
  BY <1>16, NobodyInside DEF SetModeEnds
<1>17. ASSUME NEW t \in Threads, CloseWaits(t)
      PROVE  OneModeInside'
  BY <1>17 DEF CloseWaits, Wait
<1>18. ASSUME NEW t \in Threads, CloseAgain(t)
      PROVE  OneModeInside'
  BY <1>18 DEF CloseAgain, Return
<1>19. ASSUME NEW t \in Threads, CloseBegins(t)
      PROVE  OneModeInside'
  BY <1>19 DEF CloseBegins
<1>20. ASSUME NEW t \in Threads, CloseDrains(t)
      PROVE  OneModeInside'
  BY <1>20 DEF CloseDrains, Wait
<1>21. ASSUME NEW t \in Threads, NEW success \in BOOLEAN, CloseDestroys(t, success)
      PROVE  OneModeInside'
  BY <1>21 DEF CloseDestroys
<1>22. ASSUME NEW t \in Threads, CloseFails(t)
      PROVE  OneModeInside'
  BY <1>22 DEF CloseFails, Return, NotifyAll
<1>23. ASSUME NEW t \in Threads, CloseEnds(t)
      PROVE  OneModeInside'
  BY <1>23 DEF CloseEnds, Return, NotifyAll
<1>24. ASSUME NEW t \in Threads, Interrupt(t)
      PROVE  OneModeInside'
  BY <1>24 DEF Interrupt, Return, NotifyAll
<1>25. CASE UNCHANGED vars
  BY <1>25 DEF vars
<1> HIDE DEF lifecycle, owned, work, frame, At, Goto, TypeOK, OneModeInside
<1> QED
  BY <1>1, <1>2, <1>3, <1>4, <1>5, <1>6, <1>7, <1>8, <1>9, <1>10, <1>11,
         <1>12, <1>13, <1>14, <1>15, <1>16, <1>17, <1>18, <1>19, <1>20,
         <1>21, <1>22, <1>23, <1>24, <1>25
     DEF Next, Continue, Forward, SetMode, Close, Modes

\* The invariant holds of every reachable state.
THEOREM InductiveInvariant == Spec => []Inductive
<1>1. Init => Inductive
  <2> SUFFICES ASSUME Init PROVE Inductive
    OBVIOUS
  <2>1. TypeOK
    <3>1. /\ counters \in [CounterNames -> Nat] /\ ran \in [{"native", "fallback"} -> Nat]
          /\ calls \in [Threads -> Nat] /\ inFlight \in Nat
      BY AdapterAssumption DEF Init
    <3>2. /\ pc \in [Threads -> Places] /\ wants \in [Threads -> Modes]
          /\ callMode \in [Threads -> Modes] /\ mode \in Modes
          /\ lastReason \in Reasons /\ lastGuardReason \in Reasons
      BY DEF Init, Places, Modes, Reasons
    <3>3. nested \in [Threads -> BOOLEAN]
      BY Zenon DEF Init
    <3> QED
      BY <3>1, <3>2, <3>3 DEF Init, TypeOK
  <2>2. CountExact
    BY FS_EmptySet DEF Init, CountExact
  <2>3. InsideAgrees /\ OneTransition /\ OneClose
    BY DEF Init, InsideAgrees, InsidePlaces, OneTransition, OneClose, ClosePlaces, Unavailable
  <2>4. Drained /\ OwnershipRetained /\ OneModeInside
    BY DEF Init, Drained, OwnershipRetained, OneModeInside
  <2> QED
    BY <2>1, <2>2, <2>3, <2>4 DEF Inductive
<1>2. Inductive /\ [Next]_vars => Inductive'
  BY TypeStep, CountStep, InsideStep, TransitionStep, CloseStep, DrainedStep, OwnershipStep,
     ModeStep DEF Inductive
<1> QED
  BY <1>1, <1>2, PTL DEF Spec

\* No reachable state has a variable out of its type: the count of forwards
\* does not drop below zero, whatever the interleaving.
THEOREM TypeCorrect == Spec => []TypeOK
BY InductiveInvariant, PTL DEF Inductive

\* close waits for every admitted forward: while one is inside, its native
\* binding is there and the adapter does not report closed.
THEOREM ForwardsKeepTheirBinding == Spec => []CloseWaitsForForwards
<1>1. Inductive => CloseWaitsForForwards
  BY DEF Inductive, TypeOK, Drained, OwnershipRetained, CloseWaitsForForwards
<1> QED
  BY <1>1, InductiveInvariant, PTL

\* set_execution_mode waits for every admitted forward: all of them run under
\* the mode that the adapter reports.
THEOREM ModeIsUniform == Spec => []OneModeInside
BY InductiveInvariant, PTL DEF Inductive

\* A failed close keeps its binding; a closed adapter has none that lives.
THEOREM NothingForgotten == Spec => []OwnershipRetained
BY InductiveInvariant, PTL DEF Inductive

\* Every step of the adapter is a step of the admission gate, or none.
LEMMA GateStep ==
  ASSUME TypeOK, CountExact, InsideAgrees, OneTransition, OneClose, Drained, [Next]_vars
  PROVE  [Gate!Next]_(Gate!gateVars)
<1> USE DEF lifecycle, owned, work, frame, At, Goto, TypeOK, Unavailable,
         Gate!gateVars
<1>1. ASSUME NEW t \in Threads, NEW place \in {"forward", "close", "setMode"},
    NEW m \in Modes,
             BeginCall(t, place, m)
      PROVE  [Gate!Next]_(Gate!gateVars)
  BY <1>1 DEF BeginCall
<1>2. ASSUME NEW t \in Threads, RejectRecursion(t)
      PROVE  [Gate!Next]_(Gate!gateVars)
  BY <1>2 DEF RejectRecursion, Return
<1>3. ASSUME NEW t \in Threads, BeginForward(t)
      PROVE  [Gate!Next]_(Gate!gateVars)
  BY <1>3 DEF BeginForward, Drained, OneClose, Gate!Next, Gate!Enter
<1>4. ASSUME NEW t \in Threads, BeginForwardWaits(t)
      PROVE  [Gate!Next]_(Gate!gateVars)
  BY <1>4 DEF BeginForwardWaits, Wait
<1>5. ASSUME NEW t \in Threads, BeginForwardRejected(t)
      PROVE  [Gate!Next]_(Gate!gateVars)
  BY <1>5 DEF BeginForwardRejected, Return, Unavailable
<1>6. ASSUME NEW t \in Threads, Dispatch(t)
      PROVE  [Gate!Next]_(Gate!gateVars)
  BY <1>6 DEF Dispatch, Enter
<1>7. ASSUME NEW t \in Threads, DispatchTampered(t)
      PROVE  [Gate!Next]_(Gate!gateVars)
  BY <1>7 DEF DispatchTampered
<1>8. ASSUME NEW t \in Threads, NEW reason \in {"none", "miss"}, Guard(t, reason)
      PROVE  [Gate!Next]_(Gate!gateVars)
  BY <1>8 DEF Guard, Enter
<1>9. ASSUME NEW t \in Threads, GuardRaises(t)
      PROVE  [Gate!Next]_(Gate!gateVars)
  BY <1>9 DEF GuardRaises, Record
<1>10. ASSUME NEW t \in Threads, NEW success \in BOOLEAN, Finish(t, success)
      PROVE  [Gate!Next]_(Gate!gateVars)
  BY <1>10 DEF Finish, Record
<1>11. ASSUME NEW t \in Threads, EndForward(t)
      PROVE  [Gate!Next]_(Gate!gateVars)
  BY <1>11 DEF EndForward, InsideAgrees, InsidePlaces, Gate!Next, Gate!Leave
<1>12. ASSUME NEW t \in Threads, SetModeWaits(t)
      PROVE  [Gate!Next]_(Gate!gateVars)
  BY <1>12 DEF SetModeWaits, Wait
<1>13. ASSUME NEW t \in Threads, SetModeReturns(t)
      PROVE  [Gate!Next]_(Gate!gateVars)
  BY <1>13 DEF SetModeReturns, Return
<1>14. ASSUME NEW t \in Threads, SetModeBegins(t)
      PROVE  [Gate!Next]_(Gate!gateVars)
  BY <1>14 DEF SetModeBegins, Unavailable
<1>15. ASSUME NEW t \in Threads, SetModeDrains(t)
      PROVE  [Gate!Next]_(Gate!gateVars)
  BY <1>15 DEF SetModeDrains, Wait
<1>16. ASSUME NEW t \in Threads, SetModeEnds(t)
      PROVE  [Gate!Next]_(Gate!gateVars)
  BY <1>16, NobodyInside DEF SetModeEnds, OneTransition, Gate!Next, Gate!ChangeMode
<1>17. ASSUME NEW t \in Threads, CloseWaits(t)
      PROVE  [Gate!Next]_(Gate!gateVars)
  BY <1>17 DEF CloseWaits, Wait
<1>18. ASSUME NEW t \in Threads, CloseAgain(t)
      PROVE  [Gate!Next]_(Gate!gateVars)
  BY <1>18 DEF CloseAgain, Return
<1>19. ASSUME NEW t \in Threads, CloseBegins(t)
      PROVE  [Gate!Next]_(Gate!gateVars)
  BY <1>19 DEF CloseBegins, Gate!Next, Gate!Shut
<1>20. ASSUME NEW t \in Threads, CloseDrains(t)
      PROVE  [Gate!Next]_(Gate!gateVars)
  BY <1>20 DEF CloseDrains, Wait
<1>21. ASSUME NEW t \in Threads, NEW success \in BOOLEAN, CloseDestroys(t, success)
      PROVE  [Gate!Next]_(Gate!gateVars)
  BY <1>21, NobodyInside DEF CloseDestroys, OneClose, ClosePlaces, Gate!Next, Gate!GiveBack
<1>22. ASSUME NEW t \in Threads, CloseFails(t)
      PROVE  [Gate!Next]_(Gate!gateVars)
  BY <1>22 DEF CloseFails, OneClose, ClosePlaces
<1>23. ASSUME NEW t \in Threads, CloseEnds(t)
      PROVE  [Gate!Next]_(Gate!gateVars)
  BY <1>23 DEF CloseEnds, OneClose, ClosePlaces, Drained, Gate!Next, Gate!Close
<1>24. ASSUME NEW t \in Threads, Interrupt(t)
      PROVE  [Gate!Next]_(Gate!gateVars)
  BY <1>24 DEF Interrupt, Return, NotifyAll
<1>25. CASE UNCHANGED vars
  BY <1>25 DEF vars
<1> HIDE DEF lifecycle, owned, work, frame, At, Goto, TypeOK, Unavailable,
         Gate!gateVars
<1> QED
  BY <1>1, <1>2, <1>3, <1>4, <1>5, <1>6, <1>7, <1>8, <1>9, <1>10, <1>11,
         <1>12, <1>13, <1>14, <1>15, <1>16, <1>17, <1>18, <1>19, <1>20,
         <1>21, <1>22, <1>23, <1>24, <1>25
     DEF Next, Continue, Forward, SetMode, Close, Modes

\* The adapter implements the admission gate for any number of threads.
THEOREM AdapterIsAGate == Spec => Implements
<1>1. Init => Gate!Init
  BY DEF Init, Gate!Init, Unavailable
<1>2. Inductive /\ [Next]_vars => [Gate!Next]_(Gate!gateVars)
  BY GateStep DEF Inductive
<1> QED
  BY <1>1, <1>2, InductiveInvariant, PTL DEF Spec, Implements, Gate!Spec

\* Once a close has begun no forward is admitted, however the close ends.
THEOREM NoAdmissionAfterClose == Spec => NeverReopened
<1>1. ASSUME Inductive, [Next]_vars
      PROVE  [Unavailable => Unavailable' /\ forwardThreads' \subseteq forwardThreads]_vars
  <2>1. [Gate!Next]_(Gate!gateVars)
    BY <1>1, GateStep DEF Inductive
  <2> QED
    BY <2>1 DEF Gate!Next, Gate!Enter, Gate!Leave, Gate!ChangeMode, Gate!Shut, Gate!GiveBack,
       Gate!Close, Gate!gateVars, Unavailable
<1> QED
  BY <1>1, InductiveInvariant, PTL DEF Spec, NeverReopened

-----------------------------------------------------------------------------
(* The counters.  One dispatch lock serialises the work, so that between   *)
(* entering a path and counting it at most one call is on its way, and the *)
(* reason that tells its path is still its own.                            *)

InNative(t) == pc[t] = "native" \/ nested[t]
Working(t) == pc[t] \in {"guard", "fallback"} \/ InNative(t)

\* Who works holds the lock, and its path is what Finish will read it to be.
Serialised ==
  \A t \in Threads :
    /\ Working(t) <=> dispatch = t
    /\ pc[t] = "guard" => callMode[t] = "hybrid_native"
    /\ InNative(t) => callMode[t] = "hybrid_native" /\ lastReason = "none"
    /\ pc[t] = "fallback" => callMode[t] = "same_q8_reference" \/ lastReason # "none"

\* Every entry into a path is counted but the one in progress.
Counted ==
  /\ (\A t \in Threads : ~InNative(t)) => ran["native"] = counters["nativeAttempt"]
  /\ (\E t \in Threads : InNative(t)) => ran["native"] = counters["nativeAttempt"] + 1
  /\ (\A t \in Threads : pc[t] # "fallback") => counters["fallbackAttempt"] >= ran["fallback"]
  /\ counters["fallbackAttempt"] + 1 >= ran["fallback"]

\* Every attempt has one outcome, and every forward one path.
Partition ==
  /\ counters["nativeAttempt"] = counters["nativeSuccess"] + counters["nativeError"]
  /\ counters["forward"] = counters["nativeAttempt"] + counters["fallbackAttempt"]
                           + counters["predispatchError"]

Honest == Serialised /\ Counted /\ Partition

\* What counting does to each counter.
LEMMA CountAt ==
  ASSUME TypeOK, NEW names \in SUBSET CounterNames, Count(names)
  PROVE  \A c \in CounterNames :
           counters'[c] = IF c \in names THEN counters[c] + 1 ELSE counters[c]
BY DEF Count, TypeOK

\* The counters are numbers, each at its name.
LEMMA CountersAreNumbers ==
  ASSUME TypeOK
  PROVE  /\ \A c \in CounterNames : counters[c] \in Nat
         /\ ran["native"] \in Nat /\ ran["fallback"] \in Nat
         /\ {"forward", "nativeAttempt", "nativeSuccess", "nativeError", "fallbackAttempt",
             "predispatchError"} \subseteq CounterNames
BY DEF TypeOK, CounterNames

\* A step that neither enters nor leaves a path, nor counts one, changes nothing of this.
LEMMA Elsewhere ==
  ASSUME Honest, UNCHANGED <<dispatch, lastReason, ran>>,
         \A c \in CounterNames \ {"rejectedClosed"} : counters'[c] = counters[c],
         \A t \in Threads :
           /\ pc'[t] = "guard" <=> pc[t] = "guard"
           /\ pc'[t] = "fallback" <=> pc[t] = "fallback"
           /\ InNative(t)' <=> InNative(t)
           /\ Working(t) => callMode'[t] = callMode[t]
  PROVE  Honest'
<1>1. \A t \in Threads : Working(t)' <=> Working(t)
  BY DEF Working
<1>2. Serialised'
  BY <1>1 DEF Honest, Serialised, Working
<1>3. counters'["nativeAttempt"] = counters["nativeAttempt"]
      /\ counters'["fallbackAttempt"] = counters["fallbackAttempt"]
      /\ counters'["nativeSuccess"] = counters["nativeSuccess"]
      /\ counters'["nativeError"] = counters["nativeError"]
      /\ counters'["forward"] = counters["forward"]
      /\ counters'["predispatchError"] = counters["predispatchError"]
  BY DEF CounterNames
<1>4. Counted'
  BY <1>3 DEF Honest, Counted
<1>5. Partition'
  BY <1>3 DEF Honest, Partition
<1>. QED BY <1>2, <1>4, <1>5 DEF Honest

\* A call that returns is back in the native path if it was made from there.
LEMMA ReturnElsewhere ==
  ASSUME TypeOK, InsideAgrees, NEW t \in Threads, Return(t),
         pc[t] \notin {"guard", "fallback", "native"}
  PROVE  \A u \in Threads :
           /\ pc'[u] = "guard" <=> pc[u] = "guard"
           /\ pc'[u] = "fallback" <=> pc[u] = "fallback"
           /\ InNative(u)' <=> InNative(u)
<1>1. pc' = [pc EXCEPT ![t] = IF nested[t] THEN "native" ELSE "idle"]
  BY DEF Return
<1>2. nested' = [nested EXCEPT ![t] = FALSE]
  BY DEF Return
<1>3. SUFFICES ASSUME NEW u \in Threads
               PROVE  /\ pc'[u] = "guard" <=> pc[u] = "guard"
                      /\ pc'[u] = "fallback" <=> pc[u] = "fallback"
                      /\ InNative(u)' <=> InNative(u)
  OBVIOUS
<1>4. CASE u = t
  <2>1. pc'[t] = (IF nested[t] THEN "native" ELSE "idle") /\ ~nested'[t]
    BY <1>1, <1>2 DEF TypeOK
  <2>. QED BY <1>4, <2>1 DEF InNative
<1>5. CASE u # t
  BY <1>1, <1>2, <1>5 DEF TypeOK, InNative
<1>. QED BY <1>4, <1>5

\* The same for a call that goes on elsewhere.
LEMMA GotoElsewhere ==
  ASSUME TypeOK, NEW t \in Threads, NEW place \in Places \ {"guard", "fallback", "native"},
         pc[t] \notin {"guard", "fallback", "native"},
         pc' = [pc EXCEPT ![t] = place], nested' = nested
  PROVE  \A u \in Threads :
           /\ pc'[u] = "guard" <=> pc[u] = "guard"
           /\ pc'[u] = "fallback" <=> pc[u] = "fallback"
           /\ InNative(u)' <=> InNative(u)
BY DEF TypeOK, InNative

\* The lock is free, so that nobody is on any path.
LEMMA NobodyWorks ==
  ASSUME Serialised, dispatch = None
  PROVE  \A u \in Threads : ~Working(u)
BY AdapterAssumption DEF Serialised

\* Who works is alone.
LEMMA WorksAlone ==
  ASSUME Serialised, NEW t \in Threads, Working(t)
  PROVE  dispatch = t /\ \A u \in Threads \ {t} : ~Working(u)
BY DEF Serialised

\* Taking the lock: a fallback is entered at once, the native path is guarded first.
LEMMA DispatchHonest ==
  ASSUME TypeOK, InsideAgrees, Honest, NEW t \in Threads, Dispatch(t)
  PROVE  Honest'
<1>1. /\ dispatch = None /\ dispatch' = t /\ pc[t] = "dispatch"
      /\ UNCHANGED <<nested, callMode, counters, lastReason>>
  BY DEF Dispatch, At, Enter, Goto, frame
<1>2. (\A u \in Threads : ~Working(u)) /\ ~nested[t]
  BY <1>1, NobodyWorks DEF Honest, InsideAgrees
<1>3. \/ callMode[t] = "same_q8_reference" /\ pc' = [pc EXCEPT ![t] = "fallback"]
         /\ ran' = [ran EXCEPT !["fallback"] = @ + 1]
      \/ callMode[t] = "hybrid_native" /\ pc' = [pc EXCEPT ![t] = "guard"] /\ ran' = ran
  BY DEF Dispatch, Enter, Goto, TypeOK, Modes
<1>4. \A u \in Threads : pc'[u] = IF u = t THEN pc'[t] ELSE pc[u]
  BY <1>3 DEF TypeOK
<1>5. \A u \in Threads : ~InNative(u) /\ ~InNative(u)' /\ (u # t => ~Working(u)')
  BY <1>1, <1>2, <1>3, <1>4 DEF InNative, Working, TypeOK
<1>6. pc'[t] \in {"fallback", "guard"} /\ Working(t)'
  BY <1>3 DEF TypeOK, Working
<1>7. Serialised'
  BY <1>1, <1>3, <1>4, <1>5, <1>6 DEF Serialised, Working, TypeOK
<1>8. Counted'
  <2>1. /\ ran'["native"] = ran["native"]
        /\ ran'["fallback"] \in {ran["fallback"], ran["fallback"] + 1}
        /\ (ran'["fallback"] = ran["fallback"] \/ pc'[t] = "fallback")
    BY <1>3 DEF TypeOK
  <2>2. \A u \in Threads : pc[u] # "fallback"
    BY <1>2 DEF Working
  <2>. QED BY <1>1, <1>5, <2>1, <2>2, CountersAreNumbers DEF Honest, Counted
<1>. QED BY <1>1, <1>7, <1>8 DEF Honest, Partition

\* A tampered fallback is a forward that enters no path.
LEMMA TamperedHonest ==
  ASSUME TypeOK, InsideAgrees, Honest, NEW t \in Threads, DispatchTampered(t)
  PROVE  Honest'
<1>1. /\ dispatch = None /\ pc[t] = "dispatch" /\ pc' = [pc EXCEPT ![t] = "leave"]
      /\ UNCHANGED <<nested, callMode, lastReason, dispatch, ran>>
  BY DEF DispatchTampered, At, Goto, frame
<1>2. \A u \in Threads : /\ pc'[u] = "guard" <=> pc[u] = "guard"
                         /\ pc'[u] = "fallback" <=> pc[u] = "fallback"
                         /\ InNative(u)' <=> InNative(u)
  BY <1>1, GotoElsewhere DEF Places
<1>3. Serialised'
  BY <1>1, <1>2 DEF Honest, Serialised, Working
<1>4. {"forward", "predispatchError"} \in SUBSET CounterNames
  BY DEF CounterNames
<1>5. \A c \in CounterNames :
        counters'[c] = IF c \in {"forward", "predispatchError"} THEN counters[c] + 1
                                                               ELSE counters[c]
  BY <1>4, CountAt DEF DispatchTampered
<1>6. Counted'
  BY <1>1, <1>2, <1>5, CountersAreNumbers DEF Honest, Counted
<1>7. Partition'
  BY <1>5, CountersAreNumbers DEF Honest, Partition
<1>. QED BY <1>3, <1>6, <1>7 DEF Honest

\* A guard decides which path is entered, and the reason says which it was.
LEMMA GuardHonest ==
  ASSUME TypeOK, InsideAgrees, Honest, NEW t \in Threads, NEW reason \in {"none", "miss"},
         Guard(t, reason)
  PROVE  Honest'
<1>1. /\ pc[t] = "guard" /\ lastReason' = reason
      /\ UNCHANGED <<nested, callMode, counters, dispatch>>
  BY DEF Guard, At, Enter, Goto, frame
<1>2. /\ dispatch = t /\ (\A u \in Threads \ {t} : ~Working(u)) /\ ~nested[t]
      /\ callMode[t] = "hybrid_native"
  BY <1>1, WorksAlone DEF Honest, InsideAgrees, Working, Serialised
<1>. DEFINE path == IF reason = "none" THEN "native" ELSE "fallback"
<1>3. pc' = [pc EXCEPT ![t] = path] /\ ran' = [ran EXCEPT ![path] = @ + 1]
  BY DEF Guard, Enter, Goto
<1>4. \A u \in Threads : pc'[u] = IF u = t THEN path ELSE pc[u]
  BY <1>3 DEF TypeOK
<1>5. \A u \in Threads \ {t} : ~Working(u)' /\ ~InNative(u)' /\ pc[u] # "fallback" /\ ~InNative(u)
  BY <1>1, <1>2, <1>4 DEF Working, InNative
<1>6. (InNative(t)' <=> reason = "none") /\ Working(t)' /\ ~InNative(t)
  BY <1>1, <1>2, <1>4 DEF Working, InNative
<1>7. Serialised'
  BY <1>1, <1>2, <1>4, <1>5, <1>6 DEF Serialised, Working
<1>8. Counted'
  <2>1. \A p \in {"native", "fallback"} : ran'[p] = IF p = path THEN ran[p] + 1 ELSE ran[p]
    BY <1>3 DEF TypeOK
  <2>2. ran["native"] = counters["nativeAttempt"] /\ counters["fallbackAttempt"] >= ran["fallback"]
    BY <1>1, <1>5, <1>6 DEF Honest, Counted
  <2>. QED BY <1>1, <1>4, <1>5, <1>6, <2>1, <2>2, CountersAreNumbers DEF Counted
<1>. QED BY <1>1, <1>7, <1>8 DEF Honest, Partition

\* What Record counts for each way a call may end.
LEMMA RecordCounts ==
  ASSUME TypeOK, NEW t \in Threads, NEW reason, NEW success \in BOOLEAN, Record(t, reason, success)
  PROVE  /\ counters'["forward"] = counters["forward"] + 1
         /\ counters'["predispatchError"] = counters["predispatchError"]
         /\ reason = "none" =>
              /\ counters'["nativeAttempt"] = counters["nativeAttempt"] + 1
              /\ counters'["nativeSuccess"] + counters'["nativeError"] =
                   counters["nativeSuccess"] + counters["nativeError"] + 1
              /\ counters'["fallbackAttempt"] = counters["fallbackAttempt"]
         /\ reason # "none" =>
              /\ counters'["nativeAttempt"] = counters["nativeAttempt"]
              /\ counters'["nativeSuccess"] = counters["nativeSuccess"]
              /\ counters'["nativeError"] = counters["nativeError"]
              /\ counters'["fallbackAttempt"] = counters["fallbackAttempt"] + 1
<1>. DEFINE names == {"forward"} \cup
           IF reason = "none"
             THEN {"nativeAttempt", IF success THEN "nativeSuccess" ELSE "nativeError"}
             ELSE {"fallbackAttempt", IF success THEN "fallbackSuccess" ELSE "fallbackError"}
<1>1. names \in SUBSET CounterNames
  BY DEF CounterNames
<1>2. \A c \in CounterNames : counters'[c] = IF c \in names THEN counters[c] + 1 ELSE counters[c]
  <2>1. Count(names)
    BY DEF Record
  <2>. HIDE DEF names
  <2>. QED BY <1>1, <2>1, CountAt
<1>3. CASE reason = "none" /\ success
  <2>1. names = {"forward", "nativeAttempt", "nativeSuccess"}
    BY <1>3
  <2>. HIDE DEF names
  <2>. QED BY ONLY <1>2, <1>3, <2>1, CountersAreNumbers, TypeOK
<1>4. CASE reason = "none" /\ ~success
  <2>1. names = {"forward", "nativeAttempt", "nativeError"}
    BY <1>4
  <2>. HIDE DEF names
  <2>. QED BY ONLY <1>2, <1>4, <2>1, CountersAreNumbers, TypeOK
<1>5. CASE reason # "none"
  <2>1. /\ "forward" \in names /\ "fallbackAttempt" \in names
        /\ names \cap {"nativeAttempt", "nativeSuccess", "nativeError", "predispatchError"} = {}
    BY <1>5
  <2>. HIDE DEF names
  <2>. QED BY ONLY <1>2, <1>5, <2>1, CountersAreNumbers, TypeOK
<1>. QED BY <1>3, <1>4, <1>5

\* Who records its work puts the lock back, and nobody is on a path any more.
LEMMA RecordFrees ==
  ASSUME TypeOK, InsideAgrees, Honest, NEW t \in Threads, NEW reason, NEW success,
         Record(t, reason, success), pc[t] \in {"guard", "fallback", "native"}
  PROVE  /\ ~nested[t] /\ UNCHANGED <<nested, callMode>>
         /\ (\A u \in Threads : ~Working(u)' /\ ~InNative(u)' /\ pc'[u] # "fallback")
         /\ Serialised'
         /\ \A u \in Threads \ {t} : ~Working(u)
<1>1. /\ dispatch' = None /\ pc' = [pc EXCEPT ![t] = "leave"] /\ UNCHANGED <<nested, callMode>>
  BY DEF Record, Goto, frame
<1>2. ~nested[t]
  BY DEF InsideAgrees
<1>3. \A u \in Threads \ {t} : ~Working(u)
  BY WorksAlone DEF Honest, Working, InNative
<1>4. \A u \in Threads : pc'[u] = IF u = t THEN "leave" ELSE pc[u]
  BY <1>1 DEF TypeOK
<1>5. \A u \in Threads : ~Working(u)' /\ ~InNative(u)' /\ pc'[u] # "fallback"
  BY <1>1, <1>2, <1>3, <1>4 DEF Working, InNative
<1>6. Serialised'
  BY <1>1, <1>5, AdapterAssumption DEF Serialised, Working
<1>. QED BY <1>1, <1>2, <1>3, <1>5, <1>6

\* A guard that raises counts a fallback that nobody entered.
LEMMA RaisesHonest ==
  ASSUME TypeOK, InsideAgrees, Honest, NEW t \in Threads, GuardRaises(t)
  PROVE  Honest'
<1>1. pc[t] = "guard" /\ Record(t, "guard_error", FALSE) /\ ran' = ran
  BY DEF GuardRaises, At
<1>2. /\ (\A u \in Threads : ~Working(u)' /\ ~InNative(u)' /\ pc'[u] # "fallback") /\ Serialised'
      /\ (\A u \in Threads : ~InNative(u) /\ pc[u] # "fallback")
  BY <1>1, RecordFrees DEF Working, InNative
<1>3. /\ counters'["forward"] = counters["forward"] + 1
      /\ counters'["predispatchError"] = counters["predispatchError"]
      /\ counters'["nativeAttempt"] = counters["nativeAttempt"]
      /\ counters'["nativeSuccess"] = counters["nativeSuccess"]
      /\ counters'["nativeError"] = counters["nativeError"]
      /\ counters'["fallbackAttempt"] = counters["fallbackAttempt"] + 1
  <2>1. PICK reason : reason = "guard_error"
    OBVIOUS
  <2>2. PICK success \in BOOLEAN : success = FALSE
    OBVIOUS
  <2>3. Record(t, reason, success) /\ reason # "none"
    BY <1>1, <2>1, <2>2
  <2>. QED BY <2>3, RecordCounts
<1>4. Counted'
  BY <1>1, <1>2, <1>3, CountersAreNumbers DEF Honest, Counted
<1>5. Partition'
  BY <1>3, CountersAreNumbers DEF Honest, Partition
<1>. QED BY <1>2, <1>4, <1>5 DEF Honest

\* The reason of the latest guard is the caller's own, since it still holds the lock.
LEMMA FinishHonest ==
  ASSUME TypeOK, InsideAgrees, Honest, NEW t \in Threads, NEW success \in BOOLEAN,
         Finish(t, success)
  PROVE  Honest'
<1>. DEFINE reason == IF callMode[t] = "same_q8_reference" THEN "same_q8_reference" ELSE lastReason
<1>1. pc[t] \in {"native", "fallback"} /\ Record(t, reason, success) /\ ran' = ran
  BY DEF Finish, At
<1>2. pc[t] = "native" <=> reason = "none"
  BY <1>1 DEF Honest, Serialised, InNative
<1>. HIDE DEF reason
<1>3. /\ (\A u \in Threads : ~Working(u)' /\ ~InNative(u)' /\ pc'[u] # "fallback") /\ Serialised'
      /\ \A u \in Threads \ {t} : ~InNative(u) /\ pc[u] # "fallback"
      /\ ~nested[t]
  BY <1>1, RecordFrees DEF Working, InNative
<1>4. /\ counters'["forward"] = counters["forward"] + 1
      /\ counters'["predispatchError"] = counters["predispatchError"]
  BY <1>1, RecordCounts
<1>5. CASE reason = "none"
  <2>1. /\ counters'["nativeAttempt"] = counters["nativeAttempt"] + 1
        /\ counters'["nativeSuccess"] + counters'["nativeError"] =
             counters["nativeSuccess"] + counters["nativeError"] + 1
        /\ counters'["fallbackAttempt"] = counters["fallbackAttempt"]
    BY <1>1, <1>5, RecordCounts
  <2>2. InNative(t) /\ \A u \in Threads : pc[u] # "fallback"
    BY <1>2, <1>3, <1>5 DEF InNative
  <2>3. Counted'
    BY <1>1, <1>3, <2>1, <2>2, CountersAreNumbers DEF Honest, Counted
  <2>4. Partition'
    BY <1>4, <2>1, CountersAreNumbers DEF Honest, Partition
  <2>. QED BY <1>3, <2>3, <2>4 DEF Honest
<1>6. CASE reason # "none"
  <2>1. /\ counters'["nativeAttempt"] = counters["nativeAttempt"]
        /\ counters'["nativeSuccess"] = counters["nativeSuccess"]
        /\ counters'["nativeError"] = counters["nativeError"]
        /\ counters'["fallbackAttempt"] = counters["fallbackAttempt"] + 1
    BY <1>1, <1>6, RecordCounts
  <2>2. \A u \in Threads : ~InNative(u)
    BY <1>1, <1>2, <1>3, <1>6 DEF InNative
  <2>3. Counted'
    BY <1>1, <1>3, <2>1, <2>2, CountersAreNumbers DEF Honest, Counted
  <2>4. Partition'
    BY <1>4, <2>1, CountersAreNumbers DEF Honest, Partition
  <2>. QED BY <1>3, <2>3, <2>4 DEF Honest
<1>. QED BY <1>5, <1>6

\* All other steps are elsewhere.
LEMMA HonestStep ==
  ASSUME TypeOK, InsideAgrees, Honest, [Next]_vars
  PROVE  Honest'
<1>1. ASSUME NEW t \in Threads, NEW place \in {"forward", "close", "setMode"},
    NEW m \in Modes,
             BeginCall(t, place, m)
      PROVE  Honest'
  <2>1. /\ UNCHANGED <<dispatch, lastReason, ran, counters, callMode>>
        /\ pc' = [pc EXCEPT ![t] = place]
        /\ pc[t] = "idle" \/ (pc[t] = "native" /\ ~nested[t])
    BY <1>1 DEF BeginCall, At, work
  <2>2. \A u \in Threads : nested'[u] = IF u = t THEN pc[t] = "native" ELSE nested[u]
    BY <1>1, Zenon DEF BeginCall, TypeOK
  <2>3. ~nested[t]
    BY <2>1 DEF InsideAgrees
  <2>4. \A u \in Threads : pc'[u] = IF u = t THEN place ELSE pc[u]
    BY <2>1 DEF TypeOK
  <2>5. \A u \in Threads : InNative(u)' <=> InNative(u)
    <3>1. InNative(t)' <=> InNative(t)
      BY <2>1, <2>2, <2>3, <2>4 DEF InNative
    <3>2. ASSUME NEW u \in Threads, u # t PROVE InNative(u)' <=> InNative(u)
      BY <2>2, <2>4, <3>2 DEF InNative
    <3>. QED BY <3>1, <3>2
  <2>. QED BY <2>1, <2>4, <2>5, Elsewhere
\* Calls that return without having entered a path.
<1>2. ASSUME NEW t \in Threads, Return(t), UNCHANGED <<dispatch, lastReason, ran>>,
             pc[t] \notin {"guard", "fallback", "native"},
             \A c \in CounterNames \ {"rejectedClosed"} : counters'[c] = counters[c],
             Working(t) => callMode'[t] = callMode[t],
             \A u \in Threads \ {t} : callMode'[u] = callMode[u]
      PROVE  Honest'
  BY <1>2, ReturnElsewhere, Elsewhere
<1>3. ASSUME NEW t \in Threads, RejectRecursion(t) PROVE Honest'
  BY <1>2, <1>3 DEF RejectRecursion, At, work
<1>4. ASSUME NEW t \in Threads, BeginForwardRejected(t) PROVE Honest'
  <2>1. \A c \in CounterNames \ {"rejectedClosed"} : counters'[c] = counters[c]
    <3>1. {"rejectedClosed"} \in SUBSET CounterNames
      BY DEF CounterNames
    <3>. QED BY <1>4, <3>1, CountAt DEF BeginForwardRejected
  <2>. QED BY <1>2, <1>4, <2>1 DEF BeginForwardRejected, At
<1>5. ASSUME NEW t \in Threads, EndForward(t) PROVE Honest'
  <2>1. pc[t] = "leave" /\ ~Working(t)
    BY <1>5 DEF EndForward, At, InsideAgrees, Working, InNative
  <2>2. \A u \in Threads \ {t} : callMode'[u] = callMode[u]
    BY <1>5 DEF EndForward, TypeOK
  <2>. QED BY <1>2, <1>5, <2>1, <2>2 DEF EndForward, work
<1>6. ASSUME NEW t \in Threads,
             SetModeReturns(t) \/ SetModeEnds(t) \/ CloseAgain(t) \/ CloseFails(t) \/ CloseEnds(t)
      PROVE  Honest'
  <2>1. /\ Return(t) /\ UNCHANGED <<work, callMode>>
        /\ pc[t] \in {"setMode", "drainMode", "close", "closeFailed", "closed"}
    BY <1>6 DEF SetModeReturns, SetModeEnds, CloseAgain, CloseFails, CloseEnds, At
  <2>. QED BY <1>2, <2>1 DEF work
<1>7. ASSUME NEW t \in Threads, Interrupt(t) PROVE Honest'
  <2>1. pc[t] \in {"forward", "setMode", "drainMode", "close", "drain"}
    BY <1>7 DEF Interrupt, InsideAgrees
  <2>. QED BY <1>2, <1>7, <2>1 DEF Interrupt, work
\* Calls that move towards or past a wait.
<1>8. ASSUME NEW t \in Threads,
             \/ SetModeBegins(t) \/ CloseBegins(t)
             \/ \E success \in BOOLEAN : CloseDestroys(t, success)
      PROVE  Honest'
  <2>1. /\ \E place \in {"drainMode", "drain", "closed", "closeFailed"} :
             pc' = [pc EXCEPT ![t] = place]
        /\ UNCHANGED <<nested, work, callMode>>
        /\ pc[t] \in {"setMode", "close", "drain"}
    BY <1>8 DEF SetModeBegins, CloseBegins, CloseDestroys, At, Goto, frame
  <2>2. PICK place \in Places \ {"guard", "fallback", "native"} : pc' = [pc EXCEPT ![t] = place]
    BY <2>1 DEF Places
  <2>. QED BY <2>1, <2>2, GotoElsewhere, Elsewhere DEF work
<1>9. ASSUME NEW t \in Threads, BeginForward(t) PROVE Honest'
  <2>1. /\ pc' = [pc EXCEPT ![t] = "dispatch"] /\ UNCHANGED <<nested, work>> /\ pc[t] = "forward"
        /\ callMode' = [callMode EXCEPT ![t] = mode] /\ t \notin forwardThreads
    BY <1>9 DEF BeginForward, At
  <2>2. ~Working(t)
    BY <2>1 DEF InsideAgrees, Working, InNative
  <2>3. \A u \in Threads : Working(u) => callMode'[u] = callMode[u]
    BY <2>1, <2>2 DEF TypeOK
  <2>4. "dispatch" \in Places \ {"guard", "fallback", "native"}
    BY DEF Places
  <2>. QED BY <2>1, <2>3, <2>4, GotoElsewhere, Elsewhere DEF work
<1>10. ASSUME UNCHANGED <<pc, frame, work>> PROVE Honest'
  BY <1>10, Elsewhere DEF frame, work, InNative
<1>11. ASSUME NEW t \in Threads,
              \/ BeginForwardWaits(t) \/ SetModeWaits(t) \/ SetModeDrains(t)
              \/ CloseWaits(t) \/ CloseDrains(t)
       PROVE  Honest'
  BY <1>10, <1>11 DEF BeginForwardWaits, SetModeWaits, SetModeDrains, CloseWaits, CloseDrains, Wait
<1>12. CASE UNCHANGED vars
  BY <1>10, <1>12 DEF vars
<1>13. ASSUME NEW t \in Threads, Dispatch(t) PROVE Honest'
  BY <1>13, DispatchHonest
<1>14. ASSUME NEW t \in Threads, DispatchTampered(t) PROVE Honest'
  BY <1>14, TamperedHonest
<1>15. ASSUME NEW t \in Threads, NEW reason \in {"none", "miss"}, Guard(t, reason) PROVE Honest'
  BY <1>15, GuardHonest
<1>16. ASSUME NEW t \in Threads, GuardRaises(t) PROVE Honest'
  BY <1>16, RaisesHonest
<1>17. ASSUME NEW t \in Threads, NEW success \in BOOLEAN, Finish(t, success) PROVE Honest'
  BY <1>17, FinishHonest
<1>. QED
  BY ONLY <1>1, <1>3, <1>4, <1>5, <1>6, <1>7, <1>8, <1>9, <1>11, <1>12, <1>13, <1>14, <1>15, <1>16,
     <1>17, [Next]_vars
  DEF Next, Continue, Forward, SetMode, Close, Modes

\* Whatever is called from where, when no forward is inside the counters add up: the
\* native attempts are the native calls that were entered, and the forwards are the
\* attempts and the rejected ones.
THEOREM CountersTellTheTruth == Spec => []CountersHonest
<1>1. Init => Honest
  BY AdapterAssumption DEF Init, Honest, Serialised, Working, InNative, Counted, Partition,
     CounterNames
<1>2. Inductive /\ Honest /\ [Next]_vars => Honest'
  BY HonestStep DEF Inductive
<1>3. Inductive /\ Honest => CountersHonest
  <2>. SUFFICES ASSUME Inductive, Honest, forwardThreads = {}
                PROVE  /\ counters.nativeAttempt = ran.native
                       /\ counters.nativeAttempt = counters.nativeSuccess + counters.nativeError
                       /\ counters.fallbackAttempt >= ran.fallback
                       /\ counters.forward = counters.nativeAttempt + counters.fallbackAttempt
                                             + counters.predispatchError
    BY DEF CountersHonest
  <2>1. \A t \in Threads : ~InNative(t) /\ pc[t] # "fallback"
    BY DEF Inductive, InsideAgrees, InsidePlaces, InNative
  <2>. QED BY <2>1 DEF Honest, Counted, Partition
<1>. QED BY <1>1, <1>2, <1>3, InductiveInvariant, PTL DEF Spec

=============================================================================
