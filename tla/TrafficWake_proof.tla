--------------------------- MODULE TrafficWake_proof ---------------------------
(***************************************************************************)
(* Proofs about TrafficWake, for any set of requests, any number of scans  *)
(* and every scenario, failing calls and dropped requests included.        *)
(***************************************************************************)
EXTENDS TrafficWake, TLAPS

\* The places of a request.
PCs == Leading \cup {"new", "check", "gate", "gate_read", "rec", "rec_enable", "rec_check",
                     "rec_wait", "ensure", "ensure_read", "join", "follow", "send", "done"}

\* What the proofs need of the types.
Shapes ==
  /\ pc \in [Reqs -> PCs]
  /\ DOMAIN outcome = Reqs /\ DOMAIN restore = Reqs /\ DOMAIN got = Reqs
  /\ DOMAIN scan = {"at", "seen", "n"}
  /\ waking \in Reqs \cup {None}
  /\ forgotten \subseteq Reqs

\* The flights: an outcome is out only for a request that is done or whose flight a
\* deletion retired, and a retired flight is not the registered one.
Flights ==
  /\ OneFlight
  /\ \A r \in Reqs : outcome[r] # None => pc[r] = "done" \/ r \in forgotten
  /\ \A r \in forgotten : pc[r] \in Leading \cup {"send", "done"}
  /\ waking # None => waking \notin forgotten

\* The operation lock: who works on the compute holds it, so that compute seen
\* running under the lock runs until the wake completes.
Locked ==
  /\ \A r \in Reqs : pc[r] \in {"status", "start", "observe", "finish"} => lock = r
  /\ scan.at \in {"mark", "scale"} => lock = "recycler"
  /\ stop \in {"mark", "scale"} => lock = "stop"
  /\ del \in {"fence", "remove", "forget"} => lock = "delete"
  /\ \A r \in Reqs : restore[r] = "boot" => lock = "restore"
  /\ \A r, q \in Reqs : restore[r] = "boot" /\ restore[q] = "boot" => r = q
  /\ \A r \in Reqs : pc[r] = "finish" => phys = "running"
  /\ del = "forget" => phys = "missing"

\* No failing call, no other replica.
Calm == ~MayFail /\ "peer" \notin Controls

\* Stopped compute is marked, and so is compute about to be scaled to zero.
Marking ==
  Calm =>
    /\ phys = "stopped" => stopped \/ blocked
    /\ scan.at = "scale" => stopped \/ blocked
    /\ stop = "scale" => stopped \/ blocked


\* Every step keeps the flights in order.
LEMMA FlightStep ==
  ASSUME Flights, Shapes, [Next]_vars
  PROVE  Flights'
<1> USE TrafficWakeAssumption
    DEF at, goto, cluster, marks, access, flights, requests, controls, aside,
        Flights, OneFlight, Leading, Shapes, PCs
<1>1. ASSUME NEW r \in Reqs, Touch(r) PROVE Flights'
  BY <1>1 DEF Touch
<1>2. ASSUME NEW r \in Reqs, Untouched(r) PROVE Flights'
  BY <1>2 DEF Untouched
<1>3. ASSUME NEW r \in Reqs, Check(r) PROVE Flights'
  BY <1>3 DEF Check
<1>4. ASSUME NEW r \in Reqs, RecGet(r) PROVE Flights'
  BY <1>4 DEF RecGet
<1>5. ASSUME NEW r \in Reqs, RecEnable(r) PROVE Flights'
  BY <1>5 DEF RecEnable
<1>6. ASSUME NEW r \in Reqs, RecCheck(r) PROVE Flights'
  BY <1>6 DEF RecCheck
<1>7. ASSUME NEW r \in Reqs, Join(r) PROVE Flights'
  BY <1>7 DEF Join
<1>8. ASSUME NEW r \in Reqs, Followed(r) PROVE Flights'
  BY <1>8 DEF Followed, told
<1>9. ASSUME NEW r \in Reqs, LeadTry(r) PROVE Flights'
  BY <1>9 DEF LeadTry, Free
<1>10. ASSUME NEW r \in Reqs, LeadWait(r) PROVE Flights'
  BY <1>10 DEF LeadWait
<1>11. ASSUME NEW r \in Reqs, LeadConflict(r) PROVE Flights'
  BY <1>11 DEF LeadConflict
<1>12. ASSUME NEW r \in Reqs, LeadRefused(r) PROVE Flights'
  BY <1>12 DEF LeadRefused
<1>13. ASSUME NEW r \in Reqs, LeadGranted(r) PROVE Flights'
  BY <1>13 DEF LeadGranted
<1>14. ASSUME NEW r \in Reqs, LeadMissing(r) PROVE Flights'
  BY <1>14 DEF LeadMissing
<1>15. ASSUME NEW r \in Reqs, LeadAdmit(r) PROVE Flights'
  BY <1>15 DEF LeadAdmit, prepare_traffic_wake
<1>16. ASSUME NEW r \in Reqs, LeadStart(r) PROVE Flights'
  BY <1>16 DEF LeadStart
<1>17. ASSUME NEW r \in Reqs, LeadUnknown(r) PROVE Flights'
  BY <1>17 DEF LeadUnknown
<1>18. ASSUME NEW r \in Reqs, LeadObserve(r) PROVE Flights'
  BY <1>18 DEF LeadObserve
<1>19. ASSUME NEW r \in Reqs, LeadFinish(r) PROVE Flights'
  BY <1>19 DEF LeadFinish
<1>20. ASSUME NEW r \in Reqs, LeadRestored(r) PROVE Flights'
  BY <1>20 DEF LeadRestored
<1>21. ASSUME NEW r \in Reqs, Publish(r) PROVE Flights'
  BY <1>21 DEF Publish, RetireFlight
<1>22. ASSUME NEW r \in Reqs, Send(r) PROVE Flights'
  BY <1>22 DEF Send, told
<1>23. ASSUME NEW r \in Reqs, RestoreQueue(r) PROVE Flights'
  BY <1>23 DEF RestoreQueue
<1>24. ASSUME NEW r \in Reqs, RestoreCreate(r) PROVE Flights'
  BY <1>24 DEF RestoreCreate
<1>25. ASSUME NEW r \in Reqs, RestoreDone(r) PROVE Flights'
  BY <1>25 DEF RestoreDone, mark_running
<1>26. ASSUME NEW r \in Reqs, Cancel(r) PROVE Flights'
  BY <1>26 DEF Cancel, RetireFlight
<1>27. ASSUME NEW r \in Reqs, NEW where \in DOMAIN Reading, Probe(r, where)
      PROVE  Flights'
  BY <1>27 DEF Probe, Conclude, told, backfill_remote_state, Reading
<1>28. ASSUME NEW r \in Reqs, NEW where \in DOMAIN Reading, ProbeAnswer(r, where)
      PROVE  Flights'
  BY <1>28 DEF ProbeAnswer, Conclude, told, backfill_remote_state, Reading
<1>29. ASSUME NEW r \in Reqs, NEW where \in DOMAIN Reading, ProbeFails(r, where)
      PROVE  Flights'
  BY <1>29 DEF ProbeFails, told, Reading
<1>30. CASE Scan
  BY <1>30 DEF Scan
<1>31. CASE Register
  BY <1>31 DEF Register
<1>32. CASE Compare
  BY <1>32 DEF Compare
<1>33. CASE RecycleLookup
  BY <1>33 DEF RecycleLookup
<1>34. CASE RecycleLocked
  BY <1>34 DEF RecycleLocked
<1>35. CASE RecycleMark
  BY <1>35 DEF RecycleMark, mark_stopped
<1>36. CASE RecycleScale
  BY <1>36 DEF RecycleScale, ScaleZero, mark_stopped, mark_running
<1>37. CASE TransitionDrop
  BY <1>37 DEF TransitionDrop, Notified
<1>38. CASE StopBegin
  BY <1>38 DEF StopBegin, Free
<1>39. CASE DeleteBegin
  BY <1>39 DEF DeleteBegin, Free
<1>40. CASE StopMark
  BY <1>40 DEF StopMark, mark_stopped
<1>41. CASE StopScale
  BY <1>41 DEF StopScale, ScaleZero, mark_stopped, mark_running
<1>42. CASE DeleteFence
  BY <1>42 DEF DeleteFence, mark_wake_blocked
<1>43. CASE DeleteRemove
  BY <1>43 DEF DeleteRemove
<1>44. CASE DeleteForget
  BY <1>44 DEF DeleteForget, Notified
<1>45. CASE DeleteFails
  BY <1>45 DEF DeleteFails
<1>46. CASE Boot
  BY <1>46 DEF Boot
<1>47. CASE Age
  BY <1>47 DEF Age
<1>48. CASE Peer
  BY <1>48 DEF Peer
<1>49. CASE Expire
  BY <1>49 DEF Expire
<1>50. CASE UNCHANGED vars
  BY <1>50 DEF vars
<1>51. QED
  BY <1>1, <1>2, <1>3, <1>4, <1>5, <1>6, <1>7, <1>8, <1>9, <1>10, <1>11, <1>12, <1>13,
     <1>14, <1>15, <1>16, <1>17, <1>18, <1>19, <1>20, <1>21, <1>22, <1>23, <1>24, <1>25,
     <1>26, <1>27, <1>28, <1>29, <1>30, <1>31, <1>32, <1>33, <1>34, <1>35, <1>36, <1>37,
     <1>38, <1>39, <1>40, <1>41, <1>42, <1>43, <1>44, <1>45, <1>46, <1>47, <1>48, <1>49,
     <1>50
     DEF Next, Request, Lead, Restore, Recycle, Control

\* Every step keeps the lock's discipline.
LEMMA LockStep ==
  ASSUME Locked, Shapes, [Next]_vars
  PROVE  Locked'
<1> USE TrafficWakeAssumption
    DEF at, goto, cluster, marks, access, flights, requests, controls, aside,
        Locked, Admitted, Shapes
<1>1. ASSUME NEW r \in Reqs, Touch(r) PROVE Locked'
  BY <1>1 DEF Touch
<1>2. ASSUME NEW r \in Reqs, Untouched(r) PROVE Locked'
  BY <1>2 DEF Untouched
<1>3. ASSUME NEW r \in Reqs, Check(r) PROVE Locked'
  BY <1>3 DEF Check
<1>4. ASSUME NEW r \in Reqs, RecGet(r) PROVE Locked'
  BY <1>4 DEF RecGet
<1>5. ASSUME NEW r \in Reqs, RecEnable(r) PROVE Locked'
  BY <1>5 DEF RecEnable
<1>6. ASSUME NEW r \in Reqs, RecCheck(r) PROVE Locked'
  BY <1>6 DEF RecCheck
<1>7. ASSUME NEW r \in Reqs, Join(r) PROVE Locked'
  BY <1>7 DEF Join
<1>8. ASSUME NEW r \in Reqs, Followed(r) PROVE Locked'
  BY <1>8 DEF Followed, told
<1>9. ASSUME NEW r \in Reqs, LeadTry(r) PROVE Locked'
  BY <1>9 DEF LeadTry, Free
<1>10. ASSUME NEW r \in Reqs, LeadWait(r) PROVE Locked'
  BY <1>10 DEF LeadWait
<1>11. ASSUME NEW r \in Reqs, LeadConflict(r) PROVE Locked'
  BY <1>11 DEF LeadConflict
<1>12. ASSUME NEW r \in Reqs, LeadRefused(r) PROVE Locked'
  BY <1>12 DEF LeadRefused
<1>13. ASSUME NEW r \in Reqs, LeadGranted(r) PROVE Locked'
  BY <1>13 DEF LeadGranted
<1>14. ASSUME NEW r \in Reqs, LeadMissing(r) PROVE Locked'
  BY <1>14 DEF LeadMissing
<1>15. ASSUME NEW r \in Reqs, LeadAdmit(r) PROVE Locked'
  BY <1>15 DEF LeadAdmit, prepare_traffic_wake
<1>16. ASSUME NEW r \in Reqs, LeadStart(r) PROVE Locked'
  BY <1>16 DEF LeadStart
<1>17. ASSUME NEW r \in Reqs, LeadUnknown(r) PROVE Locked'
  BY <1>17 DEF LeadUnknown
<1>18. ASSUME NEW r \in Reqs, LeadObserve(r) PROVE Locked'
  BY <1>18 DEF LeadObserve
<1>19. ASSUME NEW r \in Reqs, LeadFinish(r) PROVE Locked'
  BY <1>19 DEF LeadFinish
<1>20. ASSUME NEW r \in Reqs, LeadRestored(r) PROVE Locked'
  BY <1>20 DEF LeadRestored
<1>21. ASSUME NEW r \in Reqs, Publish(r) PROVE Locked'
  BY <1>21 DEF Publish, RetireFlight
<1>22. ASSUME NEW r \in Reqs, Send(r) PROVE Locked'
  BY <1>22 DEF Send, told
<1>23. ASSUME NEW r \in Reqs, RestoreQueue(r) PROVE Locked'
  BY <1>23 DEF RestoreQueue
<1>24. ASSUME NEW r \in Reqs, RestoreCreate(r) PROVE Locked'
  BY <1>24 DEF RestoreCreate
<1>25. ASSUME NEW r \in Reqs, RestoreDone(r) PROVE Locked'
  BY <1>25 DEF RestoreDone, mark_running
<1>26. ASSUME NEW r \in Reqs, Cancel(r) PROVE Locked'
  BY <1>26 DEF Cancel, RetireFlight
<1>27. ASSUME NEW r \in Reqs, NEW where \in DOMAIN Reading, Probe(r, where)
      PROVE  Locked'
  BY <1>27 DEF Probe, Conclude, told, backfill_remote_state, Reading
<1>28. ASSUME NEW r \in Reqs, NEW where \in DOMAIN Reading, ProbeAnswer(r, where)
      PROVE  Locked'
  BY <1>28 DEF ProbeAnswer, Conclude, told, backfill_remote_state, Reading
<1>29. ASSUME NEW r \in Reqs, NEW where \in DOMAIN Reading, ProbeFails(r, where)
      PROVE  Locked'
  BY <1>29 DEF ProbeFails, told, Reading
<1>30. CASE Scan
  BY <1>30 DEF Scan
<1>31. CASE Register
  BY <1>31 DEF Register
<1>32. CASE Compare
  BY <1>32 DEF Compare
<1>33. CASE RecycleLookup
  BY <1>33 DEF RecycleLookup
<1>34. CASE RecycleLocked
  BY <1>34 DEF RecycleLocked
<1>35. CASE RecycleMark
  BY <1>35 DEF RecycleMark, mark_stopped
<1>36. CASE RecycleScale
  BY <1>36 DEF RecycleScale, ScaleZero, mark_stopped, mark_running
<1>37. CASE TransitionDrop
  BY <1>37 DEF TransitionDrop, Notified
<1>38. CASE StopBegin
  BY <1>38 DEF StopBegin, Free
<1>39. CASE DeleteBegin
  BY <1>39 DEF DeleteBegin, Free
<1>40. CASE StopMark
  BY <1>40 DEF StopMark, mark_stopped
<1>41. CASE StopScale
  BY <1>41 DEF StopScale, ScaleZero, mark_stopped, mark_running
<1>42. CASE DeleteFence
  BY <1>42 DEF DeleteFence, mark_wake_blocked
<1>43. CASE DeleteRemove
  BY <1>43 DEF DeleteRemove
<1>44. CASE DeleteForget
  BY <1>44 DEF DeleteForget, Notified
<1>45. CASE DeleteFails
  BY <1>45 DEF DeleteFails
<1>46. CASE Boot
  BY <1>46 DEF Boot
<1>47. CASE Age
  BY <1>47 DEF Age
<1>48. CASE Peer
  BY <1>48 DEF Peer
<1>49. CASE Expire
  BY <1>49 DEF Expire
<1>50. CASE UNCHANGED vars
  BY <1>50 DEF vars
<1>51. QED
  BY <1>1, <1>2, <1>3, <1>4, <1>5, <1>6, <1>7, <1>8, <1>9, <1>10, <1>11, <1>12, <1>13,
     <1>14, <1>15, <1>16, <1>17, <1>18, <1>19, <1>20, <1>21, <1>22, <1>23, <1>24, <1>25,
     <1>26, <1>27, <1>28, <1>29, <1>30, <1>31, <1>32, <1>33, <1>34, <1>35, <1>36, <1>37,
     <1>38, <1>39, <1>40, <1>41, <1>42, <1>43, <1>44, <1>45, <1>46, <1>47, <1>48, <1>49,
     <1>50
     DEF Next, Request, Lead, Restore, Recycle, Control

\* Every step keeps the shapes.
LEMMA ShapeStep ==
  ASSUME Shapes, [Next]_vars
  PROVE  Shapes'
<1> USE TrafficWakeAssumption
    DEF at, goto, cluster, marks, access, flights, requests, controls, aside,
        Shapes, PCs, Leading
<1>1. ASSUME NEW r \in Reqs, Touch(r) PROVE Shapes'
  BY <1>1 DEF Touch
<1>2. ASSUME NEW r \in Reqs, Untouched(r) PROVE Shapes'
  BY <1>2 DEF Untouched
<1>3. ASSUME NEW r \in Reqs, Check(r) PROVE Shapes'
  BY <1>3 DEF Check
<1>4. ASSUME NEW r \in Reqs, RecGet(r) PROVE Shapes'
  BY <1>4 DEF RecGet
<1>5. ASSUME NEW r \in Reqs, RecEnable(r) PROVE Shapes'
  BY <1>5 DEF RecEnable
<1>6. ASSUME NEW r \in Reqs, RecCheck(r) PROVE Shapes'
  BY <1>6 DEF RecCheck
<1>7. ASSUME NEW r \in Reqs, Join(r) PROVE Shapes'
  BY <1>7 DEF Join
<1>8. ASSUME NEW r \in Reqs, Followed(r) PROVE Shapes'
  BY <1>8 DEF Followed, told
<1>9. ASSUME NEW r \in Reqs, LeadTry(r) PROVE Shapes'
  BY <1>9 DEF LeadTry, Free
<1>10. ASSUME NEW r \in Reqs, LeadWait(r) PROVE Shapes'
  BY <1>10 DEF LeadWait
<1>11. ASSUME NEW r \in Reqs, LeadConflict(r) PROVE Shapes'
  BY <1>11 DEF LeadConflict
<1>12. ASSUME NEW r \in Reqs, LeadRefused(r) PROVE Shapes'
  BY <1>12 DEF LeadRefused
<1>13. ASSUME NEW r \in Reqs, LeadGranted(r) PROVE Shapes'
  BY <1>13 DEF LeadGranted
<1>14. ASSUME NEW r \in Reqs, LeadMissing(r) PROVE Shapes'
  BY <1>14 DEF LeadMissing
<1>15. ASSUME NEW r \in Reqs, LeadAdmit(r) PROVE Shapes'
  BY <1>15 DEF LeadAdmit, prepare_traffic_wake
<1>16. ASSUME NEW r \in Reqs, LeadStart(r) PROVE Shapes'
  BY <1>16 DEF LeadStart
<1>17. ASSUME NEW r \in Reqs, LeadUnknown(r) PROVE Shapes'
  BY <1>17 DEF LeadUnknown
<1>18. ASSUME NEW r \in Reqs, LeadObserve(r) PROVE Shapes'
  BY <1>18 DEF LeadObserve
<1>19. ASSUME NEW r \in Reqs, LeadFinish(r) PROVE Shapes'
  BY <1>19 DEF LeadFinish
<1>20. ASSUME NEW r \in Reqs, LeadRestored(r) PROVE Shapes'
  BY <1>20 DEF LeadRestored
<1>21. ASSUME NEW r \in Reqs, Publish(r) PROVE Shapes'
  BY <1>21 DEF Publish, RetireFlight
<1>22. ASSUME NEW r \in Reqs, Send(r) PROVE Shapes'
  BY <1>22 DEF Send, told
<1>23. ASSUME NEW r \in Reqs, RestoreQueue(r) PROVE Shapes'
  BY <1>23 DEF RestoreQueue
<1>24. ASSUME NEW r \in Reqs, RestoreCreate(r) PROVE Shapes'
  BY <1>24 DEF RestoreCreate
<1>25. ASSUME NEW r \in Reqs, RestoreDone(r) PROVE Shapes'
  BY <1>25 DEF RestoreDone, mark_running
<1>26. ASSUME NEW r \in Reqs, Cancel(r) PROVE Shapes'
  BY <1>26 DEF Cancel, RetireFlight
<1>27. ASSUME NEW r \in Reqs, NEW where \in DOMAIN Reading, Probe(r, where)
      PROVE  Shapes'
  BY <1>27 DEF Probe, Conclude, told, backfill_remote_state, Reading
<1>28. ASSUME NEW r \in Reqs, NEW where \in DOMAIN Reading, ProbeAnswer(r, where)
      PROVE  Shapes'
  BY <1>28 DEF ProbeAnswer, Conclude, told, backfill_remote_state, Reading
<1>29. ASSUME NEW r \in Reqs, NEW where \in DOMAIN Reading, ProbeFails(r, where)
      PROVE  Shapes'
  BY <1>29 DEF ProbeFails, told, Reading
<1>30. CASE Scan
  BY <1>30 DEF Scan
<1>31. CASE Register
  BY <1>31 DEF Register
<1>32. CASE Compare
  BY <1>32 DEF Compare
<1>33. CASE RecycleLookup
  BY <1>33 DEF RecycleLookup
<1>34. CASE RecycleLocked
  BY <1>34 DEF RecycleLocked
<1>35. CASE RecycleMark
  BY <1>35 DEF RecycleMark, mark_stopped
<1>36. CASE RecycleScale
  BY <1>36 DEF RecycleScale, ScaleZero, mark_stopped, mark_running
<1>37. CASE TransitionDrop
  BY <1>37 DEF TransitionDrop, Notified
<1>38. CASE StopBegin
  BY <1>38 DEF StopBegin, Free
<1>39. CASE DeleteBegin
  BY <1>39 DEF DeleteBegin, Free
<1>40. CASE StopMark
  BY <1>40 DEF StopMark, mark_stopped
<1>41. CASE StopScale
  BY <1>41 DEF StopScale, ScaleZero, mark_stopped, mark_running
<1>42. CASE DeleteFence
  BY <1>42 DEF DeleteFence, mark_wake_blocked
<1>43. CASE DeleteRemove
  BY <1>43 DEF DeleteRemove
<1>44. CASE DeleteForget
  BY <1>44 DEF DeleteForget, Notified
<1>45. CASE DeleteFails
  BY <1>45 DEF DeleteFails
<1>46. CASE Boot
  BY <1>46 DEF Boot
<1>47. CASE Age
  BY <1>47 DEF Age
<1>48. CASE Peer
  BY <1>48 DEF Peer
<1>49. CASE Expire
  BY <1>49 DEF Expire
<1>50. CASE UNCHANGED vars
  BY <1>50 DEF vars
<1>51. QED
  BY <1>1, <1>2, <1>3, <1>4, <1>5, <1>6, <1>7, <1>8, <1>9, <1>10, <1>11, <1>12, <1>13,
     <1>14, <1>15, <1>16, <1>17, <1>18, <1>19, <1>20, <1>21, <1>22, <1>23, <1>24, <1>25,
     <1>26, <1>27, <1>28, <1>29, <1>30, <1>31, <1>32, <1>33, <1>34, <1>35, <1>36, <1>37,
     <1>38, <1>39, <1>40, <1>41, <1>42, <1>43, <1>44, <1>45, <1>46, <1>47, <1>48, <1>49,
     <1>50
     DEF Next, Request, Lead, Restore, Recycle, Control

\* Every step keeps stopped compute marked.
LEMMA MarkStep ==
  ASSUME Marking, Locked, Shapes, [Next]_vars
  PROVE  Marking'
<1> USE TrafficWakeAssumption
    DEF at, goto, cluster, marks, access, flights, requests, controls, aside,
        Marking, Calm, Locked, Shapes, MayFail, Controls
<1>1. ASSUME NEW r \in Reqs, Touch(r) PROVE Marking'
  BY <1>1 DEF Touch
<1>2. ASSUME NEW r \in Reqs, Untouched(r) PROVE Marking'
  BY <1>2 DEF Untouched
<1>3. ASSUME NEW r \in Reqs, Check(r) PROVE Marking'
  BY <1>3 DEF Check
<1>4. ASSUME NEW r \in Reqs, RecGet(r) PROVE Marking'
  BY <1>4 DEF RecGet
<1>5. ASSUME NEW r \in Reqs, RecEnable(r) PROVE Marking'
  BY <1>5 DEF RecEnable
<1>6. ASSUME NEW r \in Reqs, RecCheck(r) PROVE Marking'
  BY <1>6 DEF RecCheck
<1>7. ASSUME NEW r \in Reqs, Join(r) PROVE Marking'
  BY <1>7 DEF Join
<1>8. ASSUME NEW r \in Reqs, Followed(r) PROVE Marking'
  BY <1>8 DEF Followed, told
<1>9. ASSUME NEW r \in Reqs, LeadTry(r) PROVE Marking'
  BY <1>9 DEF LeadTry, Free
<1>10. ASSUME NEW r \in Reqs, LeadWait(r) PROVE Marking'
  BY <1>10 DEF LeadWait
<1>11. ASSUME NEW r \in Reqs, LeadConflict(r) PROVE Marking'
  BY <1>11 DEF LeadConflict
<1>12. ASSUME NEW r \in Reqs, LeadRefused(r) PROVE Marking'
  BY <1>12 DEF LeadRefused
<1>13. ASSUME NEW r \in Reqs, LeadGranted(r) PROVE Marking'
  BY <1>13 DEF LeadGranted
<1>14. ASSUME NEW r \in Reqs, LeadMissing(r) PROVE Marking'
  BY <1>14 DEF LeadMissing
<1>15. ASSUME NEW r \in Reqs, LeadAdmit(r) PROVE Marking'
  BY <1>15 DEF LeadAdmit, prepare_traffic_wake
<1>16. ASSUME NEW r \in Reqs, LeadStart(r) PROVE Marking'
  BY <1>16 DEF LeadStart
<1>17. ASSUME NEW r \in Reqs, LeadUnknown(r) PROVE Marking'
  BY <1>17 DEF LeadUnknown
<1>18. ASSUME NEW r \in Reqs, LeadObserve(r) PROVE Marking'
  BY <1>18 DEF LeadObserve
<1>19. ASSUME NEW r \in Reqs, LeadFinish(r) PROVE Marking'
  BY <1>19 DEF LeadFinish
<1>20. ASSUME NEW r \in Reqs, LeadRestored(r) PROVE Marking'
  BY <1>20 DEF LeadRestored
<1>21. ASSUME NEW r \in Reqs, Publish(r) PROVE Marking'
  BY <1>21 DEF Publish, RetireFlight
<1>22. ASSUME NEW r \in Reqs, Send(r) PROVE Marking'
  BY <1>22 DEF Send, told
<1>23. ASSUME NEW r \in Reqs, RestoreQueue(r) PROVE Marking'
  BY <1>23 DEF RestoreQueue
<1>24. ASSUME NEW r \in Reqs, RestoreCreate(r) PROVE Marking'
  BY <1>24 DEF RestoreCreate
<1>25. ASSUME NEW r \in Reqs, RestoreDone(r) PROVE Marking'
  BY <1>25 DEF RestoreDone, mark_running
<1>26. ASSUME NEW r \in Reqs, Cancel(r) PROVE Marking'
  BY <1>26 DEF Cancel, RetireFlight
<1>27. ASSUME NEW r \in Reqs, NEW where \in DOMAIN Reading, Probe(r, where)
      PROVE  Marking'
  BY <1>27 DEF Probe, Conclude, told, backfill_remote_state, Reading
<1>28. ASSUME NEW r \in Reqs, NEW where \in DOMAIN Reading, ProbeAnswer(r, where)
      PROVE  Marking'
  BY <1>28 DEF ProbeAnswer, Conclude, told, backfill_remote_state, Reading
<1>29. ASSUME NEW r \in Reqs, NEW where \in DOMAIN Reading, ProbeFails(r, where)
      PROVE  Marking'
  BY <1>29 DEF ProbeFails, told, Reading
<1>30. CASE Scan
  BY <1>30 DEF Scan
<1>31. CASE Register
  BY <1>31 DEF Register
<1>32. CASE Compare
  BY <1>32 DEF Compare
<1>33. CASE RecycleLookup
  BY <1>33 DEF RecycleLookup
<1>34. CASE RecycleLocked
  BY <1>34 DEF RecycleLocked
<1>35. CASE RecycleMark
  BY <1>35 DEF RecycleMark, mark_stopped
<1>36. CASE RecycleScale
  BY <1>36 DEF RecycleScale, ScaleZero, mark_stopped, mark_running
<1>37. CASE TransitionDrop
  BY <1>37 DEF TransitionDrop, Notified
<1>38. CASE StopBegin
  BY <1>38 DEF StopBegin, Free
<1>39. CASE DeleteBegin
  BY <1>39 DEF DeleteBegin, Free
<1>40. CASE StopMark
  BY <1>40 DEF StopMark, mark_stopped
<1>41. CASE StopScale
  BY <1>41 DEF StopScale, ScaleZero, mark_stopped, mark_running
<1>42. CASE DeleteFence
  BY <1>42 DEF DeleteFence, mark_wake_blocked
<1>43. CASE DeleteRemove
  BY <1>43 DEF DeleteRemove
<1>44. CASE DeleteForget
  BY <1>44 DEF DeleteForget, Notified
<1>45. CASE DeleteFails
  BY <1>45 DEF DeleteFails
<1>46. CASE Boot
  BY <1>46 DEF Boot
<1>47. CASE Age
  BY <1>47 DEF Age
<1>48. CASE Peer
  BY <1>48 DEF Peer
<1>49. CASE Expire
  BY <1>49 DEF Expire
<1>50. CASE UNCHANGED vars
  BY <1>50 DEF vars
<1>51. QED
  BY <1>1, <1>2, <1>3, <1>4, <1>5, <1>6, <1>7, <1>8, <1>9, <1>10, <1>11, <1>12, <1>13,
     <1>14, <1>15, <1>16, <1>17, <1>18, <1>19, <1>20, <1>21, <1>22, <1>23, <1>24, <1>25,
     <1>26, <1>27, <1>28, <1>29, <1>30, <1>31, <1>32, <1>33, <1>34, <1>35, <1>36, <1>37,
     <1>38, <1>39, <1>40, <1>41, <1>42, <1>43, <1>44, <1>45, <1>46, <1>47, <1>48, <1>49,
     <1>50
     DEF Next, Request, Lead, Restore, Recycle, Control

\* The inductive invariant.
IInv == Shapes /\ Flights /\ Locked /\ Marking

\* It holds at first ...
LEMMA InitIInv == Init => IInv
<1> SUFFICES ASSUME Init PROVE IInv
  OBVIOUS
<1>1. Shapes
  BY DEF Init, Shapes, PCs
<1>2. Flights
  BY DEF Init, Flights, OneFlight, Leading
<1>3. Locked
  BY DEF Init, Locked
<1>4. Marking
  BY DEF Init, Marking
<1>5. QED BY <1>1, <1>2, <1>3, <1>4 DEF IInv

\* ... and every step keeps it.
LEMMA NextIInv == IInv /\ [Next]_vars => IInv'
BY FlightStep, LockStep, ShapeStep, MarkStep DEF IInv

\* activity_registry/wake.rs: a flight that can be joined has a leader that is still
\* to publish, and every leader is the registered flight unless a deletion retired
\* it, for any number of requests.
THEOREM FlightsMerge == Spec => []OneFlight
<1>1. IInv => OneFlight
  BY DEF IInv, Flights
<1>2. QED BY <1>1, InitIInv, NextIInv, PTL DEF Spec

\* activity_registry and lifecycle/wake.rs: a wake completes only on compute that
\* runs, and compute stopped through this replica is marked stopped or blocked, also
\* when an older observation of the cluster is used late.
THEOREM MarksAreTrue == Spec => []MarksAgree
<1>1. IInv => MarksAgree
  BY DEF IInv, Locked, Marking, Calm, MarksAgree
<1>2. QED BY <1>1, InitIInv, NextIInv, PTL DEF Spec

----------------------------------------------------------------------------
(* The recycler and the traffic that arrives after its scan.               *)

\* The counts: what a request or the scan has seen is never ahead of the last access,
\* and only a request that is done was let through.
Counts ==
  /\ acc \in Nat /\ touched \in [Reqs -> Nat] /\ scenario \in Scenarios
  /\ scan.seen \in Nat /\ scan.n \in Nat
  /\ phys \in {"missing", "stopped", "starting", "running"}
  /\ \A r \in Reqs : touched[r] <= acc /\ (pc[r] = "new" => touched[r] = 0)
  /\ \A r \in Reqs : got[r] = "forwarded" => pc[r] = "done"
  /\ scan.at # "idle" => scan.n \in 1 .. MaxScans /\ scan.seen <= acc

\* Every step keeps the counts.
LEMMA CountStep ==
  ASSUME Counts, Shapes, [Next]_vars
  PROVE  Counts'
<1> USE TrafficWakeAssumption
    DEF at, goto, cluster, marks, access, flights, requests, controls, aside,
        Counts, Shapes, PCs, Leading
<1>1. ASSUME NEW r \in Reqs, Touch(r) PROVE Counts'
  BY <1>1 DEF Touch
<1>2. ASSUME NEW r \in Reqs, Untouched(r) PROVE Counts'
  BY <1>2 DEF Untouched
<1>3. ASSUME NEW r \in Reqs, Check(r) PROVE Counts'
  BY <1>3 DEF Check
<1>4. ASSUME NEW r \in Reqs, RecGet(r) PROVE Counts'
  BY <1>4 DEF RecGet
<1>5. ASSUME NEW r \in Reqs, RecEnable(r) PROVE Counts'
  BY <1>5 DEF RecEnable
<1>6. ASSUME NEW r \in Reqs, RecCheck(r) PROVE Counts'
  BY <1>6 DEF RecCheck
<1>7. ASSUME NEW r \in Reqs, Join(r) PROVE Counts'
  BY <1>7 DEF Join
<1>8. ASSUME NEW r \in Reqs, Followed(r) PROVE Counts'
  BY <1>8 DEF Followed, told
<1>9. ASSUME NEW r \in Reqs, LeadTry(r) PROVE Counts'
  <2>1. pc'[r] \in {"status", "publish"} /\ got'[r] \in {got[r], "failed"}
    BY <1>9 DEF LeadTry
  <2>2. \A q \in Reqs : q # r => pc'[q] = pc[q] /\ got'[q] = got[q]
    BY <1>9 DEF LeadTry
  <2>3. pc[r] = "lead"
    BY <1>9 DEF LeadTry
  <2>4. QED BY <1>9, <2>1, <2>2, <2>3 DEF LeadTry
<1>10. ASSUME NEW r \in Reqs, LeadWait(r) PROVE Counts'
  BY <1>10 DEF LeadWait
<1>11. ASSUME NEW r \in Reqs, LeadConflict(r) PROVE Counts'
  BY <1>11 DEF LeadConflict
<1>12. ASSUME NEW r \in Reqs, LeadRefused(r) PROVE Counts'
  BY <1>12 DEF LeadRefused
<1>13. ASSUME NEW r \in Reqs, LeadGranted(r) PROVE Counts'
  BY <1>13 DEF LeadGranted
<1>14. ASSUME NEW r \in Reqs, LeadMissing(r) PROVE Counts'
  BY <1>14 DEF LeadMissing
<1>15. ASSUME NEW r \in Reqs, LeadAdmit(r) PROVE Counts'
  BY <1>15 DEF LeadAdmit, prepare_traffic_wake
<1>16. ASSUME NEW r \in Reqs, LeadStart(r) PROVE Counts'
  BY <1>16 DEF LeadStart
<1>17. ASSUME NEW r \in Reqs, LeadUnknown(r) PROVE Counts'
  BY <1>17 DEF LeadUnknown
<1>18. ASSUME NEW r \in Reqs, LeadObserve(r) PROVE Counts'
  BY <1>18 DEF LeadObserve
<1>19. ASSUME NEW r \in Reqs, LeadFinish(r) PROVE Counts'
  BY <1>19 DEF LeadFinish
<1>20. ASSUME NEW r \in Reqs, LeadRestored(r) PROVE Counts'
  BY <1>20 DEF LeadRestored
<1>21. ASSUME NEW r \in Reqs, Publish(r) PROVE Counts'
  BY <1>21 DEF Publish, RetireFlight
<1>22. ASSUME NEW r \in Reqs, Send(r) PROVE Counts'
  BY <1>22 DEF Send, told
<1>23. ASSUME NEW r \in Reqs, RestoreQueue(r) PROVE Counts'
  BY <1>23 DEF RestoreQueue
<1>24. ASSUME NEW r \in Reqs, RestoreCreate(r) PROVE Counts'
  BY <1>24 DEF RestoreCreate
<1>25. ASSUME NEW r \in Reqs, RestoreDone(r) PROVE Counts'
  BY <1>25 DEF RestoreDone, mark_running
<1>26. ASSUME NEW r \in Reqs, Cancel(r) PROVE Counts'
  BY <1>26 DEF Cancel, RetireFlight
<1>27. ASSUME NEW r \in Reqs, NEW where \in DOMAIN Reading, Probe(r, where)
      PROVE  Counts'
  <2>1. pc'[r] # "new" /\ (got'[r] = "forwarded" => pc'[r] = "done")
    BY <1>27 DEF Probe, Conclude, told, Reading, Observed
  <2>2. \A q \in Reqs : q # r => pc'[q] = pc[q] /\ got'[q] = got[q]
    BY <1>27 DEF Probe, Conclude, told, Reading
  <2>3. QED BY <1>27, <2>1, <2>2 DEF Probe
<1>28. ASSUME NEW r \in Reqs, NEW where \in DOMAIN Reading, ProbeAnswer(r, where)
      PROVE  Counts'
  <2>1. pc'[r] # "new" /\ (got'[r] = "forwarded" => pc'[r] = "done")
    BY <1>28 DEF ProbeAnswer, Conclude, told, Reading
  <2>2. \A q \in Reqs : q # r => pc'[q] = pc[q] /\ got'[q] = got[q]
    BY <1>28 DEF ProbeAnswer, Conclude, told, Reading
  <2>3. QED BY <1>28, <2>1, <2>2 DEF ProbeAnswer
<1>29. ASSUME NEW r \in Reqs, NEW where \in DOMAIN Reading, ProbeFails(r, where)
      PROVE  Counts'
  BY <1>29 DEF ProbeFails, told, Reading
<1>30. CASE Scan
  BY <1>30 DEF Scan
<1>31. CASE Register
  BY <1>31 DEF Register
<1>32. CASE Compare
  <2>1. scan'.at \in {"lookup", "drop"} /\ scan'.n = scan.n /\ scan'.seen = scan.seen
    BY <1>32 DEF Compare
  <2>2. QED BY <1>32, <2>1 DEF Compare
<1>33. CASE RecycleLookup
  BY <1>33 DEF RecycleLookup
<1>34. CASE RecycleLocked
  <2>1. scan'.at \in {"mark", "drop"} /\ scan'.n = scan.n /\ scan'.seen = scan.seen
    BY <1>34 DEF RecycleLocked
  <2>2. QED BY <1>34, <2>1 DEF RecycleLocked
<1>35. CASE RecycleMark
  BY <1>35 DEF RecycleMark, mark_stopped
<1>36. CASE RecycleScale
  BY <1>36 DEF RecycleScale, ScaleZero, mark_stopped, mark_running
<1>37. CASE TransitionDrop
  BY <1>37 DEF TransitionDrop, Notified
<1>38. CASE StopBegin
  BY <1>38 DEF StopBegin, Free
<1>39. CASE DeleteBegin
  BY <1>39 DEF DeleteBegin, Free
<1>40. CASE StopMark
  BY <1>40 DEF StopMark, mark_stopped
<1>41. CASE StopScale
  BY <1>41 DEF StopScale, ScaleZero, mark_stopped, mark_running
<1>42. CASE DeleteFence
  BY <1>42 DEF DeleteFence, mark_wake_blocked
<1>43. CASE DeleteRemove
  BY <1>43 DEF DeleteRemove
<1>44. CASE DeleteForget
  BY <1>44 DEF DeleteForget, Notified
<1>45. CASE DeleteFails
  BY <1>45 DEF DeleteFails
<1>46. CASE Boot
  BY <1>46 DEF Boot
<1>47. CASE Age
  BY <1>47 DEF Age
<1>48. CASE Peer
  BY <1>48 DEF Peer
<1>49. CASE Expire
  BY <1>49 DEF Expire
<1>50. CASE UNCHANGED vars
  BY <1>50 DEF vars
<1>51. QED
  BY <1>1, <1>2, <1>3, <1>4, <1>5, <1>6, <1>7, <1>8, <1>9, <1>10, <1>11, <1>12, <1>13,
     <1>14, <1>15, <1>16, <1>17, <1>18, <1>19, <1>20, <1>21, <1>22, <1>23, <1>24, <1>25,
     <1>26, <1>27, <1>28, <1>29, <1>30, <1>31, <1>32, <1>33, <1>34, <1>35, <1>36, <1>37,
     <1>38, <1>39, <1>40, <1>41, <1>42, <1>43, <1>44, <1>45, <1>46, <1>47, <1>48, <1>49,
     <1>50
     DEF Next, Request, Lead, Restore, Recycle, Control

\* The recycler's transition stays registered until it is dropped, unless a deletion
\* finished and forgot it.
Transition ==
  scan.at \in {"registered", "lookup", "queue", "mark", "scale"} =>
    recycling = scan.n \/ del = "done"

\* Every step keeps the transition.
LEMMA TransitionStep ==
  ASSUME Transition, Locked, Shapes, [Next]_vars
  PROVE  Transition'
<1> USE TrafficWakeAssumption
    DEF at, goto, cluster, marks, access, flights, requests, controls, aside,
        Transition, Locked, Shapes
<1>1. ASSUME NEW r \in Reqs, Touch(r) PROVE Transition'
  BY <1>1 DEF Touch
<1>2. ASSUME NEW r \in Reqs, Untouched(r) PROVE Transition'
  BY <1>2 DEF Untouched
<1>3. ASSUME NEW r \in Reqs, Check(r) PROVE Transition'
  BY <1>3 DEF Check
<1>4. ASSUME NEW r \in Reqs, RecGet(r) PROVE Transition'
  BY <1>4 DEF RecGet
<1>5. ASSUME NEW r \in Reqs, RecEnable(r) PROVE Transition'
  BY <1>5 DEF RecEnable
<1>6. ASSUME NEW r \in Reqs, RecCheck(r) PROVE Transition'
  BY <1>6 DEF RecCheck
<1>7. ASSUME NEW r \in Reqs, Join(r) PROVE Transition'
  BY <1>7 DEF Join
<1>8. ASSUME NEW r \in Reqs, Followed(r) PROVE Transition'
  BY <1>8 DEF Followed, told
<1>9. ASSUME NEW r \in Reqs, LeadTry(r) PROVE Transition'
  BY <1>9 DEF LeadTry, Free
<1>10. ASSUME NEW r \in Reqs, LeadWait(r) PROVE Transition'
  BY <1>10 DEF LeadWait
<1>11. ASSUME NEW r \in Reqs, LeadConflict(r) PROVE Transition'
  BY <1>11 DEF LeadConflict
<1>12. ASSUME NEW r \in Reqs, LeadRefused(r) PROVE Transition'
  BY <1>12 DEF LeadRefused
<1>13. ASSUME NEW r \in Reqs, LeadGranted(r) PROVE Transition'
  BY <1>13 DEF LeadGranted
<1>14. ASSUME NEW r \in Reqs, LeadMissing(r) PROVE Transition'
  BY <1>14 DEF LeadMissing
<1>15. ASSUME NEW r \in Reqs, LeadAdmit(r) PROVE Transition'
  BY <1>15 DEF LeadAdmit, prepare_traffic_wake
<1>16. ASSUME NEW r \in Reqs, LeadStart(r) PROVE Transition'
  BY <1>16 DEF LeadStart
<1>17. ASSUME NEW r \in Reqs, LeadUnknown(r) PROVE Transition'
  BY <1>17 DEF LeadUnknown
<1>18. ASSUME NEW r \in Reqs, LeadObserve(r) PROVE Transition'
  BY <1>18 DEF LeadObserve
<1>19. ASSUME NEW r \in Reqs, LeadFinish(r) PROVE Transition'
  BY <1>19 DEF LeadFinish
<1>20. ASSUME NEW r \in Reqs, LeadRestored(r) PROVE Transition'
  BY <1>20 DEF LeadRestored
<1>21. ASSUME NEW r \in Reqs, Publish(r) PROVE Transition'
  BY <1>21 DEF Publish, RetireFlight
<1>22. ASSUME NEW r \in Reqs, Send(r) PROVE Transition'
  BY <1>22 DEF Send, told
<1>23. ASSUME NEW r \in Reqs, RestoreQueue(r) PROVE Transition'
  BY <1>23 DEF RestoreQueue
<1>24. ASSUME NEW r \in Reqs, RestoreCreate(r) PROVE Transition'
  BY <1>24 DEF RestoreCreate
<1>25. ASSUME NEW r \in Reqs, RestoreDone(r) PROVE Transition'
  BY <1>25 DEF RestoreDone, mark_running
<1>26. ASSUME NEW r \in Reqs, Cancel(r) PROVE Transition'
  BY <1>26 DEF Cancel, RetireFlight
<1>27. ASSUME NEW r \in Reqs, NEW where \in DOMAIN Reading, Probe(r, where)
      PROVE  Transition'
  BY <1>27 DEF Probe, Conclude, told, backfill_remote_state, Reading
<1>28. ASSUME NEW r \in Reqs, NEW where \in DOMAIN Reading, ProbeAnswer(r, where)
      PROVE  Transition'
  BY <1>28 DEF ProbeAnswer, Conclude, told, backfill_remote_state, Reading
<1>29. ASSUME NEW r \in Reqs, NEW where \in DOMAIN Reading, ProbeFails(r, where)
      PROVE  Transition'
  BY <1>29 DEF ProbeFails, told, Reading
<1>30. CASE Scan
  BY <1>30 DEF Scan
<1>31. CASE Register
  BY <1>31 DEF Register
<1>32. CASE Compare
  BY <1>32 DEF Compare
<1>33. CASE RecycleLookup
  BY <1>33 DEF RecycleLookup
<1>34. CASE RecycleLocked
  BY <1>34 DEF RecycleLocked
<1>35. CASE RecycleMark
  BY <1>35 DEF RecycleMark, mark_stopped
<1>36. CASE RecycleScale
  BY <1>36 DEF RecycleScale, ScaleZero, mark_stopped, mark_running
<1>37. CASE TransitionDrop
  BY <1>37 DEF TransitionDrop, Notified
<1>38. CASE StopBegin
  BY <1>38 DEF StopBegin, Free
<1>39. CASE DeleteBegin
  BY <1>39 DEF DeleteBegin, Free
<1>40. CASE StopMark
  BY <1>40 DEF StopMark, mark_stopped
<1>41. CASE StopScale
  BY <1>41 DEF StopScale, ScaleZero, mark_stopped, mark_running
<1>42. CASE DeleteFence
  BY <1>42 DEF DeleteFence, mark_wake_blocked
<1>43. CASE DeleteRemove
  BY <1>43 DEF DeleteRemove
<1>44. CASE DeleteForget
  BY <1>44 DEF DeleteForget, Notified
<1>45. CASE DeleteFails
  BY <1>45 DEF DeleteFails
<1>46. CASE Boot
  BY <1>46 DEF Boot
<1>47. CASE Age
  BY <1>47 DEF Age
<1>48. CASE Peer
  BY <1>48 DEF Peer
<1>49. CASE Expire
  BY <1>49 DEF Expire
<1>50. CASE UNCHANGED vars
  BY <1>50 DEF vars
<1>51. QED
  BY <1>1, <1>2, <1>3, <1>4, <1>5, <1>6, <1>7, <1>8, <1>9, <1>10, <1>11, <1>12, <1>13,
     <1>14, <1>15, <1>16, <1>17, <1>18, <1>19, <1>20, <1>21, <1>22, <1>23, <1>24, <1>25,
     <1>26, <1>27, <1>28, <1>29, <1>30, <1>31, <1>32, <1>33, <1>34, <1>35, <1>36, <1>37,
     <1>38, <1>39, <1>40, <1>41, <1>42, <1>43, <1>44, <1>45, <1>46, <1>47, <1>48, <1>49,
     <1>50
     DEF Next, Request, Lead, Restore, Recycle, Control

\* Where a request is held while a transition is registered.
Turned == {"check", "rec", "rec_enable", "rec_check", "rec_wait"}

\* Traffic that arrived after the scan of a recycling that goes on waits for its end,
\* or failed.
Spared ==
  scan.at \in {"lookup", "queue", "mark", "scale"} /\ recycling = scan.n =>
    \A r \in Reqs : touched[r] > scan.seen =>
      pc[r] \in Turned \/ (pc[r] = "done" /\ got[r] = "failed")

\* Every step keeps it so.
LEMMA SpareStep ==
  ASSUME Spared, Counts, Shapes, [Next]_vars
  PROVE  Spared'
<1> USE TrafficWakeAssumption
    DEF at, goto, cluster, marks, access, flights, requests, controls, aside,
        Spared, Turned
<1>0. /\ pc \in [Reqs -> PCs] /\ DOMAIN got = Reqs /\ touched \in [Reqs -> Nat]
      /\ scan.seen \in Nat /\ acc \in Nat /\ DOMAIN scan = {"at", "seen", "n"}
      /\ \A r \in Reqs : touched[r] <= acc
      /\ (scan.at # "idle" => scan.n \in 1 .. MaxScans)
  BY DEF Counts, Shapes
<1>1. ASSUME NEW r \in Reqs, Touch(r) PROVE Spared'
  BY <1>1, <1>0 DEF Touch
<1>2. ASSUME NEW r \in Reqs, Untouched(r) PROVE Spared'
  BY <1>2, <1>0 DEF Untouched
<1>3. ASSUME NEW r \in Reqs, Check(r) PROVE Spared'
  BY <1>3, <1>0 DEF Check, is_stopped
<1>4. ASSUME NEW r \in Reqs, RecGet(r) PROVE Spared'
  BY <1>4, <1>0 DEF RecGet
<1>5. ASSUME NEW r \in Reqs, RecEnable(r) PROVE Spared'
  BY <1>5, <1>0 DEF RecEnable
<1>6. ASSUME NEW r \in Reqs, RecCheck(r) PROVE Spared'
  BY <1>6, <1>0 DEF RecCheck
<1>7. ASSUME NEW r \in Reqs, Join(r) PROVE Spared'
  BY <1>7, <1>0 DEF Join
<1>8. ASSUME NEW r \in Reqs, Followed(r) PROVE Spared'
  BY <1>8, <1>0 DEF Followed, told
<1>9. ASSUME NEW r \in Reqs, LeadTry(r) PROVE Spared'
  BY <1>9, <1>0 DEF LeadTry, Free
<1>10. ASSUME NEW r \in Reqs, LeadWait(r) PROVE Spared'
  BY <1>10, <1>0 DEF LeadWait
<1>11. ASSUME NEW r \in Reqs, LeadConflict(r) PROVE Spared'
  BY <1>11, <1>0 DEF LeadConflict, Leading
<1>12. ASSUME NEW r \in Reqs, LeadRefused(r) PROVE Spared'
  BY <1>12, <1>0 DEF LeadRefused
<1>13. ASSUME NEW r \in Reqs, LeadGranted(r) PROVE Spared'
  BY <1>13, <1>0 DEF LeadGranted
<1>14. ASSUME NEW r \in Reqs, LeadMissing(r) PROVE Spared'
  BY <1>14, <1>0 DEF LeadMissing
<1>15. ASSUME NEW r \in Reqs, LeadAdmit(r) PROVE Spared'
  BY <1>15, <1>0 DEF LeadAdmit, prepare_traffic_wake
<1>16. ASSUME NEW r \in Reqs, LeadStart(r) PROVE Spared'
  BY <1>16, <1>0 DEF LeadStart
<1>17. ASSUME NEW r \in Reqs, LeadUnknown(r) PROVE Spared'
  BY <1>17, <1>0 DEF LeadUnknown
<1>18. ASSUME NEW r \in Reqs, LeadObserve(r) PROVE Spared'
  BY <1>18, <1>0 DEF LeadObserve
<1>19. ASSUME NEW r \in Reqs, LeadFinish(r) PROVE Spared'
  BY <1>19, <1>0 DEF LeadFinish
<1>20. ASSUME NEW r \in Reqs, LeadRestored(r) PROVE Spared'
  BY <1>20, <1>0 DEF LeadRestored
<1>21. ASSUME NEW r \in Reqs, Publish(r) PROVE Spared'
  BY <1>21, <1>0 DEF Publish, RetireFlight
<1>22. ASSUME NEW r \in Reqs, Send(r) PROVE Spared'
  BY <1>22, <1>0 DEF Send, told
<1>23. ASSUME NEW r \in Reqs, RestoreQueue(r) PROVE Spared'
  BY <1>23, <1>0 DEF RestoreQueue
<1>24. ASSUME NEW r \in Reqs, RestoreCreate(r) PROVE Spared'
  BY <1>24, <1>0 DEF RestoreCreate
<1>25. ASSUME NEW r \in Reqs, RestoreDone(r) PROVE Spared'
  BY <1>25, <1>0 DEF RestoreDone, mark_running
<1>26. ASSUME NEW r \in Reqs, Cancel(r) PROVE Spared'
  BY <1>26, <1>0 DEF Cancel, RetireFlight, Leading
<1>27. ASSUME NEW r \in Reqs, NEW where \in DOMAIN Reading, Probe(r, where)
      PROVE  Spared'
  BY <1>27, <1>0 DEF Probe, Conclude, told, backfill_remote_state, Reading
<1>28. ASSUME NEW r \in Reqs, NEW where \in DOMAIN Reading, ProbeAnswer(r, where)
      PROVE  Spared'
  BY <1>28, <1>0 DEF ProbeAnswer, Conclude, told, backfill_remote_state, Reading
<1>29. ASSUME NEW r \in Reqs, NEW where \in DOMAIN Reading, ProbeFails(r, where)
      PROVE  Spared'
  BY <1>29, <1>0 DEF ProbeFails, told, Reading
<1>30. CASE Scan
  BY <1>30, <1>0 DEF Scan
<1>31. CASE Register
  BY <1>31, <1>0 DEF Register
<1>32. CASE Compare
  BY <1>32, <1>0 DEF Compare
<1>33. CASE RecycleLookup
  BY <1>33, <1>0 DEF RecycleLookup
<1>34. CASE RecycleLocked
  BY <1>34, <1>0 DEF RecycleLocked
<1>35. CASE RecycleMark
  BY <1>35, <1>0 DEF RecycleMark, mark_stopped
<1>36. CASE RecycleScale
  BY <1>36, <1>0 DEF RecycleScale, ScaleZero, mark_stopped, mark_running
<1>37. CASE TransitionDrop
  BY <1>37, <1>0 DEF TransitionDrop, Notified
<1>38. CASE StopBegin
  BY <1>38, <1>0 DEF StopBegin, Free
<1>39. CASE DeleteBegin
  BY <1>39, <1>0 DEF DeleteBegin, Free
<1>40. CASE StopMark
  BY <1>40, <1>0 DEF StopMark, mark_stopped
<1>41. CASE StopScale
  BY <1>41, <1>0 DEF StopScale, ScaleZero, mark_stopped, mark_running
<1>42. CASE DeleteFence
  BY <1>42, <1>0 DEF DeleteFence, mark_wake_blocked
<1>43. CASE DeleteRemove
  BY <1>43, <1>0 DEF DeleteRemove
<1>44. CASE DeleteForget
  BY <1>44, <1>0 DEF DeleteForget, Notified
<1>45. CASE DeleteFails
  BY <1>45, <1>0 DEF DeleteFails
<1>46. CASE Boot
  BY <1>46, <1>0 DEF Boot
<1>47. CASE Age
  BY <1>47, <1>0 DEF Age
<1>48. CASE Peer
  BY <1>48, <1>0 DEF Peer
<1>49. CASE Expire
  BY <1>49, <1>0 DEF Expire
<1>50. CASE UNCHANGED vars
  BY <1>50, <1>0 DEF vars
<1>51. QED
  BY <1>1, <1>2, <1>3, <1>4, <1>5, <1>6, <1>7, <1>8, <1>9, <1>10, <1>11, <1>12, <1>13,
     <1>14, <1>15, <1>16, <1>17, <1>18, <1>19, <1>20, <1>21, <1>22, <1>23, <1>24, <1>25,
     <1>26, <1>27, <1>28, <1>29, <1>30, <1>31, <1>32, <1>33, <1>34, <1>35, <1>36, <1>37,
     <1>38, <1>39, <1>40, <1>41, <1>42, <1>43, <1>44, <1>45, <1>46, <1>47, <1>48, <1>49,
     <1>50
     DEF Next, Request, Lead, Restore, Recycle, Control

\* The strengthened invariant.
TInv == IInv /\ Counts /\ Transition /\ Spared

\* It holds at first ...
LEMMA InitTInv == Init => TInv
<1> SUFFICES ASSUME Init PROVE TInv
  OBVIOUS
<1>1. Counts
  BY TrafficWakeAssumption DEF Init, Counts
<1>2. Transition /\ Spared
  BY DEF Init, Transition, Spared
<1>3. QED BY InitIInv, <1>1, <1>2 DEF TInv

\* ... and every step keeps it.
LEMMA NextTInv == TInv /\ [Next]_vars => TInv'
<1> SUFFICES ASSUME TInv, [Next]_vars PROVE TInv'
  OBVIOUS
<1>1. IInv' /\ Shapes /\ Locked
  BY NextIInv DEF TInv, IInv
<1>2. Counts' /\ Transition' /\ Spared'
  BY <1>1, CountStep, TransitionStep, SpareStep DEF TInv
<1>3. QED BY <1>1, <1>2 DEF TInv

\* rcoder-engine/src/userapp_recycle.rs and activity_registry: while the recycler scales
\* the application to zero under its registered transition, no request that recorded its
\* access after the scan has been let through, and only a finished deletion takes the
\* transition away before, whatever the number of requests and scans.
THEOREM RecyclerSparesTraffic == Spec => []RecyclingSparesTraffic
<1>1. TInv => RecyclingSparesTraffic
  <2>1. SUFFICES ASSUME TInv, scan.at \in {"mark", "scale"}
                 PROVE  IF recycling = scan.n
                        THEN \A r \in Reqs : got[r] = "forwarded" => touched[r] <= scan.seen
                        ELSE del = "done"
    BY DEF RecyclingSparesTraffic
  <2>2. CASE recycling = scan.n
    <3> SUFFICES ASSUME NEW r \in Reqs, got[r] = "forwarded" PROVE touched[r] <= scan.seen
      BY <2>2
    <3>1. touched[r] \in Nat /\ scan.seen \in Nat /\ pc[r] = "done"
      BY <2>1 DEF TInv, Counts
    <3>2. ~(touched[r] > scan.seen)
      BY <2>1, <2>2, <3>1 DEF TInv, Spared, Turned
    <3>3. QED BY <3>1, <3>2
  <2>3. CASE recycling # scan.n
    BY <2>1, <2>3 DEF TInv, Transition
  <2>4. QED BY <2>2, <2>3
<1>2. QED BY <1>1, InitTInv, NextTInv, PTL DEF Spec
==============================================================================
