--------------------------- MODULE LauncherProofs ---------------------------
(***************************************************************************)
(* Proofs about Launcher, for any number of models, benchmarks and         *)
(* interrupts and any set of benchmarks bound by the manifest.             *)
(***************************************************************************)
EXTENDS Launcher, TLAPS

USE LauncherAssumption DEF LauncherAssumption, NoModel, Models, Options, Manifest,
    UnloadBetween, Lifecycle

LEMMA InitIInv == Init => IInv
<1> SUFFICES ASSUME Init PROVE IInv
  OBVIOUS
<1> USE DEF Init, Provider!Init, Loading, Try
<1>1. TypeOK
  <2>1. fresh \in BOOLEAN /\ unchecked \in BOOLEAN
    OBVIOUS
  <2> QED
    BY <2>1 DEF TypeOK, Places
<1>2. CallInv /\ SlotInv /\ CleanInv
  BY DEF CallInv, SlotInv, CleanInv, InTry, Acknowledged, Returned
<1>3. CoverInv /\ SummaryInv
  BY DEF CoverInv, SummaryInv, Opening, Between, Working, Rounds, Benches
<1>4. ManifestChecked
  BY DEF ManifestChecked
<1> QED
  BY <1>1, <1>2, <1>3, <1>4 DEF IInv

LEMMA StepType ==
  ASSUME TypeOK, CallInv, [Next]_vars PROVE TypeOK'
<1> USE DEF TypeOK, CallInv, Places, Loading, Try, Call, Goto, Returned, Exit, Raise,
            provider, tables, ghosts, loadUnchanged, runUnchanged, endUnchanged, launcher,
            Provider!Ask, Provider!Answer, Provider!MayAcknowledge, Provider!Fill, Provider!Vanish
<1>1. CASE NextModel
  BY <1>1 DEF NextModel
<1>2. CASE RegistryRejects
  BY <1>2 DEF RegistryRejects
<1>3. CASE RegistryAccepts
  BY <1>3 DEF RegistryAccepts
<1>4. CASE Loaded
  <2>1. CASE site = "ensure"
    BY <1>4, <2>1 DEF Loaded, LoadSucceeds, Current
  <2>2. CASE site # "ensure"
    BY <1>4, <2>2 DEF Loaded, LoadSucceeds, Current
  <2> QED
    BY <2>1, <2>2
<1>5. CASE OtherLoaded
  BY <1>5 DEF OtherLoaded
<1>6. CASE NothingLoaded
  BY <1>6 DEF NothingLoaded
<1>7. CASE Evicted
  BY <1>7 DEF Evicted
<1>8. CASE LoadAcknowledged
  BY <1>8 DEF LoadAcknowledged
<1>9. CASE Ready
  BY <1>9 DEF Ready
<1>10. CASE NotServed
  BY <1>10 DEF NotServed, LoadFails
<1>11. CASE LoadRaises
  BY <1>11 DEF LoadRaises
<1>12. CASE Verify
  BY <1>12 DEF Verify, LoadFails, LoadSucceeds, Current
<1>13. CASE Enter
  <2>1. (fresh \in BOOLEAN /\ unchecked \in BOOLEAN)'
    BY <1>13 DEF Enter
  <2>2. /\ (conf \in SUBSET Options /\ slot \in 0..NumModels)'
        /\ (op \in {"idle", "load", "unload", "ready"} /\ want \in 0..NumModels)'
        /\ (reply \in {"none", "ok", "failed"} /\ pc \in Places)'
        /\ (site \in {"first", "between", "ensure"} /\ model \in 0..NumModels)'
        /\ (bench \in 0..NumBenches /\ interrupts \in 0..MaxInterrupts)'
        /\ (status \in {"running", "done", "exit2", "raised", "uncaught"})'
        /\ (model_results \subseteq Rows /\ all_summary \subseteq Rows /\ saved \subseteq Rows)'
    BY <1>13 DEF Enter
  <2> QED
    BY <2>1, <2>2
<1>14. CASE NextBench
  BY <1>14 DEF NextBench
<1>15. CASE UnloadedBetween
  BY <1>15 DEF UnloadedBetween
<1>16. CASE Result
  <2>1. (fresh \in BOOLEAN /\ unchecked \in BOOLEAN)'
    BY <1>16 DEF Result, Benchmarked, Rows
  <2>2. /\ (conf \in SUBSET Options /\ slot \in 0..NumModels)'
        /\ (op \in {"idle", "load", "unload", "ready"} /\ want \in 0..NumModels)'
        /\ (reply \in {"none", "ok", "failed"} /\ pc \in Places)'
        /\ (site \in {"first", "between", "ensure"} /\ model \in 0..NumModels)'
        /\ (bench \in 0..NumBenches /\ interrupts \in 0..MaxInterrupts)'
        /\ (status \in {"running", "done", "exit2", "raised", "uncaught"})'
        /\ (model_results \subseteq Rows /\ all_summary \subseteq Rows /\ saved \subseteq Rows)'
    BY <1>16 DEF Result, Benchmarked, Rows
  <2> QED
    BY <2>1, <2>2
<1>17. CASE NoResult
  BY <1>17 DEF NoResult, Benchmarked
<1>18. CASE Caught
  BY <1>18 DEF Caught, Benchmarked
<1>19. CASE NotCaught
  BY <1>19 DEF NotCaught, Benchmarked
<1>20. CASE Ensure
  BY <1>20 DEF Ensure
<1>21. CASE Waited
  BY <1>21 DEF Waited
<1>22. CASE BenchesDone
  BY <1>22 DEF BenchesDone
<1>23. CASE Write
  BY <1>23 DEF Write
<1>24. CASE WriteFails
  BY <1>24 DEF WriteFails
<1>25. CASE Except
  BY <1>25 DEF Except
<1>26. CASE CleanedUp
  BY <1>26 DEF CleanedUp
<1>27. CASE ModelsDone
  BY <1>27 DEF ModelsDone
<1>28. CASE Finished
  BY <1>28 DEF Finished
<1>29. CASE Interrupt
  BY <1>29 DEF Interrupt
<1>30. CASE Fill
  BY <1>30 DEF Fill
<1>31. CASE Vanish
  BY <1>31 DEF Vanish
<1>32. CASE Answer
  BY <1>32 DEF Answer
<1>33. CASE UNCHANGED vars
  BY <1>33 DEF vars
<1> QED
  BY <1>1, <1>2, <1>3, <1>4, <1>5, <1>6, <1>7, <1>8, <1>9, <1>10,
         <1>11, <1>12, <1>13, <1>14, <1>15, <1>16, <1>17, <1>18, <1>19,
         <1>20, <1>21, <1>22, <1>23, <1>24, <1>25, <1>26, <1>27, <1>28,
         <1>29, <1>30, <1>31, <1>32, <1>33
     DEF Next, Main

(* Calls and the end of the process.                                        *)
LEMMA StepCall ==
  ASSUME TypeOK, CallInv, [Next]_vars PROVE CallInv'
<1> USE DEF TypeOK, CallInv, Places, Loading, Try, Call, Goto, Returned, Exit, Raise,
            provider, tables, ghosts, loadUnchanged, runUnchanged, endUnchanged, launcher,
            Provider!Ask, Provider!Answer, Provider!MayAcknowledge, Provider!Fill, Provider!Vanish
<1>1. CASE NextModel
  BY <1>1 DEF NextModel
<1>2. CASE RegistryRejects
  BY <1>2 DEF RegistryRejects
<1>3. CASE RegistryAccepts
  BY <1>3 DEF RegistryAccepts
<1>4. CASE Loaded
  BY <1>4 DEF Loaded, LoadSucceeds, Current
<1>5. CASE OtherLoaded
  BY <1>5 DEF OtherLoaded
<1>6. CASE NothingLoaded
  BY <1>6 DEF NothingLoaded
<1>7. CASE Evicted
  BY <1>7 DEF Evicted
<1>8. CASE LoadAcknowledged
  BY <1>8 DEF LoadAcknowledged
<1>9. CASE Ready
  BY <1>9 DEF Ready
<1>10. CASE NotServed
  BY <1>10 DEF NotServed, LoadFails
<1>11. CASE LoadRaises
  BY <1>11 DEF LoadRaises
<1>12. CASE Verify
  BY <1>12 DEF Verify, LoadFails, LoadSucceeds, Current
<1>13. CASE Enter
  BY <1>13 DEF Enter
<1>14. CASE NextBench
  BY <1>14 DEF NextBench
<1>15. CASE UnloadedBetween
  BY <1>15 DEF UnloadedBetween
<1>16. CASE Result
  BY <1>16 DEF Result, Benchmarked
<1>17. CASE NoResult
  BY <1>17 DEF NoResult, Benchmarked
<1>18. CASE Caught
  BY <1>18 DEF Caught, Benchmarked
<1>19. CASE NotCaught
  BY <1>19 DEF NotCaught, Benchmarked
<1>20. CASE Ensure
  BY <1>20 DEF Ensure
<1>21. CASE Waited
  BY <1>21 DEF Waited
<1>22. CASE BenchesDone
  BY <1>22 DEF BenchesDone
<1>23. CASE Write
  BY <1>23 DEF Write
<1>24. CASE WriteFails
  BY <1>24 DEF WriteFails
<1>25. CASE Except
  BY <1>25 DEF Except
<1>26. CASE CleanedUp
  BY <1>26 DEF CleanedUp
<1>27. CASE ModelsDone
  BY <1>27 DEF ModelsDone
<1>28. CASE Finished
  BY <1>28 DEF Finished
<1>29. CASE Interrupt
  BY <1>29 DEF Interrupt
<1>30. CASE Fill
  BY <1>30 DEF Fill
<1>31. CASE Vanish
  BY <1>31 DEF Vanish
<1>32. CASE Answer
  BY <1>32 DEF Answer
<1>33. CASE UNCHANGED vars
  BY <1>33 DEF vars
<1> QED
  BY <1>1, <1>2, <1>3, <1>4, <1>5, <1>6, <1>7, <1>8, <1>9, <1>10,
         <1>11, <1>12, <1>13, <1>14, <1>15, <1>16, <1>17, <1>18, <1>19,
         <1>20, <1>21, <1>22, <1>23, <1>24, <1>25, <1>26, <1>27, <1>28,
         <1>29, <1>30, <1>31, <1>32, <1>33
     DEF Next, Main

(* What an acknowledged load leaves in the slot.                            *)
LEMMA StepSlot ==
  ASSUME TypeOK, CallInv, SlotInv, [Next]_vars PROVE SlotInv'
<1> USE DEF TypeOK, CallInv, SlotInv, InTry, Acknowledged, Current, Places, Loading, Try, Call, Goto, Returned, Exit, Raise,
            provider, tables, ghosts, loadUnchanged, runUnchanged, endUnchanged, launcher,
            Provider!Ask, Provider!Answer, Provider!MayAcknowledge, Provider!Fill, Provider!Vanish
<1>1. CASE NextModel
  BY <1>1 DEF NextModel
<1>2. CASE RegistryRejects
  BY <1>2 DEF RegistryRejects
<1>3. CASE RegistryAccepts
  BY <1>3 DEF RegistryAccepts
<1>4. CASE Loaded
  BY <1>4 DEF Loaded, LoadSucceeds, Current
<1>5. CASE OtherLoaded
  BY <1>5 DEF OtherLoaded
<1>6. CASE NothingLoaded
  BY <1>6 DEF NothingLoaded
<1>7. CASE Evicted
  BY <1>7 DEF Evicted
<1>8. CASE LoadAcknowledged
  BY <1>8 DEF LoadAcknowledged
<1>9. CASE Ready
  BY <1>9 DEF Ready
<1>10. CASE NotServed
  BY <1>10 DEF NotServed, LoadFails
<1>11. CASE LoadRaises
  BY <1>11 DEF LoadRaises
<1>12. CASE Verify
  BY <1>12 DEF Verify, LoadFails, LoadSucceeds, Current
<1>13. CASE Enter
  BY <1>13 DEF Enter
<1>14. CASE NextBench
  BY <1>14 DEF NextBench
<1>15. CASE UnloadedBetween
  BY <1>15 DEF UnloadedBetween
<1>16. CASE Result
  BY <1>16 DEF Result, Benchmarked
<1>17. CASE NoResult
  BY <1>17 DEF NoResult, Benchmarked
<1>18. CASE Caught
  BY <1>18 DEF Caught, Benchmarked
<1>19. CASE NotCaught
  BY <1>19 DEF NotCaught, Benchmarked
<1>20. CASE Ensure
  BY <1>20 DEF Ensure
<1>21. CASE Waited
  BY <1>21 DEF Waited
<1>22. CASE BenchesDone
  BY <1>22 DEF BenchesDone
<1>23. CASE Write
  BY <1>23 DEF Write
<1>24. CASE WriteFails
  BY <1>24 DEF WriteFails
<1>25. CASE Except
  BY <1>25 DEF Except
<1>26. CASE CleanedUp
  BY <1>26 DEF CleanedUp
<1>27. CASE ModelsDone
  BY <1>27 DEF ModelsDone
<1>28. CASE Finished
  BY <1>28 DEF Finished
<1>29. CASE Interrupt
  BY <1>29 DEF Interrupt
<1>30. CASE Fill
  BY <1>30 DEF Fill
<1>31. CASE Vanish
  BY <1>31 DEF Vanish
<1>32. CASE Answer
  BY <1>32 DEF Answer
<1>33. CASE UNCHANGED vars
  BY <1>33 DEF vars
<1> QED
  BY <1>1, <1>2, <1>3, <1>4, <1>5, <1>6, <1>7, <1>8, <1>9, <1>10,
         <1>11, <1>12, <1>13, <1>14, <1>15, <1>16, <1>17, <1>18, <1>19,
         <1>20, <1>21, <1>22, <1>23, <1>24, <1>25, <1>26, <1>27, <1>28,
         <1>29, <1>30, <1>31, <1>32, <1>33
     DEF Next, Main

(* What the last unload answered.                                           *)
LEMMA StepClean ==
  ASSUME TypeOK, CallInv, CleanInv, [Next]_vars PROVE CleanInv'
<1> USE DEF TypeOK, CallInv, CleanInv, InTry, Places, Loading, Try, Call, Goto, Returned, Exit, Raise,
            provider, tables, ghosts, loadUnchanged, runUnchanged, endUnchanged, launcher,
            Provider!Ask, Provider!Answer, Provider!MayAcknowledge, Provider!Fill, Provider!Vanish
<1>1. CASE NextModel
  BY <1>1 DEF NextModel
<1>2. CASE RegistryRejects
  BY <1>2 DEF RegistryRejects
<1>3. CASE RegistryAccepts
  BY <1>3 DEF RegistryAccepts
<1>4. CASE Loaded
  BY <1>4 DEF Loaded, LoadSucceeds, Current
<1>5. CASE OtherLoaded
  BY <1>5 DEF OtherLoaded
<1>6. CASE NothingLoaded
  BY <1>6 DEF NothingLoaded
<1>7. CASE Evicted
  BY <1>7 DEF Evicted
<1>8. CASE LoadAcknowledged
  BY <1>8 DEF LoadAcknowledged
<1>9. CASE Ready
  BY <1>9 DEF Ready
<1>10. CASE NotServed
  BY <1>10 DEF NotServed, LoadFails
<1>11. CASE LoadRaises
  BY <1>11 DEF LoadRaises
<1>12. CASE Verify
  BY <1>12 DEF Verify, LoadFails, LoadSucceeds, Current
<1>13. CASE Enter
  BY <1>13 DEF Enter
<1>14. CASE NextBench
  BY <1>14 DEF NextBench
<1>15. CASE UnloadedBetween
  BY <1>15 DEF UnloadedBetween
<1>16. CASE Result
  BY <1>16 DEF Result, Benchmarked
<1>17. CASE NoResult
  BY <1>17 DEF NoResult, Benchmarked
<1>18. CASE Caught
  BY <1>18 DEF Caught, Benchmarked
<1>19. CASE NotCaught
  BY <1>19 DEF NotCaught, Benchmarked
<1>20. CASE Ensure
  BY <1>20 DEF Ensure
<1>21. CASE Waited
  BY <1>21 DEF Waited
<1>22. CASE BenchesDone
  BY <1>22 DEF BenchesDone
<1>23. CASE Write
  BY <1>23 DEF Write
<1>24. CASE WriteFails
  BY <1>24 DEF WriteFails
<1>25. CASE Except
  BY <1>25 DEF Except
<1>26. CASE CleanedUp
  BY <1>26 DEF CleanedUp
<1>27. CASE ModelsDone
  BY <1>27 DEF ModelsDone
<1>28. CASE Finished
  BY <1>28 DEF Finished
<1>29. CASE Interrupt
  BY <1>29 DEF Interrupt
<1>30. CASE Fill
  BY <1>30 DEF Fill
<1>31. CASE Vanish
  BY <1>31 DEF Vanish
<1>32. CASE Answer
  BY <1>32 DEF Answer
<1>33. CASE UNCHANGED vars
  BY <1>33 DEF vars
<1> QED
  BY <1>1, <1>2, <1>3, <1>4, <1>5, <1>6, <1>7, <1>8, <1>9, <1>10,
         <1>11, <1>12, <1>13, <1>14, <1>15, <1>16, <1>17, <1>18, <1>19,
         <1>20, <1>21, <1>22, <1>23, <1>24, <1>25, <1>26, <1>27, <1>28,
         <1>29, <1>30, <1>31, <1>32, <1>33
     DEF Next, Main

(* The rows of a manifest run.                                              *)
LEMMA StepCover ==
  ASSUME TypeOK, CallInv, CoverInv, [Next]_vars PROVE CoverInv'
<1> USE DEF TypeOK, CallInv, CoverInv, InTry, Strict, Opening, Between, Working, Rounds, Benches, Places, Loading, Try, Call, Goto, Returned, Exit, Raise,
            provider, tables, ghosts, loadUnchanged, runUnchanged, endUnchanged, launcher,
            Provider!Ask, Provider!Answer, Provider!MayAcknowledge, Provider!Fill, Provider!Vanish
<1>1. CASE NextModel
  BY <1>1 DEF NextModel
<1>2. CASE RegistryRejects
  BY <1>2 DEF RegistryRejects
<1>3. CASE RegistryAccepts
  BY <1>3 DEF RegistryAccepts
<1>4. CASE Loaded
  BY <1>4 DEF Loaded, LoadSucceeds, Current
<1>5. CASE OtherLoaded
  BY <1>5 DEF OtherLoaded
<1>6. CASE NothingLoaded
  BY <1>6 DEF NothingLoaded
<1>7. CASE Evicted
  BY <1>7 DEF Evicted
<1>8. CASE LoadAcknowledged
  BY <1>8 DEF LoadAcknowledged
<1>9. CASE Ready
  BY <1>9 DEF Ready
<1>10. CASE NotServed
  BY <1>10 DEF NotServed, LoadFails
<1>11. CASE LoadRaises
  BY <1>11 DEF LoadRaises
<1>12. CASE Verify
  <2>1. CASE site = "first"
    BY <1>12, <2>1 DEF Verify, LoadFails, LoadSucceeds, Current
  <2>2. CASE site = "between"
    BY <1>12, <2>2 DEF Verify, LoadFails, LoadSucceeds, Current
  <2>3. CASE site = "ensure"
    BY <1>12, <2>3 DEF Verify, LoadFails, LoadSucceeds, Current
  <2> QED
    BY <2>1, <2>2, <2>3
<1>13. CASE Enter
  BY <1>13 DEF Enter
<1>14. CASE NextBench
  BY <1>14 DEF NextBench
<1>15. CASE UnloadedBetween
  BY <1>15 DEF UnloadedBetween
<1>16. CASE Result
  BY <1>16 DEF Result, Benchmarked
<1>17. CASE NoResult
  BY <1>17 DEF NoResult, Benchmarked
<1>18. CASE Caught
  BY <1>18 DEF Caught, Benchmarked
<1>19. CASE NotCaught
  BY <1>19 DEF NotCaught, Benchmarked
<1>20. CASE Ensure
  BY <1>20 DEF Ensure
<1>21. CASE Waited
  BY <1>21 DEF Waited
<1>22. CASE BenchesDone
  BY <1>22 DEF BenchesDone
<1>23. CASE Write
  BY <1>23 DEF Write
<1>24. CASE WriteFails
  BY <1>24 DEF WriteFails
<1>25. CASE Except
  BY <1>25 DEF Except
<1>26. CASE CleanedUp
  BY <1>26 DEF CleanedUp
<1>27. CASE ModelsDone
  BY <1>27 DEF ModelsDone
<1>28. CASE Finished
  BY <1>28 DEF Finished
<1>29. CASE Interrupt
  BY <1>29 DEF Interrupt
<1>30. CASE Fill
  BY <1>30 DEF Fill
<1>31. CASE Vanish
  BY <1>31 DEF Vanish
<1>32. CASE Answer
  BY <1>32 DEF Answer
<1>33. CASE UNCHANGED vars
  BY <1>33 DEF vars
<1> QED
  BY <1>1, <1>2, <1>3, <1>4, <1>5, <1>6, <1>7, <1>8, <1>9, <1>10,
         <1>11, <1>12, <1>13, <1>14, <1>15, <1>16, <1>17, <1>18, <1>19,
         <1>20, <1>21, <1>22, <1>23, <1>24, <1>25, <1>26, <1>27, <1>28,
         <1>29, <1>30, <1>31, <1>32, <1>33
     DEF Next, Main

(* The two sets of rows.                                                    *)
LEMMA StepSummary ==
  ASSUME TypeOK, CallInv, SummaryInv, [Next]_vars PROVE SummaryInv'
<1> USE DEF TypeOK, CallInv, SummaryInv, InTry, Opening, Between, Working, Places, Loading, Try, Call, Goto, Returned, Exit, Raise,
            provider, tables, ghosts, loadUnchanged, runUnchanged, endUnchanged, launcher,
            Provider!Ask, Provider!Answer, Provider!MayAcknowledge, Provider!Fill, Provider!Vanish
<1>1. CASE NextModel
  BY <1>1 DEF NextModel
<1>2. CASE RegistryRejects
  BY <1>2 DEF RegistryRejects
<1>3. CASE RegistryAccepts
  BY <1>3 DEF RegistryAccepts
<1>4. CASE Loaded
  BY <1>4 DEF Loaded, LoadSucceeds, Current
<1>5. CASE OtherLoaded
  BY <1>5 DEF OtherLoaded
<1>6. CASE NothingLoaded
  BY <1>6 DEF NothingLoaded
<1>7. CASE Evicted
  BY <1>7 DEF Evicted
<1>8. CASE LoadAcknowledged
  BY <1>8 DEF LoadAcknowledged
<1>9. CASE Ready
  BY <1>9 DEF Ready
<1>10. CASE NotServed
  BY <1>10 DEF NotServed, LoadFails
<1>11. CASE LoadRaises
  BY <1>11 DEF LoadRaises
<1>12. CASE Verify
  BY <1>12 DEF Verify, LoadFails, LoadSucceeds, Current
<1>13. CASE Enter
  BY <1>13 DEF Enter
<1>14. CASE NextBench
  BY <1>14 DEF NextBench
<1>15. CASE UnloadedBetween
  BY <1>15 DEF UnloadedBetween
<1>16. CASE Result
  BY <1>16 DEF Result, Benchmarked
<1>17. CASE NoResult
  BY <1>17 DEF NoResult, Benchmarked
<1>18. CASE Caught
  BY <1>18 DEF Caught, Benchmarked
<1>19. CASE NotCaught
  BY <1>19 DEF NotCaught, Benchmarked
<1>20. CASE Ensure
  BY <1>20 DEF Ensure
<1>21. CASE Waited
  BY <1>21 DEF Waited
<1>22. CASE BenchesDone
  BY <1>22 DEF BenchesDone
<1>23. CASE Write
  BY <1>23 DEF Write
<1>24. CASE WriteFails
  BY <1>24 DEF WriteFails
<1>25. CASE Except
  BY <1>25 DEF Except
<1>26. CASE CleanedUp
  BY <1>26 DEF CleanedUp
<1>27. CASE ModelsDone
  BY <1>27 DEF ModelsDone
<1>28. CASE Finished
  BY <1>28 DEF Finished
<1>29. CASE Interrupt
  BY <1>29 DEF Interrupt
<1>30. CASE Fill
  BY <1>30 DEF Fill
<1>31. CASE Vanish
  BY <1>31 DEF Vanish
<1>32. CASE Answer
  BY <1>32 DEF Answer
<1>33. CASE UNCHANGED vars
  BY <1>33 DEF vars
<1> QED
  BY <1>1, <1>2, <1>3, <1>4, <1>5, <1>6, <1>7, <1>8, <1>9, <1>10,
         <1>11, <1>12, <1>13, <1>14, <1>15, <1>16, <1>17, <1>18, <1>19,
         <1>20, <1>21, <1>22, <1>23, <1>24, <1>25, <1>26, <1>27, <1>28,
         <1>29, <1>30, <1>31, <1>32, <1>33
     DEF Next, Main

(* The check after each bound benchmark.                                    *)
LEMMA StepChecked ==
  ASSUME TypeOK, CallInv, ManifestChecked, [Next]_vars PROVE ManifestChecked'
<1> USE DEF TypeOK, CallInv, ManifestChecked, InTry, Strict, Places, Loading, Try, Call, Goto, Returned, Exit, Raise,
            provider, tables, ghosts, loadUnchanged, runUnchanged, endUnchanged, launcher,
            Provider!Ask, Provider!Answer, Provider!MayAcknowledge, Provider!Fill, Provider!Vanish
<1>1. CASE NextModel
  BY <1>1 DEF NextModel
<1>2. CASE RegistryRejects
  BY <1>2 DEF RegistryRejects
<1>3. CASE RegistryAccepts
  BY <1>3 DEF RegistryAccepts
<1>4. CASE Loaded
  BY <1>4 DEF Loaded, LoadSucceeds, Current
<1>5. CASE OtherLoaded
  BY <1>5 DEF OtherLoaded
<1>6. CASE NothingLoaded
  BY <1>6 DEF NothingLoaded
<1>7. CASE Evicted
  BY <1>7 DEF Evicted
<1>8. CASE LoadAcknowledged
  BY <1>8 DEF LoadAcknowledged
<1>9. CASE Ready
  BY <1>9 DEF Ready
<1>10. CASE NotServed
  BY <1>10 DEF NotServed, LoadFails
<1>11. CASE LoadRaises
  BY <1>11 DEF LoadRaises
<1>12. CASE Verify
  BY <1>12 DEF Verify, LoadFails, LoadSucceeds, Current
<1>13. CASE Enter
  BY <1>13 DEF Enter
<1>14. CASE NextBench
  BY <1>14 DEF NextBench
<1>15. CASE UnloadedBetween
  BY <1>15 DEF UnloadedBetween
<1>16. CASE Result
  BY <1>16 DEF Result, Benchmarked
<1>17. CASE NoResult
  BY <1>17 DEF NoResult, Benchmarked
<1>18. CASE Caught
  BY <1>18 DEF Caught, Benchmarked
<1>19. CASE NotCaught
  BY <1>19 DEF NotCaught, Benchmarked
<1>20. CASE Ensure
  BY <1>20 DEF Ensure
<1>21. CASE Waited
  BY <1>21 DEF Waited
<1>22. CASE BenchesDone
  BY <1>22 DEF BenchesDone
<1>23. CASE Write
  BY <1>23 DEF Write
<1>24. CASE WriteFails
  BY <1>24 DEF WriteFails
<1>25. CASE Except
  BY <1>25 DEF Except
<1>26. CASE CleanedUp
  BY <1>26 DEF CleanedUp
<1>27. CASE ModelsDone
  BY <1>27 DEF ModelsDone
<1>28. CASE Finished
  BY <1>28 DEF Finished
<1>29. CASE Interrupt
  BY <1>29 DEF Interrupt
<1>30. CASE Fill
  BY <1>30 DEF Fill
<1>31. CASE Vanish
  BY <1>31 DEF Vanish
<1>32. CASE Answer
  BY <1>32 DEF Answer
<1>33. CASE UNCHANGED vars
  BY <1>33 DEF vars
<1> QED
  BY <1>1, <1>2, <1>3, <1>4, <1>5, <1>6, <1>7, <1>8, <1>9, <1>10,
         <1>11, <1>12, <1>13, <1>14, <1>15, <1>16, <1>17, <1>18, <1>19,
         <1>20, <1>21, <1>22, <1>23, <1>24, <1>25, <1>26, <1>27, <1>28,
         <1>29, <1>30, <1>31, <1>32, <1>33
     DEF Next, Main

(* The inductive invariant, and with it type correctness.                  *)
THEOREM InductiveInvariant == Spec => []IInv
<1>1. IInv /\ [Next]_vars => IInv'
  BY StepType, StepCall, StepSlot, StepClean, StepCover, StepSummary, StepChecked DEF IInv
<1> QED
  BY InitIInv, <1>1, PTL DEF Spec

(* Every benchmark runs against the model its row names, or against none.  *)
THEOREM NeverAnotherModel == Spec => []RightModel
<1>1. IInv => RightModel
  BY DEF IInv, SlotInv, Acknowledged, InTry, Try, RightModel
<1> QED
  BY InductiveInvariant, <1>1, PTL

(* A manifest run that ends normally is complete.                          *)
THEOREM CompleteManifest == Spec => []ManifestComplete
<1>1. ASSUME IInv, status = "done", Manifest, UnloadBetween => Lifecycle,
             NEW i \in Models, NEW j \in Bound
      PROVE  <<i, j>> \in saved
  <2>1. model = NumModels
    BY <1>1 DEF IInv, CoverInv
  <2> QED
    BY <1>1, <2>1 DEF IInv, CoverInv, Between, Rounds
<1>2. IInv => ManifestComplete
  <2> SUFFICES ASSUME IInv, status = "done", Manifest, UnloadBetween => Lifecycle,
                      NEW row \in Models \X Bound
               PROVE  row \in saved
    BY DEF ManifestComplete
  <2>1. /\ row = <<row[1], row[2]>>
        /\ row[1] \in Models /\ row[2] \in Bound
    OBVIOUS
  <2>2. <<row[1], row[2]>> \in saved
    BY <1>1, <2>1
  <2> QED
    BY <2>1, <2>2
<1> QED
  BY InductiveInvariant, <1>2, PTL

(* Every benchmark a manifest binds is followed by the check of its model. *)
THEOREM CheckedManifest == Spec => []ManifestChecked
<1>1. IInv => ManifestChecked
  BY DEF IInv
<1> QED
  BY InductiveInvariant, <1>1, PTL

(* Leaving main's try, or ending normally, unloads the model.              *)
THEOREM CleanUp == Spec => []CleanAfterTry
<1>1. IInv => CleanAfterTry
  BY DEF IInv, CallInv, CleanInv, CleanAfterTry
<1> QED
  BY InductiveInvariant, <1>1, PTL

(* The consolidated overview agrees with the per-model summaries.          *)
THEOREM Agreement == Spec => []SummariesAgree
<1>1. IInv => SummariesAgree
  BY DEF IInv, SummaryInv, Between, SummariesAgree
<1> QED
  BY InductiveInvariant, <1>1, PTL

-----------------------------------------------------------------------------
(* Progress.  That the launcher ends needs fairness and stays with TLC;    *)
(* that it never returns to where it has been does not.                    *)

(* The parts of a round, and the ways out behind the last one.             *)
Phase(at, for) ==
    CASE at \in {"registry", "enter"}            -> 0
      [] at \in Loading /\ for = "first"         -> 0
      [] at \in Loading /\ for # "first"         -> 1
      [] at \in Try \ {"enter", "write"}         -> 1
      [] at = "write"                            -> 2
      [] at = "next"                             -> 3
      [] at = "except"                           -> 4
      [] at \in {"cleanup", "final"}             -> 5
      [] OTHER                                   -> 6

(* The steps of one part: of a load (for the round, between two benchmarks *)
(* or after one), and of a benchmark with its check, up to the loop's head.*)
Before(for) == IF for = "ensure" THEN 9 ELSE 1

Step(at, for) ==
    CASE at = "current" -> Before(for)
      [] at = "evict"   -> Before(for) + 1
      [] at = "load"    -> Before(for) + 2
      [] at = "ready"   -> Before(for) + 3
      [] at = "verify"  -> Before(for) + 4
      [] at \in {"run", "enter"} -> 6
      [] at = "ensure"  -> 7
      [] at = "wait"    -> 8
      [] at = "bench"   -> 14
      [] OTHER          -> 0

(* From model to model, from part to part, from benchmark to benchmark,    *)
(* from step to step.                                                      *)
Ahead ==
    \/ model' > model
    \/ /\ model' = model
       /\ \/ Phase(pc, site)' > Phase(pc, site)
          \/ /\ Phase(pc, site)' = Phase(pc, site)
             /\ \/ Phase(pc, site) = 1 /\ bench' > bench
                \/ /\ Phase(pc, site) = 1 => bench' = bench
                   /\ Step(pc, site)' > Step(pc, site)

(* Whatever fails, is reloaded, skipped or interrupted, the launcher goes  *)
(* on: every step of its own leads ahead, so no benchmark of a round runs  *)
(* twice and no round begins again; nobody else moves it, except that      *)
(* Ctrl+C leads ahead too.                                                 *)
NeverBack ==
    [][(Main => Ahead) /\ (Ahead \/ UNCHANGED <<pc, site, model, bench>>)]_vars

(* The part of the run that each point of the launcher belongs to.         *)
LEMMA PhaseAt ==
  ASSUME NEW for
  PROVE  /\ \A at \in {"registry", "enter"} : Phase(at, for) = 0
         /\ \A at \in Loading : Phase(at, for) = IF for = "first" THEN 0 ELSE 1
         /\ \A at \in {"bench", "unload", "run", "ensure", "wait"} : Phase(at, for) = 1
         /\ Phase("write", for) = 2
         /\ Phase("next", for) = 3
         /\ Phase("except", for) = 4
         /\ \A at \in {"cleanup", "final"} : Phase(at, for) = 5
         /\ Phase("gone", for) = 6
  BY DEF Phase, Loading, Try

(* The place of each point within the round of one benchmark.              *)
LEMMA StepAt ==
  ASSUME NEW for
  PROVE  /\ Step("registry", for) = 0 /\ Step("unload", for) = 0
         /\ Step("run", for) = 6 /\ Step("enter", for) = 6
         /\ Step("ensure", for) = 7 /\ Step("wait", for) = 8 /\ Step("bench", for) = 14
         /\ for = "ensure" =>
               /\ Step("current", for) = 9 /\ Step("evict", for) = 10 /\ Step("load", for) = 11
               /\ Step("ready", for) = 12 /\ Step("verify", for) = 13
         /\ for # "ensure" =>
               /\ Step("current", for) = 1 /\ Step("evict", for) = 2 /\ Step("load", for) = 3
               /\ Step("ready", for) = 4 /\ Step("verify", for) = 5
<1>1. CASE for = "ensure"
  BY <1>1 DEF Step, Before
<1>2. CASE for # "ensure"
  BY <1>2 DEF Step, Before
<1> QED
  BY <1>1, <1>2

(* One case for every step of main().                                      *)
LEMMA MainLeadsAhead ==
  ASSUME TypeOK, CallInv, Main PROVE Ahead
<1>1. /\ model \in Nat /\ bench \in Nat
      /\ site \in {"first", "between", "ensure"}
      /\ pc = "ensure" => site = "ensure"
  BY DEF TypeOK, CallInv
<1> USE <1>1, PhaseAt, StepAt DEF Ahead, Loading, Call, Goto, Returned, Exit, Raise,
            loadUnchanged, runUnchanged, endUnchanged
<1>2. CASE NextModel
  BY <1>2 DEF NextModel
<1>3. CASE RegistryRejects
  BY <1>3 DEF RegistryRejects
<1>4. CASE RegistryAccepts
  BY <1>4 DEF RegistryAccepts
<1>5. CASE Loaded
  <2>1. /\ pc = "current" /\ UNCHANGED <<site, model, bench>>
        /\ pc' = IF site = "ensure" THEN "bench" ELSE "ready"
    BY <1>5 DEF Loaded, LoadSucceeds
  <2>2. CASE site = "ensure"
    BY <2>1, <2>2
  <2>3. CASE site # "ensure"
    BY <2>1, <2>3
  <2> QED
    BY <2>2, <2>3
<1>6. CASE OtherLoaded
  BY <1>6 DEF OtherLoaded
<1>7. CASE NothingLoaded
  BY <1>7 DEF NothingLoaded
<1>8. CASE Evicted
  BY <1>8 DEF Evicted
<1>9. CASE LoadAcknowledged
  BY <1>9 DEF LoadAcknowledged
<1>10. CASE Ready
  BY <1>10 DEF Ready
<1>11. CASE NotServed
  <2>1. pc \in {"evict", "load", "ready"} /\ LoadFails /\ UNCHANGED <<site, model, bench>>
    BY <1>11 DEF NotServed
  <2>2. CASE site = "first"
    BY <2>1, <2>2 DEF LoadFails
  <2>3. CASE site = "between"
    BY <2>1, <2>3 DEF LoadFails
  <2>4. CASE site = "ensure"
    BY <2>1, <2>4 DEF LoadFails
  <2> QED
    BY <2>2, <2>3, <2>4
<1>12. CASE LoadRaises
  BY <1>12 DEF LoadRaises
<1>13. CASE Verify
  <2>1. pc = "verify" /\ (LoadFails \/ LoadSucceeds) /\ UNCHANGED <<site, model, bench>>
    BY <1>13 DEF Verify
  <2>2. CASE site = "first"
    <3>1. pc' \in {"enter", "next", "gone"}
      BY <2>1, <2>2 DEF LoadFails, LoadSucceeds
    <3> QED
      BY <2>1, <2>2, <3>1
  <2>3. CASE site = "between"
    BY <2>1, <2>3 DEF LoadFails, LoadSucceeds
  <2>4. CASE site = "ensure"
    <3>1. pc' \in {"bench", "except"}
      BY <2>1, <2>4 DEF LoadFails, LoadSucceeds
    <3> QED
      BY <2>1, <2>4, <3>1
  <2> QED
    BY <2>2, <2>3, <2>4
<1>14. CASE Enter
  BY <1>14 DEF Enter
<1>15. CASE NextBench
  BY <1>15 DEF NextBench
<1>16. CASE UnloadedBetween
  BY <1>16 DEF UnloadedBetween
<1>17. CASE Result
  BY <1>17 DEF Result
<1>18. CASE NoResult
  BY <1>18 DEF NoResult
<1>19. CASE Caught
  BY <1>19 DEF Caught
<1>20. CASE NotCaught
  BY <1>20 DEF NotCaught
<1>21. CASE Ensure
  BY <1>21 DEF Ensure
<1>22. CASE Waited
  BY <1>22 DEF Waited
<1>23. CASE BenchesDone
  BY <1>23 DEF BenchesDone
<1>24. CASE Write
  BY <1>24 DEF Write
<1>25. CASE WriteFails
  BY <1>25 DEF WriteFails
<1>26. CASE Except
  BY <1>26 DEF Except
<1>27. CASE CleanedUp
  BY <1>27 DEF CleanedUp
<1>28. CASE ModelsDone
  BY <1>28 DEF ModelsDone
<1>29. CASE Finished
  BY <1>29 DEF Finished
<1> QED
  BY <1>2, <1>3, <1>4, <1>5, <1>6, <1>7, <1>8, <1>9, <1>10, <1>11, <1>12, <1>13, <1>14, <1>15, <1>16, <1>17, <1>18, <1>19, <1>20, <1>21, <1>22, <1>23, <1>24, <1>25, <1>26, <1>27, <1>28, <1>29 DEF Main

(* Ctrl+C leads to a later part, or leaves the launcher where it is.       *)
LEMMA InterruptLeadsAhead ==
  ASSUME TypeOK, Interrupt PROVE Ahead \/ UNCHANGED <<pc, site, model, bench>>
<1>1. /\ model \in Nat /\ pc \in Places /\ pc # "gone" /\ model' = model
      /\ UNCHANGED <<site, model, bench>>
  BY DEF TypeOK, Interrupt
<1>2. CASE pc' = "gone"
  <2>1. Phase(pc, site) \in 0..5
    BY <1>1, PhaseAt DEF Places, Loading, Try
  <2> QED
    BY <1>1, <1>2, <2>1, PhaseAt DEF Ahead
<1>3. CASE pc = "except" /\ pc' = "except"
  BY <1>1, <1>3
<1>4. CASE InTry /\ pc' = "except"
  <2>1. Phase(pc, site) \in 0..3
    BY <1>1, <1>4, PhaseAt DEF InTry, Loading, Try
  <2> QED
    BY <1>1, <1>4, <2>1, PhaseAt DEF Ahead
<1> QED
  BY <1>2, <1>3, <1>4 DEF Interrupt, Exit

(* main() never returns to a model, a benchmark or a step it is past, with *)
(* whatever mixture of failures, reloads and interrupts it meets.          *)
THEOREM NoWayBack == Spec => NeverBack
<1>1. ASSUME IInv, [Next]_vars
      PROVE  (Main => Ahead) /\ (Ahead \/ UNCHANGED <<pc, site, model, bench>>)
  <2>1. CASE Fill \/ Vanish \/ Answer \/ UNCHANGED vars
    <3>1. UNCHANGED <<pc, site, model, bench>>
      BY <2>1 DEF Fill, Vanish, Answer, launcher, vars
    <3> QED
      BY <1>1, <3>1, MainLeadsAhead DEF IInv
  <2> QED
    BY <1>1, <2>1, MainLeadsAhead, InterruptLeadsAhead DEF IInv, Next
<1> QED
  BY <1>1, InductiveInvariant, PTL DEF Spec, NeverBack
=============================================================================
