\* Three tasks: one may be leaving the group while a second closes it and a
\* third is still in its constructor.
SPECIFICATION FairSpec
CONSTANT Task = {t1, t2, t3}
INVARIANTS GroupInv NoTouchAfterDelete
PROPERTIES DestructorReturns ImplementsBarrier
