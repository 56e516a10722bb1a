-------------------------- MODULE MCRecoveryCycle --------------------------
EXTENDS RecoveryCycle
\* The state without the offset and the numbers of targets stored calibrations
\* have used, and without the count of attempts lost: these decide nothing but
\* the next offset, no step is enabled or changed by them and no property of the
\* run reads one, so states with one view have the same futures, the infinite
\* ones included.
WithoutOffsets ==
  << [i \in DOMAIN calibrations |->
        <<calibrations[i].age, calibrations[i].effective>>],
     burst, schedule, zeroChain, rest, raised, stopping, pc, collected, reason,
     healthy, passesLeft, targetsLeft, records, faults, series >>
=============================================================================
