CONSTANT Switches <- MCAnyOrder
SPECIFICATION FairSpec
INVARIANT MonoOnBothEyes
