CONSTANT Switches <- MCNeverBack
SPECIFICATION FairSpec
INVARIANTS PoseNotOutlivesSession EyesAgree FramesFlow
PROPERTY RecenterMet
