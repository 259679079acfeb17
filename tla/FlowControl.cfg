\* Limits 3 and 2, eight frames: reading is disabled and enabled twice.
CONSTANTS
  m_flow_control_high = 3
  m_flow_control_low = 2
  MaxFrames = 8
SPECIFICATION FairSpec
INVARIANTS Inv CountIsOutstanding DisabledHasWork FlagsAgree NoStrandedData
PROPERTIES AllRead
