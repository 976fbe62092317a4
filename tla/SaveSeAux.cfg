CONSTANTS
  Models = {"83P", "84PSE", "84PCSE"}
  Interrupts = 2
  Banks = 5
  Memory = 2
SPECIFICATION Spec
INVARIANT AssistRestored
