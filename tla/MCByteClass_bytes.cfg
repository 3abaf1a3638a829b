\* every byte value against every test, on every backend
CONSTANTS
  Tests <- AllTests
SPECIFICATION Spec
INVARIANTS ClassesAgree CustomsAgree NeedlesAgree
CHECK_DEADLOCK FALSE
