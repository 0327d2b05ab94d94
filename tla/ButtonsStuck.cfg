SPECIFICATION Spec
PROPERTY ReleaseReported
CHECK_DEADLOCK FALSE
