CONSTANTS
    VariantCount = 2
    MaxRetries = 1
    EvalReasons = {"stop", "error"}
SPECIFICATION EvalSpec
INVARIANT FindingsStopLaterVariants
CHECK_DEADLOCK FALSE
