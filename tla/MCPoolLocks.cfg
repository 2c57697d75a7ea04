\* Two blocks of class 1 and one of class 2.
CONSTANTS
    Threads = {t1, t2}
    Blocks = {1, 2, 3}
    NumClasses = 2
    ClassOf <- MCClassOf
    MaxRefill = 1
    NoThread = NoThread
SPECIFICATION Spec
PROPERTIES ImplementsAtomic CallsComplete
