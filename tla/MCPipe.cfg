\* Two files of every kind that open, read, write, poll, resize and close a pipe or a
\* FIFO at the same time.  A write or read of three bytes merges one, fills a page of
\* two and wraps around; F_SETPIPE_SZ moves the buffers to a new array.
CONSTANTS
    PAGE_SIZE = 2
    Files = {f1, f2}
    Inodes = {TRUE, FALSE}
    Kinds <- AllKinds
    PIPE_DEF_BUFFERS = 2
    pipe_max_size = 2
    pipe_user_pages_soft = 3
    pipe_user_pages_hard = 4
    CAP_SYS_RESOURCE = FALSE
    CAP_SYS_ADMIN = FALSE
    Lengths = {3}
    PageCounts = {1, 2}
    MaxPolls = 2
    NULL = NULL
SPECIFICATION Spec
SYMMETRY Symmetry
INVARIANTS InOrder NoLostWakeup NoReaderLockup CountsExact ChargesExact
