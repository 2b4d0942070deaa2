CONSTANTS
    Users = {ann}
    Passwords = {old, new}
    Requests = {r1, r2}
    MaxSessions = 2
    MaxTokens = 3
    MaxLinks = 3
SPECIFICATION AuthSpec
SYMMETRY RequestSymmetry
INVARIANTS SessionsHonourPassword OneLiveToken OneUsableLink OneBusinessPerUser
PROPERTIES EndedSessionsStayEnded
